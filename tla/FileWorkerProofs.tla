-------------------------- MODULE FileWorkerProofs --------------------------
(***************************************************************************)
(* The linked list of the worker threads, for any clients and programs:    *)
(* the pointers hold what was pushed and not yet taken, in order, and no   *)
(* entry is used behind its deletion.  Then the search for the line end:   *)
(* build_kmp_table() and find_eol() are right for every text and word, and *)
(* what the callbacks are told is what the files hold.                     *)
(***************************************************************************)
EXTENDS FileWorker, FiniteSetTheorems, WellFoundedInduction, TLAPS

-----------------------------------------------------------------------------
(* The inductive invariant *)

Shape ==
  /\ DOMAIN op = Clients /\ \A c \in Clients : "at" \in DOMAIN op[c]
  /\ next \in [Clients -> Clients \cup {Nil}] /\ entries \subseteq Clients
  /\ pending \in Seq(Clients) /\ completed \in Seq(Clients)
  /\ worker \in [at : {"asleep", "wait", "pop", "work", "ended"}, entry : Clients \cup {Nil}]
  /\ initialized \in {0, 1} /\ stopFlag \in {0, 1}
  /\ stopper \in {"none", "join", "free", "killed", "freed"}

\* The pointers run through the entries in the order of the calls.
Pointers ==
  /\ pending = <<>> => head = Nil /\ tail = Nil
  /\ pending # <<>> => /\ head = pending[1] /\ tail = pending[Len(pending)]
                       /\ next[pending[Len(pending)]] = Nil
  /\ \A i \in 1..Len(pending) - 1 : next[pending[i]] = pending[i + 1]

Once(list) == \A i, j \in 1..Len(list) : list[i] = list[j] => i = j
In(c, list) == \E i \in 1..Len(list) : list[i] = c

\* An operation is in the place its state says, and in one place only.
Stations ==
  /\ Once(pending) /\ Once(completed)
  /\ \A c \in Clients : /\ At(c, "queued") <=> In(c, pending)
                        /\ In(c, completed) => At(c, "done")
                        /\ At(c, "working") => worker.entry = c /\ worker.at \in {"work", "ended"}
  /\ worker.at = "work" => worker.entry \in Clients /\ At(worker.entry, "working")

\* The thread sleeps until the one caller that claimed it has started it.
Started ==
  /\ initialized = 0 => worker.at = "asleep" /\ \A c \in Clients : At(c, "idle")
  /\ \A c \in Clients : At(c, "claimed") =>
       worker.at = "asleep" /\ \A d \in Clients : At(d, "claimed") => c = d

\* stop() frees the list when the thread has ended, or will not look at it.
Stopped ==
  /\ stopFlag = 0 <=> stopper = "none"
  /\ stopFlag = 1 => \A c \in Clients : /\ Kind(c) \in {"name", "none"}
                                        /\ ~At(c, "claimed") /\ ~At(c, "push")
  /\ stopper = "free" => worker.at \in {"asleep", "ended"}
  /\ stopper = "killed" => worker.at \in {"work", "wait", "ended"}
  /\ stopper = "freed" => worker.at \in {"asleep", "work", "wait", "ended"}

\* Entries are allocated by push() and deleted by the thread, or by stop().
Held ==
  /\ stopper # "freed" => entries = {c \in Clients : At(c, "queued") \/ At(c, "working")}
  /\ worker.at = "work" => worker.entry \in entries

FileInv == Shape /\ Pointers /\ Stations /\ Started /\ Stopped /\ Held

-----------------------------------------------------------------------------
(* Sequences *)

\* A longer list.
LEMMA Appended ==
  ASSUME NEW T, NEW s \in Seq(T), NEW x \in T
  PROVE  /\ Append(s, x) \in Seq(T) /\ Append(s, x) # <<>>
         /\ Len(s) \in Nat /\ Len(Append(s, x)) = Len(s) + 1
         /\ Append(s, x)[Len(s) + 1] = x
         /\ \A i \in 1..Len(s) : Append(s, x)[i] = s[i]
OBVIOUS

\* A list without its first element.
LEMMA Taken ==
  ASSUME NEW T, NEW s \in Seq(T), s # <<>>
  PROVE  /\ Tail(s) \in Seq(T) /\ Head(s) = s[1] /\ s[1] \in T
         /\ Len(s) \in Nat \ {0} /\ Len(Tail(s)) = Len(s) - 1
         /\ \A i \in 1..Len(s) - 1 : Tail(s)[i] = s[i + 1]
         /\ \A i \in 1..Len(s) : s[i] \in T
OBVIOUS

\* The elements of a list are in its range.
LEMMA Listed ==
  ASSUME NEW T, NEW s \in Seq(T)
  PROVE  /\ Len(s) \in Nat /\ (s = <<>> <=> Len(s) = 0)
         /\ \A i \in 1..Len(s) : s[i] \in T
OBVIOUS

-----------------------------------------------------------------------------
(* What the actions do to the states of the operations *)

Moved(c, place) ==
  /\ DOMAIN op' = Clients /\ \A d \in Clients : "at" \in DOMAIN op'[d]
  /\ \A d \in Clients : op'[d].at = IF d = c THEN place ELSE op[d].at

\* A round begins at the list, or with the start of the thread.
LEMMA BeginMoves ==
  ASSUME Shape, NEW c \in Clients, NEW o, "at" \in DOMAIN o, BeginRound(c, o)
  PROVE  /\ Moved(c, IF initialized = 0 THEN "claimed" ELSE "push")
         /\ initialized' = 1
BY DEF BeginRound, Shape, Moved

\* So does a call.
LEMMA CallMoves ==
  ASSUME Shape, NEW c \in Clients, Call(c)
  PROVE  /\ Moved(c, IF initialized = 0 THEN "claimed" ELSE "push")
         /\ initialized' = 1
<1>1. PICK start : BeginRound(c, [IdleOp EXCEPT !.remain = program.room, !.from = start])
  BY DEF Call
<1>2. "at" \in DOMAIN [IdleOp EXCEPT !.remain = program.room, !.from = start]
  BY DEF IdleOp
<1> QED
  BY <1>1, <1>2, BeginMoves

\* A completed operation is called back, or begins another round.
LEMMA OnCompleteMoves ==
  ASSUME FileInv, OnComplete
  PROVE  /\ completed # <<>> /\ completed[1] \in Clients /\ At(completed[1], "done")
         /\ initialized = 1 /\ initialized' = 1 /\ completed' = Tail(completed)
         /\ \/ Moved(completed[1], "idle")
            \/ Moved(completed[1], "push") /\ Kind(completed[1]) \notin {"name", "none"}
<1> DEFINE c == Head(completed)
<1>1. completed # <<>> /\ completed' = Tail(completed)
  BY DEF OnComplete
<1>2. c = completed[1] /\ c \in Clients /\ Len(completed) \in Nat \ {0}
  BY <1>1, Taken DEF FileInv, Shape
<1>3. At(c, "done")
  BY <1>2 DEF FileInv, Stations, In
<1>4. initialized = 1
  BY <1>2, <1>3 DEF FileInv, Started, Shape, At
<1>5. \/ \E ec, len : CallBack(c, ec, len)
      \/ Kind(c) \notin {"name", "none"} /\ \E n : Again(c, n)
  <2>1. CASE Kind(c) = "line" /\ CompleteLine(c)
    <3>1. CASE Ended(c)
      BY <2>1, <3>1 DEF CompleteLine
    <3>2. CASE ~Ended(c)
      <4>1. PICK found \in {FindEol(SubSeq(program.text, pos[c] - op[c].count + 1, pos[c]),
                                    program.eol)} :
              LET n == IF found.at < op[c].count THEN found.at + Len(program.eol)
                       ELSE op[c].count - found.partial IN
              IF found.at < n
              THEN CallBack(c, "ok", op[c].got + n - (IF program.incEol THEN 0
                                                      ELSE Len(program.eol)))
              ELSE IF op[c].remain = n \/ n # Chunk THEN CallBack(c, "eof", op[c].got + n)
              ELSE Again(c, n)
        BY <2>1, <3>2 DEF CompleteLine
      <4> QED
        BY <2>1, <4>1
    <3> QED
      BY <3>1, <3>2
  <2>2. CASE Kind(c) = "read" /\ CompleteRead(c)
    BY <2>2 DEF CompleteRead
  <2>3. CASE Kind(c) = "write" /\ CompleteWrite(c)
    BY <2>3 DEF CompleteWrite
  <2>4. CASE Kind(c) = "name" /\ CompleteName(c)
    BY <2>4 DEF CompleteName
  <2> QED
    BY <2>1, <2>2, <2>3, <2>4 DEF OnComplete
<1>6. ASSUME NEW ec, NEW len, CallBack(c, ec, len)
      PROVE  Moved(c, "idle") /\ initialized' = 1
  BY <1>2, <1>4, <1>6 DEF CallBack, IdleOp, Moved, FileInv, Shape
<1>7. ASSUME NEW n, Again(c, n) PROVE Moved(c, "push") /\ initialized' = 1
  <2>1. "at" \in DOMAIN [op[c] EXCEPT !.got = @ + n, !.remain = @ - n]
    BY <1>2 DEF FileInv, Shape
  <2>2. BeginRound(c, [op[c] EXCEPT !.got = @ + n, !.remain = @ - n])
    BY <1>7 DEF Again
  <2>3. Moved(c, IF initialized = 0 THEN "claimed" ELSE "push") /\ initialized' = 1
    <3> HIDE DEF c
    <3> QED
      BY <1>2, <2>1, <2>2, BeginMoves, Zenon DEF FileInv
  <2> QED
    BY <1>4, <2>3
<1> QED
  BY <1>1, <1>2, <1>3, <1>4, <1>5, <1>6, <1>7

-----------------------------------------------------------------------------
(* The invariant is inductive *)

\* The invariant holds at first.
LEMMA FileInit == ASSUME Init PROVE FileInv
<1>1. Shape
  BY ProgramsAssumption DEF Init, Shape, IdleOp
<1>2. Pointers
  BY DEF Init, Pointers
<1>3. Stations
  BY DEF Init, Stations, Once, In, At, IdleOp
<1>4. Started /\ Stopped /\ Held
  BY DEF Init, Started, Stopped, Held, At, IdleOp
<1> QED
  BY <1>1, <1>2, <1>3, <1>4 DEF FileInv

\* push() writes behind the last entry, or to the head of an empty list.
LEMMA PushPoints ==
  ASSUME FileInv, NEW c \in Clients, Push(c)
  PROVE  Pointers'
<1>1. /\ pending' = Append(pending, c) /\ tail' = c
      /\ head' = IF head = Nil THEN c ELSE head
      /\ next' = IF tail = Nil THEN [next EXCEPT ![c] = Nil]
                               ELSE [next EXCEPT ![c] = Nil, ![tail] = c]
  BY DEF Push
<1>2. /\ pending \in Seq(Clients) /\ next \in [Clients -> Clients \cup {Nil}]
      /\ Nil \notin Clients /\ Pointers /\ Once(pending)
  BY ClientsAssumption DEF FileInv, Shape, Stations
<1>3. \A i \in 1..Len(pending) : pending[i] \in Clients /\ pending[i] # c
  BY Listed DEF FileInv, Shape, Stations, Push, In, At
<1>4. /\ pending' # <<>> /\ Len(pending) \in Nat /\ Len(pending') = Len(pending) + 1
      /\ pending'[Len(pending) + 1] = c
      /\ \A i \in 1..Len(pending) : pending'[i] = pending[i]
  BY <1>1, <1>2, Appended
<1>5. CASE pending = <<>>
  <2>1. Len(pending) = 0 /\ head = Nil /\ tail = Nil
    BY <1>2, <1>5 DEF Pointers
  <2>2. head' = c /\ tail' = c /\ next'[c] = Nil
    BY <1>1, <1>2, <2>1
  <2> QED
    BY <1>4, <2>1, <2>2 DEF Pointers
<1>6. CASE pending # <<>>
  <2>1. /\ Len(pending) \in 1..Len(pending) /\ head = pending[1]
        /\ tail = pending[Len(pending)]
        /\ \A i \in 1..Len(pending) - 1 : next[pending[i]] = pending[i + 1]
    BY <1>2, <1>6, Listed DEF Pointers
  <2>2. /\ head \in Clients /\ tail \in Clients /\ tail # c
    BY <1>3, <2>1
  <2>3. /\ head' = head /\ next'[c] = Nil /\ next'[tail] = c
        /\ \A d \in Clients \ {c, tail} : next'[d] = next[d]
    BY <1>1, <1>2, <2>2
  <2>4. ASSUME NEW i \in 1..Len(pending') - 1 PROVE next'[pending'[i]] = pending'[i + 1]
    <3>1. CASE i = Len(pending)
      BY <1>4, <2>1, <2>3, <3>1
    <3>2. CASE i # Len(pending)
      <4>1. i \in 1..Len(pending) - 1 /\ i + 1 \in 1..Len(pending)
        BY <1>4, <3>2
      <4>2. pending[i] # tail
        BY <1>2, <2>1, <3>2, <4>1 DEF Once
      <4> QED
        BY <1>3, <1>4, <2>1, <2>3, <4>1, <4>2
    <3> QED
      BY <3>1, <3>2
  <2>5. /\ head' = pending'[1] /\ tail' = pending'[Len(pending')]
        /\ next'[pending'[Len(pending')]] = Nil
    <3>1. 1 \in 1..Len(pending)
      BY <1>4, <2>1
    <3> QED
      BY <1>1, <1>4, <2>1, <2>3, <3>1
  <2> QED
    BY <1>4, <2>4, <2>5 DEF Pointers
<1> QED
  BY <1>5, <1>6

\* The thread takes the first entry; tail_ is reset with the last one.
LEMMA PopPoints ==
  ASSUME FileInv, Pop
  PROVE  Pointers'
<1>1. /\ head' = IF head = Nil THEN Nil ELSE next[head]
      /\ tail' = IF tail = head THEN Nil ELSE tail
      /\ pending' = IF pending = <<>> THEN <<>> ELSE Tail(pending)
      /\ next' = next
  BY DEF Pop, TailAfterPop
<1>2. /\ pending \in Seq(Clients) /\ Nil \notin Clients /\ Pointers /\ Once(pending)
  BY ClientsAssumption DEF FileInv, Shape, Stations
<1>3. CASE pending = <<>>
  BY <1>1, <1>2, <1>3, Listed DEF Pointers
<1>4. CASE pending # <<>>
  <2>1. /\ pending' = Tail(pending) /\ Len(pending) \in Nat \ {0}
        /\ Len(pending') = Len(pending) - 1 /\ pending' \in Seq(Clients)
        /\ \A i \in 1..Len(pending) - 1 : pending'[i] = pending[i + 1]
        /\ \A i \in 1..Len(pending) : pending[i] \in Clients
    BY <1>1, <1>2, <1>4, Taken
  <2>2. /\ head = pending[1] /\ tail = pending[Len(pending)]
        /\ next[pending[Len(pending)]] = Nil
        /\ \A i \in 1..Len(pending) - 1 : next[pending[i]] = pending[i + 1]
    BY <1>2, <1>4 DEF Pointers
  <2>3. head # Nil
    BY <1>2, <2>1, <2>2
  <2>4. CASE Len(pending) = 1
    <3>1. head' = Nil /\ tail' = Nil /\ pending' = <<>>
      BY <1>1, <2>1, <2>2, <2>3, <2>4, Listed
    <3>2. 1..Len(pending') - 1 = {}
      BY <2>1, <2>4
    <3> QED
      BY <3>1, <3>2 DEF Pointers
  <2>5. CASE Len(pending) # 1
    <3>1. tail # head
      BY <1>2, <2>1, <2>2, <2>5 DEF Once
    <3>2. head' = pending[2] /\ tail' = tail
      BY <1>1, <2>1, <2>2, <2>3, <2>5, <3>1
    <3>3. /\ pending'[1] = pending[2] /\ pending'[Len(pending')] = pending[Len(pending)]
          /\ pending' # <<>>
      BY <2>1, <2>5, Listed
    <3>4. \A i \in 1..Len(pending') - 1 : next[pending'[i]] = pending'[i + 1]
      BY <2>1, <2>2
    <3> QED
      BY <1>1, <2>2, <3>2, <3>3, <3>4 DEF Pointers
  <2> QED
    BY <2>4, <2>5
<1> QED
  BY <1>3, <1>4

\* An action that leaves the list alone leaves its pointers alone.
LEMMA PointsStay == ASSUME Pointers, UNCHANGED <<head, tail, next, pending>> PROVE Pointers'
BY DEF Pointers

\* An operation is in no list when its state is that of a caller's.
LEMMA NotListed ==
  ASSUME FileInv, NEW c \in Clients, ~At(c, "queued"), ~At(c, "done")
  PROVE  ~In(c, pending) /\ ~In(c, completed)
BY DEF FileInv, Stations

\* The lists keep their operations' states while another operation moves.
LEMMA StationsFrame ==
  ASSUME FileInv, NEW c \in Clients, NEW place, Moved(c, place),
         place \notin {"queued", "working", "done"},
         ~At(c, "queued"), ~At(c, "working"),
         UNCHANGED <<pending, worker>>,
         \/ completed' = completed /\ ~At(c, "done")
         \/ completed # <<>> /\ c = completed[1] /\ completed' = Tail(completed)
  PROVE  Stations'
<1>1. /\ Once(completed') /\ \A d \in Clients : In(d, completed') => In(d, completed) /\ d # c
  <2>1. CASE completed' = completed /\ ~At(c, "done")
    BY <2>1 DEF FileInv, Stations
  <2>2. CASE completed # <<>> /\ c = completed[1] /\ completed' = Tail(completed)
    <3>1. /\ Len(completed) \in Nat \ {0} /\ Len(completed') = Len(completed) - 1
          /\ \A i \in 1..Len(completed) - 1 : completed'[i] = completed[i + 1]
          /\ Once(completed)
      BY <2>2, Taken DEF FileInv, Shape, Stations
    <3>2. ASSUME NEW i \in 1..Len(completed')
          PROVE  /\ i + 1 \in 1..Len(completed) /\ completed'[i] = completed[i + 1]
                 /\ completed'[i] # c
      <4>1. /\ i \in 1..Len(completed) - 1 /\ i + 1 \in 1..Len(completed)
            /\ 1 \in 1..Len(completed) /\ i + 1 # 1
        BY <3>1
      <4>2. completed'[i] = completed[i + 1]
        BY <3>1, <4>1
      <4> QED
        BY <2>2, <3>1, <4>1, <4>2, Zenon DEF Once
    <3>3. ASSUME NEW i \in 1..Len(completed'), NEW j \in 1..Len(completed'),
                 completed'[i] = completed'[j]
          PROVE  i = j
      <4>1. i + 1 = j + 1
        BY <3>1, <3>2, <3>3 DEF Once
      <4> QED
        BY <4>1
    <3> QED
      BY <3>2, <3>3 DEF Once, In
  <2> QED
    BY <2>1, <2>2
<1>2. ASSUME NEW d \in Clients
      PROVE  /\ At(d, "queued")' <=> At(d, "queued")
             /\ At(d, "working")' <=> At(d, "working")
             /\ d # c => (At(d, "done")' <=> At(d, "done"))
  BY DEF Moved, At
<1>3. \A d \in Clients : In(d, pending)' <=> In(d, pending)
  BY DEF In
<1> QED
  BY <1>1, <1>2, <1>3 DEF FileInv, Stations, Once, In

\* The actions of the callers, of the thread and of the service, one by one.
LEMMA CallStep ==
  ASSUME FileInv, NEW c \in Clients, Call(c)
  PROVE  FileInv'
<1>1. /\ Moved(c, IF initialized = 0 THEN "claimed" ELSE "push") /\ initialized' = 1
      /\ At(c, "idle") /\ stopFlag = 0
      /\ UNCHANGED <<listVars, worker, completed, stopVars>>
  BY CallMoves DEF FileInv, Call
<1>2. Shape'
  BY <1>1 DEF FileInv, Shape, Moved, listVars, stopVars
<1>3. Pointers'
  BY <1>1, PointsStay DEF FileInv, listVars
<1>4. Stations'
  BY <1>1, StationsFrame DEF At, listVars
<1>5. Started'
  BY <1>1 DEF FileInv, Started, Shape, Moved, At
<1>6. Stopped'
  BY <1>1 DEF FileInv, Stopped, stopVars
<1>7. Held'
  BY <1>1 DEF FileInv, Held, Moved, At, listVars, stopVars
<1> QED
  BY <1>2, <1>3, <1>4, <1>5, <1>6, <1>7 DEF FileInv

LEMMA StartThreadStep ==
  ASSUME FileInv, NEW c \in Clients, StartThread(c)
  PROVE  FileInv'
<1>1. /\ Moved(c, "push") /\ At(c, "claimed") /\ worker.at = "asleep"
      /\ worker' = [worker EXCEPT !.at = "wait"]
      /\ UNCHANGED <<program, listVars, completed, initialized, stopVars>>
  BY DEF FileInv, Started, StartThread, Moved, Shape
<1>2. Shape'
  BY <1>1 DEF FileInv, Shape, Moved, listVars, stopVars
<1>3. Pointers'
  BY <1>1, PointsStay DEF FileInv, listVars
<1>4. Stations'
  <2>1. \A d \in Clients : ~At(d, "working") /\ ~At(d, "working")'
    BY <1>1 DEF FileInv, Stations, Moved, At
  <2>2. \A d \in Clients : /\ At(d, "queued")' <=> At(d, "queued")
                           /\ At(d, "done")' <=> At(d, "done")
    BY <1>1 DEF Moved, At
  <2>3. worker'.at # "work"
    BY <1>1 DEF FileInv, Shape
  <2>4. \A d \in Clients : (In(d, pending)' <=> In(d, pending))
                           /\ (In(d, completed)' <=> In(d, completed))
    BY <1>1 DEF In, listVars
  <2>5. Once(pending)' /\ Once(completed)'
    BY <1>1 DEF FileInv, Stations, Once, listVars
  <2> QED
    BY <2>1, <2>2, <2>3, <2>4, <2>5 DEF FileInv, Stations
<1>5. Started'
  <2>1. initialized' = 1
    BY <1>1 DEF FileInv, Started, Shape, At
  <2>2. \A d \in Clients : ~At(d, "claimed")'
    BY <1>1 DEF FileInv, Started, Moved, At
  <2> QED
    BY <2>1, <2>2 DEF Started
<1>6. Stopped'
  <2>1. stopFlag = 0
    BY <1>1 DEF FileInv, Stopped, Shape
  <2> QED
    BY <1>1, <2>1 DEF FileInv, Stopped, stopVars
<1>7. Held'
  BY <1>1 DEF FileInv, Held, Moved, At, listVars, stopVars, Shape
<1> QED
  BY <1>2, <1>3, <1>4, <1>5, <1>6, <1>7 DEF FileInv

LEMMA PushStep ==
  ASSUME FileInv, NEW c \in Clients, Push(c)
  PROVE  FileInv'
<1>1. /\ Moved(c, "queued") /\ At(c, "push") /\ stopFlag = 0 /\ initialized = 1
      /\ pending' = Append(pending, c) /\ entries' = entries \cup {c}
      /\ UNCHANGED <<program, worker, completed, initialized, stopVars>>
  BY DEF FileInv, Started, Stopped, Push, Moved, Shape, At
<1>2. /\ pending \in Seq(Clients) /\ pending' \in Seq(Clients)
      /\ Len(pending) \in Nat /\ Len(pending') = Len(pending) + 1
      /\ pending'[Len(pending) + 1] = c
      /\ \A i \in 1..Len(pending) : pending'[i] = pending[i]
  BY <1>1, Appended DEF FileInv, Shape
<1>3. next' \in [Clients -> Clients \cup {Nil}]
  BY DEF Push, FileInv, Shape
<1>4. Shape'
  BY <1>1, <1>2, <1>3 DEF FileInv, Shape, Moved, stopVars
<1>5. Pointers'
  BY PushPoints
<1>6. Stations'
  <2>1. ~In(c, pending)
    BY <1>1, NotListed DEF At
  <2>2. \A d \in Clients : In(d, pending)' <=> (In(d, pending) \/ d = c)
    BY <1>2 DEF In
  <2>3. Once(pending)'
    BY <1>2, <2>1 DEF FileInv, Stations, Once, In
  <2>4. \A d \in Clients : /\ At(d, "queued")' <=> (At(d, "queued") \/ d = c)
                           /\ At(d, "working")' <=> At(d, "working")
                           /\ At(d, "done")' <=> At(d, "done")
    BY <1>1 DEF Moved, At
  <2>5. Once(completed)' /\ \A d \in Clients : In(d, completed)' <=> In(d, completed)
    BY <1>1 DEF FileInv, Stations, Once, In
  <2> QED
    BY <1>1, <2>2, <2>3, <2>4, <2>5 DEF FileInv, Stations
<1>7. Started'
  BY <1>1 DEF FileInv, Started, Moved, At
<1>8. Stopped'
  BY <1>1 DEF FileInv, Stopped, stopVars
<1>9. Held'
  BY <1>1 DEF FileInv, Held, Moved, At, stopVars
<1> QED
  BY <1>4, <1>5, <1>6, <1>7, <1>8, <1>9 DEF FileInv

LEMMA WaitStep ==
  ASSUME FileInv, Wait
  PROVE  FileInv'
<1>1. /\ worker.at = "wait" /\ worker' = [worker EXCEPT !.at = IF stopFlag = 1 THEN "ended" ELSE "pop"]
      /\ UNCHANGED <<program, op, listVars, completed, initialized, stopVars>>
  BY DEF Wait
<1>2. /\ worker'.at = (IF stopFlag = 1 THEN "ended" ELSE "pop")
      /\ worker'.entry = worker.entry
  BY <1>1 DEF FileInv, Shape
<1>3. Shape'
  BY <1>1 DEF FileInv, Shape, listVars, stopVars
<1>4. Pointers'
  BY <1>1, PointsStay DEF FileInv, listVars
<1>5. Stations'
  BY <1>1, <1>2 DEF FileInv, Stations, Once, In, At, listVars
<1>6. Started'
  BY <1>1, <1>2 DEF FileInv, Started, At
<1>7. Stopped'
  BY <1>1, <1>2 DEF FileInv, Shape, Stopped, At, Kind, stopVars
<1>8. Held'
  BY <1>1, <1>2 DEF FileInv, Held, At, listVars, stopVars
<1> QED
  BY <1>3, <1>4, <1>5, <1>6, <1>7, <1>8 DEF FileInv

LEMMA PopStep ==
  ASSUME FileInv, Pop
  PROVE  FileInv'
<1>1. CASE pending = <<>>
  <2>1. head = Nil
    BY <1>1 DEF FileInv, Pointers
  <2>2. /\ worker.at = "pop" /\ worker' = [worker EXCEPT !.at = "wait"]
        /\ pending' = pending
        /\ UNCHANGED <<program, op, next, entries, completed, initialized, stopVars>>
    BY <1>1, <2>1 DEF Pop
  <2>3. worker'.at = "wait" /\ worker'.entry = worker.entry
    BY <2>2 DEF FileInv, Shape
  <2>4. Shape'
    BY <2>2 DEF FileInv, Shape, stopVars
  <2>5. Stations'
    BY <2>2, <2>3 DEF FileInv, Stations, Once, In, At
  <2>6. Started' /\ Stopped' /\ Held'
    BY <2>2, <2>3 DEF FileInv, Shape, Started, Stopped, Held, At, Kind, stopVars
  <2> QED
    BY <2>4, <2>5, <2>6, PopPoints DEF FileInv
<1>2. CASE pending # <<>>
  <2> DEFINE c == pending[1]
  <2>1. head = c /\ c \in Clients /\ head # Nil
    BY <1>2, Taken, ClientsAssumption DEF FileInv, Shape, Pointers
  <2>2. /\ worker.at = "pop" /\ worker' = [at |-> "work", entry |-> c]
        /\ pending' = Tail(pending)
        /\ Moved(c, "working")
        /\ UNCHANGED <<program, next, entries, completed, initialized, stopVars>>
    BY <1>2, <2>1 DEF Pop, Moved, FileInv, Shape
  <2>3. At(c, "queued")
    <3>1. 1 \in 1..Len(pending)
      BY <1>2, Taken DEF FileInv, Shape
    <3> QED
      BY <2>1, <3>1 DEF FileInv, Stations, In
  <2>4. /\ pending' \in Seq(Clients) /\ Len(pending) \in Nat \ {0}
        /\ Len(pending') = Len(pending) - 1
        /\ \A i \in 1..Len(pending) - 1 : pending'[i] = pending[i + 1]
    BY <1>2, <2>2, Taken DEF FileInv, Shape
  <2>5. Shape'
    BY <2>1, <2>2, <2>4 DEF FileInv, Shape, Moved, stopVars
  <2>6. Stations'
    <3>1. ASSUME NEW i \in 1..Len(pending')
          PROVE  i + 1 \in 1..Len(pending) /\ pending'[i] = pending[i + 1]
      BY <2>4
    <3>2. Once(pending)
      BY DEF FileInv, Stations
    <3>3. Once(pending)'
      <4> SUFFICES ASSUME NEW i \in 1..Len(pending'), NEW j \in 1..Len(pending'),
                          pending'[i] = pending'[j]
                   PROVE  i = j
        BY DEF Once
      <4>1. i + 1 = j + 1
        BY <3>1, <3>2 DEF Once
      <4> QED
        BY <4>1
    <3>4. ASSUME NEW d \in Clients PROVE In(d, pending)' <=> (In(d, pending) /\ d # c)
      <4>1. ASSUME NEW i \in 1..Len(pending'), pending'[i] = d PROVE In(d, pending) /\ d # c
        <5>1. 1 \in 1..Len(pending) /\ i + 1 # 1 /\ i + 1 \in 1..Len(pending)
          BY <2>4, <3>1
        <5> QED
          BY <3>1, <3>2, <4>1, <5>1, Zenon DEF Once, In
      <4>2. ASSUME NEW i \in 1..Len(pending), pending[i] = d, d # c PROVE In(d, pending)'
        <5>1. i - 1 \in 1..Len(pending) - 1 /\ i - 1 \in 1..Len(pending') /\ (i - 1) + 1 = i
          BY <2>4, <4>2
        <5>2. pending'[i - 1] = d
          BY <2>4, <4>2, <5>1
        <5> QED
          BY <5>1, <5>2 DEF In
      <4> QED
        BY <4>1, <4>2 DEF In
    <3>5. \A d \in Clients : ~At(d, "working")
      BY <2>2 DEF FileInv, Stations
    <3>6. \A d \in Clients : /\ At(d, "queued")' <=> (At(d, "queued") /\ d # c)
                             /\ At(d, "working")' <=> d = c
                             /\ At(d, "done")' <=> At(d, "done")
      BY <2>1, <2>2, <2>3, <3>5 DEF Moved, At
    <3>7. Once(completed)' /\ \A d \in Clients : In(d, completed)' <=> In(d, completed)
      BY <2>2 DEF FileInv, Stations, Once, In
    <3>8. worker'.at = "work" /\ worker'.entry = c
      BY <2>2
    <3> QED
      BY <2>1, <3>3, <3>4, <3>6, <3>7, <3>8 DEF FileInv, Stations
  <2>7. initialized = 1 /\ stopper \notin {"free", "killed", "freed"}
    BY <2>2 DEF FileInv, Started, Stopped, Shape
  <2>8. Started'
    BY <2>2, <2>7 DEF FileInv, Started, Moved, At
  <2>9. Stopped'
    BY <2>2, <2>7 DEF FileInv, Stopped, Moved, At, Kind, stopVars
  <2>10. Held'
    BY <2>1, <2>2, <2>3, <2>7 DEF FileInv, Held, Moved, At, stopVars
  <2> QED
    BY <2>5, <2>6, <2>8, <2>9, <2>10, PopPoints DEF FileInv
<1> QED
  BY <1>1, <1>2

LEMMA WorkStep ==
  ASSUME FileInv, Work
  PROVE  FileInv'
<1> DEFINE c == worker.entry
<1>1. /\ c \in Clients /\ At(c, "working") /\ worker.at = "work"
  BY DEF FileInv, Stations, Work
<1>2. /\ Moved(c, "done")
      /\ completed' = Append(completed, c) /\ entries' = entries \ {c}
      /\ worker' = [at |-> "wait", entry |-> Nil]
      /\ UNCHANGED <<program, head, tail, next, pending, initialized, stopVars>>
  <2>1. Moved(c, "done")
    <3>1. PICK n, ec : op' = [op EXCEPT ![c].at = "done", ![c].count = n, ![c].ec = ec]
      BY DEF Work
    <3> QED
      BY <1>1, <3>1 DEF Moved, FileInv, Shape
  <2> QED
    BY <2>1 DEF Work
<1>3. /\ completed \in Seq(Clients) /\ completed' \in Seq(Clients)
      /\ Len(completed) \in Nat /\ Len(completed') = Len(completed) + 1
      /\ completed'[Len(completed) + 1] = c
      /\ \A i \in 1..Len(completed) : completed'[i] = completed[i]
  BY <1>1, <1>2, Appended DEF FileInv, Shape
<1>4. Shape'
  BY <1>2, <1>3 DEF FileInv, Shape, Moved, stopVars
<1>5. Pointers'
  BY <1>2, PointsStay DEF FileInv
<1>6. Stations'
  <2>1. ~In(c, completed)
    BY <1>1, NotListed DEF At
  <2>2. \A d \in Clients : In(d, completed)' <=> (In(d, completed) \/ d = c)
    BY <1>3 DEF In
  <2>3. Once(completed)'
    BY <1>3, <2>1 DEF FileInv, Stations, Once, In
  <2>4. \A d \in Clients : /\ At(d, "queued")' <=> At(d, "queued")
                           /\ ~At(d, "working")'
                           /\ At(d, "done")' <=> (At(d, "done") \/ d = c)
    BY <1>1, <1>2 DEF FileInv, Stations, Moved, At
  <2>5. Once(pending)' /\ \A d \in Clients : In(d, pending)' <=> In(d, pending)
    BY <1>2 DEF FileInv, Stations, Once, In
  <2>6. worker'.at # "work"
    BY <1>2
  <2> QED
    BY <2>2, <2>3, <2>4, <2>5, <2>6 DEF FileInv, Stations
<1>7. initialized = 1 /\ stopper # "free"
  BY <1>1 DEF FileInv, Started, Stopped, Shape
<1>8. Started'
  BY <1>1, <1>2, <1>7 DEF FileInv, Started, Moved, At
<1>9. Stopped'
  BY <1>1, <1>2, <1>7 DEF FileInv, Stopped, Moved, At, Kind, stopVars
<1>10. Held'
  BY <1>1, <1>2 DEF FileInv, Held, Stations, Moved, At, stopVars
<1> QED
  BY <1>4, <1>5, <1>6, <1>8, <1>9, <1>10 DEF FileInv

LEMMA OnCompleteStep ==
  ASSUME FileInv, OnComplete
  PROVE  FileInv'
<1>1. PICK c \in Clients :
        /\ completed # <<>> /\ c = completed[1] /\ completed' = Tail(completed)
        /\ At(c, "done") /\ initialized = 1 /\ initialized' = 1
        /\ Moved(c, "idle") \/ (Moved(c, "push") /\ Kind(c) \notin {"name", "none"})
  BY OnCompleteMoves
<1>2. UNCHANGED <<program, listVars, event, worker, stopVars>>
  BY DEF OnComplete
<1>3. PICK place \in {"idle", "push"} : /\ Moved(c, place)
                                        /\ place = "push" => Kind(c) \notin {"name", "none"}
  BY <1>1
<1>4. completed' \in Seq(Clients)
  BY <1>1, Taken DEF FileInv, Shape
<1>5. Shape'
  BY <1>1, <1>2, <1>3, <1>4 DEF FileInv, Shape, Moved, listVars, stopVars
<1>6. Pointers'
  BY <1>2, PointsStay DEF FileInv, listVars
<1>7. Stations'
  BY <1>1, <1>2, <1>3, StationsFrame DEF At, listVars
<1>8. Started'
  BY <1>1, <1>2, <1>3 DEF FileInv, Started, Moved, At
<1>9. Stopped'
  BY <1>1, <1>2, <1>3 DEF FileInv, Stopped, Moved, At, Kind, stopVars
<1>10. Held'
  BY <1>1, <1>2, <1>3 DEF FileInv, Held, Moved, At, listVars, stopVars
<1> QED
  BY <1>5, <1>6, <1>7, <1>8, <1>9, <1>10 DEF FileInv

\* stop() and the thread it cancels leave the operations where they are.
LEMMA StopStep ==
  ASSUME FileInv, Stop \/ Join \/ Cancelled \/ FreeList
  PROVE  FileInv'
<1>1. UNCHANGED <<program, op, head, tail, next, pending, completed, initialized>>
  BY DEF Stop, Join, Cancelled, FreeList, listVars
<1>2. Pointers'
  BY <1>1, PointsStay DEF FileInv
<1>3. /\ \A c \in Clients : \A place : At(c, place)' <=> At(c, place)
      /\ \A c \in Clients : Kind(c)' = Kind(c)
  BY <1>1 DEF At, Kind
<1>4. CASE Stop \/ Join \/ FreeList
  <2>1. worker' = worker /\ Shape'
    BY <1>1, <1>4 DEF Stop, Join, FreeList, FileInv, Shape, listVars
  <2>2. Stations' /\ Started'
    BY <1>1, <1>3, <2>1 DEF FileInv, Stations, Started, Once, In
  <2>3. Stopped'
    BY <1>1, <1>3, <1>4, <2>1 DEF Stop, Join, JoinEnds, FreeList, FileInv, Shape, Stopped, Kind, At
  <2>4. Held'
    <3>1. CASE Stop \/ Join
      BY <1>3, <2>1, <3>1 DEF Stop, Join, FileInv, Held, Stopped, Shape, listVars
    <3>2. CASE FreeList
      <4>1. /\ entries' = entries \ {pending[i] : i \in DOMAIN pending} /\ stopper' = "freed"
        BY <3>2 DEF FreeList
      <4>2. DOMAIN pending = 1..Len(pending)
        BY DEF FileInv, Shape
      <4>3. worker.at = "work" => worker.entry \in entries /\ ~In(worker.entry, pending)
        BY DEF FileInv, Held, Stations, At
      <4> QED
        BY <2>1, <4>1, <4>2, <4>3 DEF Held, In
    <3> QED
      BY <1>4, <3>1, <3>2
  <2> QED
    BY <1>2, <2>1, <2>2, <2>3, <2>4 DEF FileInv
<1>5. CASE Cancelled
  <2>1. /\ worker'.at = "ended" /\ worker'.entry = worker.entry /\ worker.at \in {"work", "wait"}
        /\ stopper \in {"killed", "freed"} /\ Shape'
        /\ UNCHANGED <<entries, stopFlag, stopper>>
    BY <1>5 DEF Cancelled, FileInv, Shape, listVars, stopVars
  <2>2. Stations' /\ Started'
    BY <1>1, <1>3, <2>1 DEF FileInv, Stations, Started, Once, In
  <2>3. Stopped' /\ Held'
    BY <1>1, <1>3, <2>1 DEF FileInv, Stopped, Held
  <2> QED
    BY <1>2, <2>1, <2>2, <2>3 DEF FileInv
<1> QED
  BY <1>4, <1>5

\* Nothing else changes the state.
LEMMA FileStutter == ASSUME FileInv, UNCHANGED vars PROVE FileInv'
<1>1. Shape' /\ Pointers'
  BY DEF vars, listVars, stopVars, FileInv, Shape, Pointers
<1>2. Stations' /\ Started' /\ Stopped' /\ Held'
  BY DEF vars, listVars, stopVars, FileInv, Stations, Started, Stopped, Held, Once, In, At, Kind
<1> QED
  BY <1>1, <1>2 DEF FileInv

\* Every step of clients, thread, service and stop() keeps the invariant.
LEMMA FileStep == FileInv /\ [Next]_vars => FileInv'
<1> SUFFICES ASSUME FileInv, [Next]_vars PROVE FileInv'
  OBVIOUS
<1>1. CASE \E c \in Clients : Call(c) \/ ClientStep(c)
  BY <1>1, CallStep, StartThreadStep, PushStep DEF ClientStep
<1>2. CASE WorkerStep
  BY <1>2, WaitStep, PopStep, WorkStep DEF WorkerStep
<1>3. CASE OnComplete
  BY <1>3, OnCompleteStep
<1>4. CASE Stop \/ Join \/ Cancelled \/ FreeList
  BY <1>4, StopStep
<1>5. CASE UNCHANGED vars
  BY <1>5, FileStutter
<1> QED
  BY <1>1, <1>2, <1>3, <1>4, <1>5 DEF Next

\* The invariant holds in every state.
LEMMA FileInvariant == Spec => []FileInv
<1> QED
  BY FileInit, FileStep, PTL DEF Spec

-----------------------------------------------------------------------------
(* The walk along the pointers *)

\* A set of natural numbers has a least one: induction over the walk.
LEMMA LeastElement ==
  ASSUME NEW D, D \subseteq Nat, D # {}
  PROVE  \E x \in D : \A y \in D : x =< y
<1> DEFINE Below == {pair \in Nat \X Nat : pair[1] < pair[2]}
<1>1. IsWellFoundedOn(Below, Nat)
  BY NatLessThanWellFounded DEF OpToRel
<1>2. \E x \in D : \A y \in D : <<y, x>> \notin Below
  <2> HIDE DEF Below
  <2> QED
    BY <1>1, WFMin
<1>3. \A x, y \in D : <<y, x>> \notin Below => x =< y
  OBVIOUS
<1> QED
  BY <1>2, <1>3

Follow(w) == IF w[1] = Nil THEN w ELSE <<next[w[1]], Append(w[2], w[1])>>
Walks(walk) == walk = [k \in 0..Cardinality(Clients) |->
                         IF k = 0 THEN <<head, <<>>>> ELSE Follow(walk[k - 1])]
Walk == CHOOSE walk : Walks(walk)

\* What the list contains is where the walk ends after enough steps.
LEMMA LinkedIsWalked == Linked = Walk[Cardinality(Clients)][2]
BY DEF Linked, Walk, Walks, Follow

\* Only one function is a walk.
LEMMA OneWalk ==
  ASSUME IsFiniteSet(Clients), NEW f, NEW g, Walks(f), Walks(g)
  PROVE  f = g
<1> DEFINE N == Cardinality(Clients)
           D == {k \in 0..N : f[k] # g[k]}
<1>1. N \in Nat
  BY FS_CardinalityType
<1>2. ASSUME D # {} PROVE FALSE
  <2>1. PICK k \in D : \A j \in D : k =< j
    <3>1. D \subseteq Nat
      BY <1>1
    <3> QED
      BY <1>2, <3>1, LeastElement
  <2>2. k \in 0..N /\ f[k] # g[k]
    BY <2>1
  <2>3. f[0] = g[0]
    BY <1>1 DEF Walks
  <2>4. k # 0 /\ k - 1 \in 0..N
    BY <1>1, <2>2, <2>3
  <2>5. f[k - 1] = g[k - 1]
    BY <1>1, <2>1, <2>2, <2>4
  <2>6. f[k] = Follow(f[k - 1]) /\ g[k] = Follow(g[k - 1])
    BY <2>2, <2>4 DEF Walks
  <2> QED
    BY <2>2, <2>5, <2>6
<1>3. f = [k \in 0..N |-> f[k]] /\ g = [k \in 0..N |-> g[k]]
  BY DEF Walks
<1> QED
  BY <1>2, <1>3

First(m) == [i \in 1..m |-> pending[i]]

\* The first entries of the list, and one more.
LEMMA OneMore ==
  ASSUME pending \in Seq(Clients), NEW m \in 1..Len(pending)
  PROVE  Append(First(m - 1), pending[m]) = First(m)
<1>1. First(m - 1) \in Seq(Clients) /\ Len(First(m - 1)) = m - 1
  BY Listed DEF First
<1>2. First(m) \in Seq(Clients) /\ Len(First(m)) = m
  BY Listed DEF First
<1>3. pending[m] \in Clients
  BY Listed
<1>4. /\ Append(First(m - 1), pending[m]) \in Seq(Clients)
      /\ Len(Append(First(m - 1), pending[m])) = m
  BY <1>1, <1>3, Appended
<1>5. ASSUME NEW i \in 1..m PROVE Append(First(m - 1), pending[m])[i] = First(m)[i]
  <2>1. CASE i = m
    BY <1>1, <1>3, <2>1, Appended DEF First
  <2>2. CASE i # m
    <3>1. i \in 1..m - 1
      BY <2>2
    <3>2. Append(First(m - 1), pending[m])[i] = First(m - 1)[i]
      BY <1>1, <1>3, <3>1, Appended
    <3> QED
      BY <3>1, <3>2 DEF First
  <2> QED
    BY <2>1, <2>2
<1> QED
  BY <1>2, <1>4, <1>5

\* Step k of the walk stands behind the first k entries.
LEMMA WalkPlaces ==
  ASSUME FileInv
  PROVE  LET n == Len(pending) IN
         Walks([k \in 0..Cardinality(Clients) |->
                  <<IF k < n THEN pending[k + 1] ELSE Nil, First(IF k < n THEN k ELSE n)>>])
<1> DEFINE n == Len(pending)
           N == Cardinality(Clients)
           g == [k \in 0..N |-> <<IF k < n THEN pending[k + 1] ELSE Nil,
                                  First(IF k < n THEN k ELSE n)>>]
<1>1. /\ pending \in Seq(Clients) /\ n \in Nat /\ N \in Nat /\ Nil \notin Clients
      /\ \A i \in 1..n : pending[i] \in Clients
      /\ pending = <<>> <=> n = 0
  BY ClientsAssumption, FS_CardinalityType, Listed DEF FileInv, Shape
<1>2. /\ n = 0 => head = Nil
      /\ n # 0 => head = pending[1] /\ next[pending[n]] = Nil
      /\ \A i \in 1..n - 1 : next[pending[i]] = pending[i + 1]
  BY <1>1 DEF FileInv, Pointers
<1>3. g[0] = <<head, <<>>>>
  <2>1. First(0) = <<>>
    BY DEF First
  <2>2. CASE n = 0
    BY <1>1, <1>2, <2>1, <2>2
  <2>3. CASE n # 0
    BY <1>1, <1>2, <2>1, <2>3
  <2> QED
    BY <2>2, <2>3
<1>4. ASSUME NEW k \in 1..N PROVE g[k] = Follow(g[k - 1])
  <2>1. k \in 0..N /\ k - 1 \in 0..N /\ k - 1 >= 0 /\ (k - 1) + 1 = k
    BY <1>1
  <2>2. CASE k =< n
    <3>1. g[k - 1] = <<pending[k], First(k - 1)>>
      BY <1>1, <2>1, <2>2
    <3>2. g[k] = <<next[pending[k]], First(k)>>
      <4>1. CASE k = n
        BY <1>1, <1>2, <2>1, <4>1
      <4>2. CASE k < n
        BY <1>1, <1>2, <2>1, <4>2
      <4> QED
        BY <1>1, <2>2, <4>1, <4>2
    <3>3. pending[k] # Nil /\ Append(First(k - 1), pending[k]) = First(k)
      BY <1>1, <2>2, OneMore
    <3> HIDE DEF g
    <3> QED
      BY <3>1, <3>2, <3>3 DEF Follow
  <2>3. CASE k > n
    <3>1. g[k - 1] = <<Nil, First(n)>> /\ g[k] = <<Nil, First(n)>>
      BY <1>1, <2>1, <2>3
    <3> HIDE DEF g
    <3> QED
      BY <3>1 DEF Follow
  <2> QED
    BY <1>1, <2>2, <2>3
<1>5. ASSUME NEW k \in 0..N
      PROVE  g[k] = IF k = 0 THEN <<head, <<>>>> ELSE Follow(g[k - 1])
  <2> HIDE DEF g
  <2> QED
    BY <1>1, <1>3, <1>4
<1>6. g = [k \in 0..N |-> g[k]]
  OBVIOUS
<1>7. Walks(g)
  <2> HIDE DEF g
  <2> QED
    BY <1>5, <1>6 DEF Walks
<1> QED
  BY <1>7

\* The walk is long enough: no entry is on the list twice.
LEMMA ListFits == ASSUME FileInv PROVE Len(pending) =< Cardinality(Clients)
<1>1. /\ IsFiniteSet(Clients) /\ pending \in Seq(Clients) /\ Len(pending) \in Nat
      /\ \A i \in 1..Len(pending) : pending[i] \in Clients
  BY ClientsAssumption, Listed DEF FileInv, Shape
<1>2. pending \in [1..Len(pending) -> Clients]
  BY <1>1
<1>3. pending \in Injection(1..Len(pending), Clients)
  BY <1>2 DEF FileInv, Stations, Once, Injection, IsInjective
<1>4. Cardinality(1..Len(pending)) =< Cardinality(Clients)
  BY <1>1, <1>3, FS_Injection
<1>5. Cardinality(1..Len(pending)) = Len(pending)
  <2>1. PICK n \in Nat : n = Len(pending)
    BY <1>1
  <2>2. Cardinality(1..n) = IF 1 > n THEN 0 ELSE n - 1 + 1
    <3>1. 1 \in Int /\ n \in Int
      BY <2>1
    <3> QED
      BY <3>1, FS_Interval, Zenon
  <2> QED
    BY <2>1, <2>2
<1> QED
  BY <1>4, <1>5

\* By the pointers, that is the order of the pushes.
LEMMA LinkedIsPending == ASSUME FileInv PROVE Linked = pending
<1> DEFINE n == Len(pending)
           N == Cardinality(Clients)
           g == [k \in 0..N |-> <<IF k < n THEN pending[k + 1] ELSE Nil,
                                  First(IF k < n THEN k ELSE n)>>]
<1>1. Walks(g)
  BY WalkPlaces
<1>2. Walks(Walk)
  BY <1>1 DEF Walk
<1>3. Walk = g
  <2> HIDE DEF g
  <2> QED
    BY <1>1, <1>2, OneWalk, ClientsAssumption
<1>4. n \in Nat /\ N \in Nat /\ n =< N /\ pending = First(n)
  BY ListFits, FS_CardinalityType, ClientsAssumption DEF FileInv, Shape, First
<1>5. g[N][2] = First(n)
  BY <1>4
<1> QED
  BY <1>3, <1>4, <1>5, LinkedIsWalked

\* And this is the property.
LEMMA InvList == FileInv => ListIsQueue
<1> SUFFICES ASSUME FileInv PROVE ListIsQueue
  OBVIOUS
<1>1. Linked = pending
  BY LinkedIsPending
<1>2. stopper # "freed" => entries = {c \in Clients : op[c].at \in {"queued", "working"}}
  BY DEF FileInv, Held, At
<1>3. worker.at = "pop" /\ head # Nil => head \in entries
  <2> SUFFICES ASSUME worker.at = "pop", head # Nil PROVE head \in entries
    OBVIOUS
  <2>1. pending # <<>> /\ head = pending[1]
    BY DEF FileInv, Pointers
  <2>2. 1 \in 1..Len(pending) /\ head \in Clients
    BY <2>1, Taken DEF FileInv, Shape
  <2>3. At(head, "queued")
    BY <2>1, <2>2 DEF FileInv, Stations, In
  <2>4. stopper # "freed"
    BY DEF FileInv, Stopped
  <2> QED
    BY <2>2, <2>3, <2>4 DEF FileInv, Held
<1> QED
  BY <1>1, <1>2, <1>3 DEF ListIsQueue, FileInv, Held

\* The list of push() and of the thread (src/epoll_file.cpp, src/iocp_resolver.cpp)
\* is the queue of the calls, however callers and thread interleave, and no
\* entry is used after the thread or stop() has deleted it.
THEOREM ListIsQueueCorrect == Spec => []ListIsQueue
<1> QED
  BY FileInvariant, InvList, PTL

-----------------------------------------------------------------------------
(* Loops *)

\* f[k] is what F makes of x in k rounds.
Iterates(f, F, S, x, N) ==
  f \in [0..N -> S] /\ f[0] = x /\ \A k \in 1..N : f[k] = F[f[k - 1]]

\* A function on a set can be applied again and again, any number of times.
LEMMA Iterated ==
  ASSUME NEW S, NEW F, \A y \in S : F[y] \in S, NEW x, x \in S, NEW N, N \in Nat
  PROVE  \E f : Iterates(f, F, S, x, N)
<1> USE DEF Iterates
<1> DEFINE Good(n) == \E f : Iterates(f, F, S, x, n)
           D == {n \in Nat : ~Good(n)}
<1>1. ASSUME D # {} PROVE FALSE
  <2>1. PICK n \in D : \A j \in D : n =< j
    <3>1. D \subseteq Nat
      OBVIOUS
    <3> HIDE DEF D
    <3> QED
      BY <1>1, <3>1, LeastElement
  <2>2. Good(0)
    <3>1. [k \in 0..0 |-> x] \in [0..0 -> S] /\ [k \in 0..0 |-> x][0] = x /\ 1..0 = {}
      OBVIOUS
    <3> QED
      BY <3>1
  <2>3. n # 0 /\ n - 1 \in Nat /\ n \in Nat
    <3> HIDE DEF Good
    <3> QED
      BY <2>1, <2>2
  <2>4. Good(n - 1)
    <3> HIDE DEF Good
    <3> QED
      BY <2>1, <2>3
  <2>5. PICK f : /\ f \in [0..n - 1 -> S] /\ f[0] = x
                 /\ \A k \in 1..n - 1 : f[k] = F[f[k - 1]]
    BY <2>4
  <2> DEFINE g == [k \in 0..n |-> IF k = n THEN F[f[n - 1]] ELSE f[k]]
  <2>6. g \in [0..n -> S] /\ g[0] = x
    BY <2>3, <2>5
  <2>7. ASSUME NEW k \in 1..n PROVE g[k] = F[g[k - 1]]
    <3>1. g[k - 1] = f[k - 1]
      BY <2>3
    <3>2. CASE k = n
      BY <2>3, <3>1, <3>2
    <3>3. CASE k # n
      BY <2>3, <2>5, <3>1, <3>3
    <3> QED
      BY <3>2, <3>3
  <2>8. Good(n)
    <3> HIDE DEF g
    <3> QED
      BY <2>6, <2>7
  <2> HIDE DEF Good
  <2> QED
    BY <2>1, <2>8
<1> QED
  BY <1>1

\* Rounds of a loop with invariant S, which gets on until it halts.
IsLoop(g, F, S, Halted, gone, N) ==
  /\ N \in Nat /\ g[0] \in S
  /\ \A k \in 1..N : g[k - 1] \in S => g[k] = F[g[k - 1]]
  /\ \A r \in S : /\ F[r] \in S /\ gone[r] \in Int
                  /\ r \in Halted => F[r] = r
                  /\ r \notin Halted => (F[r] \in Halted \/ gone[F[r]] > gone[r])

\* Such a loop has halted, or has got on in every round.
LEMMA LoopGetsOn ==
  ASSUME NEW g, NEW F, NEW S, NEW Halted, NEW gone, NEW N, IsLoop(g, F, S, Halted, gone, N)
  PROVE  g[N] \in S /\ (g[N] \in Halted \/ gone[g[N]] >= gone[g[0]] + N)
<1> USE DEF IsLoop
<1> DEFINE Holds(k) == g[k] \in S /\ (g[k] \in Halted \/ gone[g[k]] >= gone[g[0]] + k)
           D == {k \in 0..N : ~Holds(k)}
<1>1. ASSUME D # {} PROVE FALSE
  <2>1. PICK k \in D : \A j \in D : k =< j
    <3>1. D \subseteq Nat
      OBVIOUS
    <3> HIDE DEF D
    <3> QED
      BY <1>1, <3>1, LeastElement
  <2> HIDE DEF D
  <2>2. Holds(0)
    OBVIOUS
  <2>3. k \in 1..N /\ k - 1 \in 0..N /\ k \in Int /\ ~Holds(k)
    <3> HIDE DEF Holds
    <3> QED
      BY <2>1, <2>2 DEF D
  <2>4. Holds(k - 1)
    <3> HIDE DEF Holds
    <3> QED
      BY <2>1, <2>3 DEF D
  <2> DEFINE before == g[k - 1]
             after == g[k]
  <2>5. before \in S /\ after = F[before] /\ after \in S
    BY <2>3, <2>4
  <2>6. before \in Halted \/ gone[before] >= gone[g[0]] + (k - 1)
    BY <2>4
  <2>7. gone[before] \in Int /\ gone[after] \in Int /\ gone[g[0]] \in Int
    BY <2>5
  <2>8. ~(after \in Halted \/ gone[after] >= gone[g[0]] + k)
    BY <2>3, <2>5
  <2> HIDE DEF before, after
  <2>9. CASE before \in Halted
    BY <2>5, <2>8, <2>9
  <2>10. CASE before \notin Halted
    <3>1. gone[after] > gone[before] /\ gone[before] >= gone[g[0]] + (k - 1)
      BY <2>5, <2>6, <2>8, <2>10
    <3> QED
      BY <2>3, <2>7, <2>8, <3>1
  <2> QED
    BY <2>9, <2>10
<1> HIDE DEF Holds
<1>2. Holds(N)
  BY <1>1
<1> QED
  BY <1>2 DEF Holds

-----------------------------------------------------------------------------
(* The table of the line end *)

\* The first b bytes of a word end its first p, and are fewer.
Border(word, p, b) == b \in 0..p - 1 /\ \A i \in 1..b : word[i] = word[p - b + i]
LongestBorder(word, p, b) == Border(word, p, b) /\ \A a \in b + 1..p - 1 : ~Border(word, p, a)

\* What the loop of build_kmp_table() keeps: the entries before pos are right,
\* and what is longer than cnd does not grow to a border of pos.
Building(word) ==
  {r \in [pos : 2..Len(word) + 1, cnd : Nat, T : [0..Len(word) - 1 -> -1..Len(word)]] :
     /\ r.T[0] = -1 /\ Border(word, r.pos - 1, r.cnd)
     /\ \A p \in 1..r.pos - 1 : LongestBorder(word, p, r.T[p])
     /\ \A b \in r.cnd + 1..r.pos - 2 : Border(word, r.pos - 1, b) => word[b + 1] # word[r.pos]}

\* A border of a border is a border.
LEMMA BorderOfBorder ==
  ASSUME NEW word, NEW p \in Nat, NEW b, NEW a, Border(word, p, b), Border(word, b, a)
  PROVE  Border(word, p, a)
<1>1. /\ b \in 0..p - 1 /\ a \in 0..b - 1 /\ a \in 0..p - 1
      /\ \A i \in 1..b : word[i] = word[p - b + i]
      /\ \A i \in 1..a : word[i] = word[b - a + i]
  BY DEF Border
<1>2. ASSUME NEW i \in 1..a PROVE word[i] = word[p - a + i]
  <2>1. b - a + i \in 1..b /\ p - b + (b - a + i) = p - a + i
    BY <1>1
  <2> QED
    BY <1>1, <2>1
<1> QED
  BY <1>1, <1>2 DEF Border

\* Of two borders the shorter is a border of the longer.
LEMMA ShorterBorder ==
  ASSUME NEW word, NEW p \in Nat, NEW b, NEW a, Border(word, p, b), Border(word, p, a), a < b
  PROVE  Border(word, b, a)
<1>1. /\ b \in 0..p - 1 /\ a \in 0..b - 1
      /\ \A i \in 1..b : word[i] = word[p - b + i]
      /\ \A i \in 1..a : word[i] = word[p - a + i]
  BY DEF Border
<1>2. ASSUME NEW i \in 1..a PROVE word[i] = word[b - a + i]
  <2>1. b - a + i \in 1..b /\ p - b + (b - a + i) = p - a + i
    BY <1>1
  <2> QED
    BY <1>1, <2>1
<1> QED
  BY <1>1, <1>2 DEF Border

\* A border grows by a byte that agrees, and shrinks to one.
LEMMA BorderGrows ==
  ASSUME NEW word, NEW p \in Nat, p > 1, NEW b \in Nat \ {0}
  PROVE  Border(word, p, b) <=> (Border(word, p - 1, b - 1) /\ word[b] = word[p])
<1>1. ASSUME Border(word, p, b)
      PROVE  Border(word, p - 1, b - 1) /\ word[b] = word[p]
  <2>1. /\ b \in 0..p - 1 /\ b - 1 \in 0..p - 2
        /\ \A i \in 1..b : word[i] = word[p - b + i]
    BY <1>1 DEF Border
  <2>2. word[b] = word[p]
    <3>1. b \in 1..b /\ p - b + b = p
      OBVIOUS
    <3> QED
      BY <2>1, <3>1
  <2>3. ASSUME NEW i \in 1..b - 1 PROVE word[i] = word[(p - 1) - (b - 1) + i]
    <3>1. i \in 1..b /\ (p - 1) - (b - 1) + i = p - b + i
      OBVIOUS
    <3> QED
      BY <2>1, <3>1
  <2> QED
    BY <2>1, <2>2, <2>3 DEF Border
<1>2. ASSUME Border(word, p - 1, b - 1), word[b] = word[p] PROVE Border(word, p, b)
  <2>1. /\ b - 1 \in 0..p - 2 /\ b \in 0..p - 1
        /\ \A i \in 1..b - 1 : word[i] = word[(p - 1) - (b - 1) + i]
    BY <1>2 DEF Border
  <2>2. ASSUME NEW i \in 1..b PROVE word[i] = word[p - b + i]
    <3>1. (p - 1) - (b - 1) + i = p - b + i
      OBVIOUS
    <3>2. CASE i = b
      <4>1. p - b + i = p
        BY <3>2
      <4> QED
        BY <1>2, <3>2, <4>1
    <3>3. CASE i # b
      <4>1. i \in 1..b - 1
        BY <3>3
      <4> QED
        BY <2>1, <3>1, <4>1
    <3> QED
      BY <3>2, <3>3
  <2> QED
    BY <2>1, <2>2 DEF Border
<1> QED
  BY <1>1, <1>2

\* A round of the loop of build_kmp_table() keeps this, and gets on.
LEMMA KmpRoundKeeps ==
  ASSUME NEW word \in Seq(Nat), Len(word) >= 2, NEW r \in Building(word)
  PROVE  /\ KmpRound(word, r) \in Building(word)
         /\ r.pos >= Len(word) => KmpRound(word, r) = r
         /\ r.pos < Len(word) =>
              2 * KmpRound(word, r).pos - KmpRound(word, r).cnd > 2 * r.pos - r.cnd
<1> DEFINE m == Len(word)
           p == r.pos
           b == r.cnd
<1>1. /\ m \in Nat \ {0} /\ p \in 2..m + 1 /\ b \in Nat /\ r.T \in [0..m - 1 -> -1..m]
      /\ r.T[0] = -1 /\ r = [pos |-> p, cnd |-> b, T |-> r.T]
  BY DEF Building
<1>2. Border(word, p - 1, b) /\ b \in 0..p - 2
  BY <1>1 DEF Building, Border
<1>3. \A q \in 1..p - 1 : LongestBorder(word, q, r.T[q])
  BY DEF Building
<1>4. \A a \in b + 1..p - 2 : Border(word, p - 1, a) => word[a + 1] # word[p]
  BY DEF Building
<1>5. /\ m \in Nat /\ m > 0 /\ p \in Nat /\ p >= 2 /\ p =< m + 1 /\ b \in Nat /\ b =< p - 2
      /\ r.pos = p /\ r.cnd = b /\ Len(word) = m
  BY <1>1, <1>2
<1> HIDE DEF m, p, b
\* A step is right when the entry it writes and the border it goes on with are.
<1>6. ASSUME NEW cnd \in Nat, NEW T, NEW q \in {p, p + 1}, cnd =< q - 2, q =< m \/ q = p,
             T \in [0..m - 1 -> -1..m], T[0] = -1, Border(word, q - 1, cnd),
             \A a \in 1..p - 1 : T[a] = r.T[a],
             q = p + 1 => LongestBorder(word, p, T[p]),
             \A a \in cnd + 1..q - 2 : Border(word, q - 1, a) => word[a + 1] # word[q]
      PROVE  [pos |-> q, cnd |-> cnd, T |-> T] \in Building(word)
  <2> DEFINE s == [pos |-> q, cnd |-> cnd, T |-> T]
  <2>1. s.pos = q /\ s.cnd = cnd /\ s.T = T
    OBVIOUS
  <2>2. q \in 2..m + 1
    <3>1. CASE q = p
      BY <1>5, <3>1
    <3>2. CASE q = p + 1
      <4>1. q # p /\ q =< m
        BY <1>5, <1>6, <3>2
      <4> QED
        BY <1>5, <3>2, <4>1
    <3> QED
      BY <3>1, <3>2
  <2>3. s \in [pos : 2..m + 1, cnd : Nat, T : [0..m - 1 -> -1..m]]
    BY <1>6, <2>2
  <2> HIDE DEF s
  <2>4. ASSUME NEW a \in 1..q - 1 PROVE LongestBorder(word, a, T[a])
    <3>1. CASE a = p
      BY <1>5, <1>6, <3>1
    <3>2. CASE a # p
      <4>1. a \in 1..p - 1
        BY <1>5, <3>2
      <4> QED
        BY <1>3, <1>6, <4>1
    <3> QED
      BY <3>1, <3>2
  <2>5. s \in Building(word)
    BY <1>5, <1>6, <2>1, <2>3, <2>4 DEF Building
  <2> QED
    BY <2>5 DEF s
\* The borders of p are those of p - 1 that grow.
<1>7. ASSUME NEW a \in 1..p - 1, Border(word, p, a)
      PROVE  Border(word, p - 1, a - 1) /\ word[a] = word[p]
  <2>1. p > 1 /\ a \in Nat \ {0}
    BY <1>5
  <2> QED
    BY <1>5, <1>7, <2>1, BorderGrows
<1>8. ASSUME NEW a \in b + 2..p - 1 PROVE ~Border(word, p, a)
  <2>1. a \in 1..p - 1 /\ a - 1 \in b + 1..p - 2 /\ (a - 1) + 1 = a
    BY <1>5
  <2>2. Border(word, p - 1, a - 1) => word[(a - 1) + 1] # word[p]
    BY <1>4, <2>1
  <2> QED
    BY <1>7, <2>1, <2>2
<1>9. CASE p >= m
  <2>1. KmpRound(word, r) = r
    BY <1>5, <1>9 DEF KmpRound
  <2> QED
    BY <1>5, <1>9, <2>1
<1>10. CASE p < m /\ word[p] = word[b + 1]
  <2> DEFINE T == [r.T EXCEPT ![p] = b + 1]
  <2>1. KmpRound(word, r) = [pos |-> p + 1, cnd |-> b + 1, T |-> T]
    BY <1>5, <1>10 DEF KmpRound
  <2>2. /\ T \in [0..m - 1 -> -1..m] /\ T[0] = -1 /\ T[p] = b + 1
        /\ \A a \in 1..p - 1 : T[a] = r.T[a]
    BY <1>1, <1>5, <1>10, SMTT(30)
  <2> HIDE DEF T
  <2>3. Border(word, p, b + 1)
    <3>1. p > 1 /\ b + 1 \in Nat \ {0} /\ (b + 1) - 1 = b
      BY <1>5
    <3>2. Border(word, p, b + 1) <=>
            (Border(word, p - 1, (b + 1) - 1) /\ word[b + 1] = word[p])
      BY <1>5, <3>1, BorderGrows
    <3> QED
      BY <1>2, <1>10, <3>1, <3>2
  <2>4. (b + 1) + 1 = b + 2 /\ (p + 1) - 1 = p /\ (p + 1) - 2 = p - 1
    BY <1>5
  <2>5. LongestBorder(word, p, b + 1)
    BY <1>8, <2>3, <2>4 DEF LongestBorder
  <2>6. [pos |-> p + 1, cnd |-> b + 1, T |-> T] \in Building(word)
    <3>1. b + 1 \in Nat /\ p + 1 \in {p, p + 1} /\ b + 1 =< (p + 1) - 2 /\ p + 1 =< m
      BY <1>5, <1>10
    <3>2. Border(word, (p + 1) - 1, b + 1) /\ LongestBorder(word, p, T[p])
      BY <2>2, <2>3, <2>4, <2>5
    <3>3. \A a \in (b + 1) + 1..(p + 1) - 2 :
            Border(word, (p + 1) - 1, a) => word[a + 1] # word[p + 1]
      BY <1>8, <2>4
    <3> QED
      BY <1>6, <2>2, <3>1, <3>2, <3>3
  <2>7. 2 * (p + 1) - (b + 1) > 2 * p - b
    BY <1>5
  <2> QED
    BY <1>5, <1>10, <2>1, <2>6, <2>7
<1>11. CASE p < m /\ word[p] # word[b + 1] /\ b > 0
  <2>1. KmpRound(word, r) = [r EXCEPT !.cnd = r.T[b]]
    BY <1>5, <1>11 DEF KmpRound
  <2>2. [r EXCEPT !.cnd = r.T[b]] = [pos |-> p, cnd |-> r.T[b], T |-> r.T]
    BY <1>1, SMTT(30)
  <2>3. LongestBorder(word, b, r.T[b])
    <3>1. b \in 1..p - 1
      BY <1>5, <1>11
    <3> QED
      BY <1>3, <3>1
  <2>4. r.T[b] \in 0..b - 1
    BY <2>3 DEF LongestBorder, Border
  <2>5. Border(word, p - 1, r.T[b])
    <3>1. p - 1 \in Nat
      BY <1>5
    <3> QED
      BY <1>2, <2>3, <3>1, BorderOfBorder DEF LongestBorder
  <2>6. ASSUME NEW a \in r.T[b] + 1..p - 2, Border(word, p - 1, a) PROVE word[a + 1] # word[p]
    <3>1. CASE a < b
      <4>1. a \in r.T[b] + 1..b - 1 /\ p - 1 \in Nat
        BY <1>5, <2>4, <3>1
      <4>2. Border(word, b, a)
        BY <1>2, <2>6, <3>1, <4>1, ShorterBorder
      <4> QED
        BY <2>3, <4>1, <4>2 DEF LongestBorder
    <3>2. CASE a = b
      BY <1>11, <3>2
    <3>3. CASE a > b
      <4>1. a \in b + 1..p - 2
        BY <1>5, <2>4, <3>3
      <4> QED
        BY <1>4, <2>6, <4>1
    <3> QED
      BY <1>5, <2>4, <3>1, <3>2, <3>3
  <2>7. [pos |-> p, cnd |-> r.T[b], T |-> r.T] \in Building(word)
    <3>1. r.T[b] \in Nat /\ p \in {p, p + 1} /\ r.T[b] =< p - 2 /\ p # p + 1
      BY <1>5, <2>4
    <3> QED
      BY <1>1, <1>6, <2>5, <2>6, <3>1
  <2>8. 2 * p - r.T[b] > 2 * p - b
    BY <1>5, <2>4
  <2> QED
    BY <1>5, <1>11, <2>1, <2>2, <2>7, <2>8, SMTT(30)
<1>12. CASE p < m /\ word[p] # word[b + 1] /\ b = 0
  <2> DEFINE T == [r.T EXCEPT ![p] = 0]
  <2>1. KmpRound(word, r) = [r EXCEPT !.pos = p + 1, !.T[p] = 0]
    BY <1>5, <1>12 DEF KmpRound
  <2>2. [r EXCEPT !.pos = p + 1, !.T[p] = 0] = [pos |-> p + 1, cnd |-> 0, T |-> T]
    <3> DEFINE after == [r EXCEPT !.pos = p + 1]
    <3>1. after = [pos |-> p + 1, cnd |-> b, T |-> r.T]
      BY <1>1, SMTT(30)
    <3>2. [r EXCEPT !.pos = p + 1, !.T[p] = 0] = [after EXCEPT !.T[p] = 0]
      OBVIOUS
    <3> HIDE DEF after
    <3>3. [after EXCEPT !.T[p] = 0] = [pos |-> p + 1, cnd |-> b, T |-> T]
      BY <3>1, SMTT(30)
    <3> QED
      BY <1>12, <3>2, <3>3
  <2>3. /\ T \in [0..m - 1 -> -1..m] /\ T[0] = -1 /\ T[p] = 0
        /\ \A a \in 1..p - 1 : T[a] = r.T[a]
    BY <1>1, <1>5, <1>12, SMTT(30)
  <2> HIDE DEF T
  <2>4. ASSUME NEW a \in 1..p - 1 PROVE ~Border(word, p, a)
    <3>1. CASE a = 1
      BY <1>7, <1>12, <3>1
    <3>2. CASE a # 1
      <4>1. a \in b + 2..p - 1
        BY <1>5, <1>12, <3>2
      <4> QED
        BY <1>8, <4>1
    <3> QED
      BY <3>1, <3>2
  <2>5. (p + 1) - 1 = p /\ (p + 1) - 2 = p - 1 /\ 0 + 1 = 1
    BY <1>5
  <2>6. Border(word, p, 0) /\ LongestBorder(word, p, 0)
    <3>1. Border(word, p, 0)
      BY <1>5 DEF Border
    <3> QED
      BY <2>4, <2>5, <3>1 DEF LongestBorder
  <2>7. [pos |-> p + 1, cnd |-> 0, T |-> T] \in Building(word)
    <3>1. 0 \in Nat /\ p + 1 \in {p, p + 1} /\ 0 =< (p + 1) - 2 /\ p + 1 =< m
      BY <1>5, <1>12
    <3>2. Border(word, (p + 1) - 1, 0) /\ LongestBorder(word, p, T[p])
      BY <2>3, <2>5, <2>6
    <3>3. \A a \in 0 + 1..(p + 1) - 2 :
            Border(word, (p + 1) - 1, a) => word[a + 1] # word[p + 1]
      BY <2>4, <2>5
    <3> QED
      BY <1>6, <2>3, <3>1, <3>2, <3>3
  <2>8. 2 * (p + 1) - 0 > 2 * p - b
    BY <1>5
  <2> QED
    BY <1>5, <1>12, <2>1, <2>2, <2>7, <2>8
<1> QED
  <2>1. (p >= m \/ p < m) /\ (b > 0 \/ b = 0)
    BY <1>5
  <2> QED
    BY <1>9, <1>10, <1>11, <1>12, <2>1

\* The only element of a set.
LEMMA OnlyOne == ASSUME NEW x PROVE Only({x}) = x
BY DEF Only

\* The loop of the table, with its rounds named.
KmpStart(word) ==
  [pos |-> 2, cnd |-> 0, T |-> [i \in 0..Len(word) - 1 |-> IF i = 0 THEN -1 ELSE 0]]
KmpRounds(f, word) ==
  f = [k \in 0..(2 * Len(word)) |->
         IF k = 0 THEN KmpStart(word) ELSE Only({KmpRound(word, r) : r \in {f[k - 1]}})]

\* The table is what the loop has built after enough rounds.
LEMMA KmpTableIsBuilt ==
  ASSUME NEW word
  PROVE  KmpTable(word) = (CHOOSE f : KmpRounds(f, word))[2 * Len(word)].T
BY DEF KmpTable, KmpRounds, KmpStart

\* Before the first round only the entries 0 and 1 count.
LEMMA KmpStarts ==
  ASSUME NEW word \in Seq(Nat), Len(word) >= 2
  PROVE  KmpStart(word) \in Building(word)
<1> DEFINE m == Len(word)
           s == KmpStart(word)
<1>1. m \in Nat /\ m >= 2
  OBVIOUS
<1>2. /\ s.pos = 2 /\ s.cnd = 0 /\ s.T[0] = -1 /\ s.T[1] = 0
      /\ s \in [pos : 2..m + 1, cnd : Nat, T : [0..m - 1 -> -1..m]]
  BY <1>1 DEF KmpStart
<1>3. Border(word, 1, 0) /\ LongestBorder(word, 1, 0)
  BY DEF Border, LongestBorder
<1> HIDE DEF s, m
<1>4. Len(word) = m
  BY DEF m
<1>5. \A p \in 1..s.pos - 1 : LongestBorder(word, p, s.T[p])
  BY <1>2, <1>3
<1>6. s.pos - 1 = 1 /\ s.cnd + 1..s.pos - 2 = {}
  BY <1>2
<1> QED
  BY <1>2, <1>3, <1>4, <1>5, <1>6 DEF Building, s

\* The loop of read_line_op::build_kmp_table() (src/epoll_file.cpp) gets to the
\* end of every word of two bytes or more in 2 * Len(word) rounds, writes no
\* entry but the Len(word) it has allocated, and each entry is the longest
\* border of the bytes before it.
THEOREM KmpTableIsRight ==
  ASSUME NEW word \in Seq(Nat), Len(word) >= 2
  PROVE  /\ KmpTable(word) \in [0..Len(word) - 1 -> -1..Len(word)] /\ KmpTable(word)[0] = -1
         /\ \A p \in 1..Len(word) - 1 : LongestBorder(word, p, KmpTable(word)[p])
<1> DEFINE m == Len(word)
           N == 2 * m
           S == Building(word)
           F == [r \in S |-> KmpRound(word, r)]
           g == CHOOSE f : KmpRounds(f, word)
<1>1. m \in Nat /\ N \in Nat
  OBVIOUS
<1>2. \E f : KmpRounds(f, word)
  <2>1. \A r \in S : F[r] \in S
    BY KmpRoundKeeps
  <2>2. KmpStart(word) \in S
    BY KmpStarts
  <2>3. \E f : Iterates(f, F, S, KmpStart(word), N)
    <3> HIDE DEF F, S, N
    <3> QED
      BY <1>1, <2>1, <2>2, Iterated
  <2>6. PICK f : /\ f \in [0..N -> S] /\ f[0] = KmpStart(word)
                 /\ \A k \in 1..N : f[k] = F[f[k - 1]]
    BY <2>3 DEF Iterates
  <2>4. ASSUME NEW k \in 0..N
        PROVE  f[k] = IF k = 0 THEN KmpStart(word)
                      ELSE Only({KmpRound(word, r) : r \in {f[k - 1]}})
    <3>1. CASE k = 0
      BY <2>6, <3>1
    <3>2. CASE k # 0
      <4>1. k \in 1..N /\ k - 1 \in 0..N
        BY <1>1, <3>2
      <4>2. f[k - 1] \in S
        BY <2>6, <4>1
      <4>3. f[k] = KmpRound(word, f[k - 1])
        BY <2>6, <4>1, <4>2
      <4>4. {KmpRound(word, r) : r \in {f[k - 1]}} = {KmpRound(word, f[k - 1])}
        OBVIOUS
      <4> QED
        BY <3>2, <4>3, <4>4, OnlyOne
    <3> QED
      BY <3>1, <3>2
  <2>5. f = [k \in 0..N |-> IF k = 0 THEN KmpStart(word)
                            ELSE Only({KmpRound(word, r) : r \in {f[k - 1]}})]
    <3> HIDE DEF N
    <3> QED
      BY <2>6, <2>4
  <2> QED
    BY <2>5 DEF KmpRounds
<1>3. KmpRounds(g, word)
  BY <1>2
<1> HIDE DEF g
<1>4. g[0] = KmpStart(word)
  BY <1>1, <1>3 DEF KmpRounds
<1>5. ASSUME NEW k \in 1..N PROVE g[k] = KmpRound(word, g[k - 1])
  <2>1. g[k] = Only({KmpRound(word, r) : r \in {g[k - 1]}})
    <3>1. k \in 0..2 * Len(word) /\ k # 0
      BY <1>1
    <3> QED
      BY <1>3, <3>1, Zenon DEF KmpRounds
  <2>2. {KmpRound(word, r) : r \in {g[k - 1]}} = {KmpRound(word, g[k - 1])}
    OBVIOUS
  <2> QED
    BY <2>1, <2>2, OnlyOne
<1> DEFINE Halted == {r \in S : r.pos >= m}
           gone == [r \in S |-> 2 * r.pos - r.cnd]
           r == g[N]
<1>6. r \in S /\ (r \in Halted \/ gone[r] >= gone[g[0]] + N)
  <2>1. \A q \in S : F[q] \in S /\ (q \in Halted => F[q] = q) /\ gone[q] \in Int
    <3> SUFFICES ASSUME NEW q \in S
                 PROVE  F[q] \in S /\ (q \in Halted => F[q] = q) /\ gone[q] \in Int
      OBVIOUS
    <3>1. q.pos \in Int /\ q.cnd \in Int
      BY DEF Building
    <3> QED
      BY <3>1, KmpRoundKeeps
  <2>2. \A q \in S : q \notin Halted => gone[F[q]] > gone[q]
    <3> SUFFICES ASSUME NEW q \in S, q \notin Halted PROVE gone[F[q]] > gone[q]
      OBVIOUS
    <3>1. q.pos \in Int /\ q.pos < m
      BY <1>1 DEF Building
    <3>2. F[q] = KmpRound(word, q) /\ F[q] \in S
      BY KmpRoundKeeps
    <3>3. gone[q] = 2 * q.pos - q.cnd /\ gone[F[q]] = 2 * F[q].pos - F[q].cnd
      BY <3>2
    <3> QED
      BY <3>1, <3>2, <3>3, KmpRoundKeeps
  <2>3. g[0] \in S /\ \A k \in 1..N : g[k - 1] \in S => g[k] = F[g[k - 1]]
    BY <1>4, <1>5, KmpStarts
  <2> HIDE DEF S, F, Halted, gone, N
  <2>4. IsLoop(g, F, S, Halted, gone, N)
    BY <1>1, <2>1, <2>2, <2>3 DEF IsLoop
  <2> QED
    BY <2>4, LoopGetsOn
<1>8. r \in S /\ r.pos >= m
  <2>1. gone[g[0]] = 4 /\ gone[r] = 2 * r.pos - r.cnd
    <3>1. g[0] \in S /\ g[0].pos = 2 /\ g[0].cnd = 0
      BY <1>4, KmpStarts DEF KmpStart
    <3> QED
      BY <1>6, <3>1
  <2>2. r.pos \in Nat /\ r.cnd \in Nat
    BY <1>6 DEF Building
  <2>3. r.pos >= m \/ 2 * r.pos - r.cnd >= 4 + N
    BY <1>6, <2>1
  <2> HIDE DEF r, S, m
  <2> QED
    BY <1>1, <1>6, <2>2, <2>3 DEF N
<1>9. KmpTable(word) = r.T
  BY KmpTableIsBuilt DEF g
<1> HIDE DEF r
<1>10. /\ r.T \in [0..m - 1 -> -1..m] /\ r.T[0] = -1 /\ r.pos \in Nat
       /\ \A p \in 1..r.pos - 1 : LongestBorder(word, p, r.T[p])
  BY <1>8 DEF Building
<1>11. \A p \in 1..m - 1 : LongestBorder(word, p, r.T[p])
  <2> SUFFICES ASSUME NEW p \in 1..m - 1 PROVE LongestBorder(word, p, r.T[p])
    OBVIOUS
  <2>1. p \in 1..r.pos - 1
    BY <1>1, <1>8, <1>10, SMTT(30)
  <2> QED
    BY <1>10, <2>1
<1> QED
  BY <1>9, <1>10, <1>11

-----------------------------------------------------------------------------
(* The search *)

\* The first k bytes of the word stand at offset i of the text.
Agrees(text, i, word, k) == \A j \in 1..k : text[i + j] = word[j]
\* What the text has at offset i is not the word, nor the start of the word.
Refuted(text, word, i) ==
  \E j \in 1..Len(word) : i + j =< Len(text) /\ text[i + j] # word[j]

\* What the loop of find_eol() keeps: the word agrees as far as it was
\* compared, and nothing before it can be the word.
Searching(text, word) ==
  {r \in [text : 0..Len(text), word : 0..Len(word) - 1, found : 0..Len(text)] :
     /\ r.text + r.word =< Len(text) /\ Agrees(text, r.text, word, r.word)
     /\ \A i \in 0..r.text - 1 : Refuted(text, word, i)
     /\ r.found < Len(text) => /\ r.found = r.text /\ r.found + Len(word) =< Len(text)
                               /\ Agrees(text, r.found, word, Len(word))}

\* What KmpTableIsRight says of the table.
RightTable(word, T) ==
  /\ T \in [0..Len(word) - 1 -> -1..Len(word)] /\ T[0] = -1
  /\ \A p \in 1..Len(word) - 1 : LongestBorder(word, p, T[p])

\* The table tells how far the word may be moved when a byte disagrees.
LEMMA Moves ==
  ASSUME NEW text \in Seq(Nat), NEW word \in Seq(Nat), Len(word) >= 2, NEW T, RightTable(word, T),
         NEW i \in Nat, NEW w \in 0..Len(word) - 1, i + w < Len(text),
         Agrees(text, i, word, w), word[w + 1] # text[i + w + 1]
  PROVE  /\ T[w] \in -1..w - 1 /\ (T[w] = -1 <=> w = 0)
         /\ \A k \in i..i + w - T[w] - 1 : Refuted(text, word, k)
         /\ Agrees(text, i + w - T[w], word, T[w])
<1> DEFINE m == Len(word)
           n == Len(text)
<1>1. m \in Nat /\ m >= 1 /\ n \in Nat /\ w \in Nat /\ w =< m - 1
  OBVIOUS
<1>2. Len(word) = m /\ Len(text) = n
  OBVIOUS
<1> HIDE DEF m, n
<1>3. Refuted(text, word, i)
  <2>1. w + 1 \in 1..Len(word) /\ i + (w + 1) =< Len(text) /\ i + (w + 1) = i + w + 1
    BY <1>1, <1>2
  <2> QED
    BY <2>1 DEF Refuted
<1>4. CASE w = 0
  <2>1. T[w] = -1
    BY <1>4 DEF RightTable
  <2>2. i + w - T[w] - 1 = i
    BY <1>4, <2>1
  <2>3. Agrees(text, i + w - T[w], word, T[w])
    BY <2>1 DEF Agrees
  <2> QED
    BY <1>3, <1>4, <2>1, <2>2, <2>3
<1>5. CASE w # 0
  <2> DEFINE b == T[w]
  <2>1. LongestBorder(word, w, b)
    <3>1. w \in 1..Len(word) - 1
      BY <1>1, <1>2, <1>5
    <3> QED
      BY <3>1 DEF RightTable
  <2>2. b \in 0..w - 1 /\ \A j \in 1..b : word[j] = word[w - b + j]
    BY <2>1 DEF LongestBorder, Border
  <2> HIDE DEF b
  <2>3. ASSUME NEW k \in i..i + w - b - 1 PROVE Refuted(text, word, k)
    <3>1. CASE k = i
      BY <1>3, <3>1
    <3>2. CASE k # i
      <4> DEFINE a == w - (k - i)
      <4>1. a \in b + 1..w - 1 /\ a \in 0..w - 1 /\ k - i \in 1..w - 1 /\ w - a = k - i
        BY <1>1, <2>2, <3>2
      <4> HIDE DEF a
      <4>2. ~Border(word, w, a)
        BY <2>1, <4>1 DEF LongestBorder
      <4>3. PICK j \in 1..a : word[j] # word[w - a + j]
        BY <4>1, <4>2 DEF Border
      <4>4. (k - i) + j \in 1..w /\ i + ((k - i) + j) = k + j
        BY <1>1, <4>1
      <4>5. text[k + j] = word[(k - i) + j]
        BY <4>4 DEF Agrees
      <4>6. j \in 1..Len(word) /\ k + j =< Len(text)
        BY <1>1, <1>2, <4>1
      <4> QED
        BY <4>1, <4>3, <4>5, <4>6 DEF Refuted
    <3> QED
      BY <3>1, <3>2
  <2>4. ASSUME NEW j \in 1..b PROVE text[i + w - b + j] = word[j]
    <3>1. w - b + j \in 1..w /\ i + (w - b + j) = i + w - b + j
      <4>1. b \in Int /\ 0 =< b /\ b =< w - 1 /\ w \in Int /\ j \in Int /\ 1 =< j /\ j =< b
        BY <1>1, <2>2
      <4> QED
        BY <4>1
    <3>2. text[i + (w - b + j)] = word[w - b + j]
      BY <3>1 DEF Agrees
    <3> QED
      BY <2>2, <3>1, <3>2
  <2>5. Agrees(text, i + w - b, word, b)
    BY <2>4 DEF Agrees
  <2>6. b \in -1..w - 1 /\ b # -1
    BY <1>1, <2>2
  <2> QED
    BY <1>5, <2>3, <2>5, <2>6 DEF b
<1> QED
  BY <1>4, <1>5

\* The loop ends at the end of the text, or with the word found.
SearchEnds(text, r) == r.text + r.word >= Len(text) \/ r.found < Len(text)

\* A round of the loop of find_eol() keeps this, and gets on.
LEMMA SearchRoundKeeps ==
  ASSUME NEW text \in Seq(Nat), NEW word \in Seq(Nat), Len(word) >= 2, NEW T, RightTable(word, T),
         NEW r \in Searching(text, word)
  PROVE  LET s == SearchRound(text, word, T, r) IN
         /\ s \in Searching(text, word)
         /\ SearchEnds(text, r) => s = r
         /\ ~SearchEnds(text, r) => SearchEnds(text, s) \/ 2 * s.text + s.word > 2 * r.text + r.word
<1> DEFINE m == Len(word)
           n == Len(text)
           i == r.text
           w == r.word
<1>1. /\ m \in Nat /\ m >= 1 /\ n \in Nat /\ Len(word) = m /\ Len(text) = n
      /\ i \in 0..n /\ w \in 0..m - 1 /\ r.found \in 0..n /\ r.text = i /\ r.word = w
      /\ r = [text |-> i, word |-> w, found |-> r.found] /\ i + w =< n
  BY DEF Searching
<1>2. /\ Agrees(text, i, word, w) /\ \A k \in 0..i - 1 : Refuted(text, word, k)
      /\ r.found < n => r.found = i /\ r.found + m =< n /\ Agrees(text, r.found, word, m)
  BY DEF Searching
<1> HIDE DEF m, n, i, w
<1>7. r = [text |-> i, word |-> w, found |-> r.found]
  BY <1>1
<1>8. /\ m \in Int /\ m >= 1 /\ n \in Int /\ i \in Int /\ w \in Int /\ 0 =< i /\ i =< n
      /\ 0 =< w /\ w =< m - 1 /\ i + w =< n
  BY <1>1
<1>3. ASSUME NEW p \in 0..n, NEW q \in 0..m - 1, p + q =< n, Agrees(text, p, word, q),
             \A k \in 0..p - 1 : Refuted(text, word, k)
      PROVE  [text |-> p, word |-> q, found |-> n] \in Searching(text, word)
  <2> DEFINE s == [text |-> p, word |-> q, found |-> n]
  <2>1. s.text = p /\ s.word = q /\ s.found = n
    OBVIOUS
  <2>2. s \in [text : 0..n, word : 0..m - 1, found : 0..n] /\ ~(n < n)
    BY <1>1
  <2> HIDE DEF s
  <2>3. s \in Searching(text, word)
    BY <1>1, <1>3, <2>1, <2>2 DEF Searching
  <2> QED
    BY <2>3 DEF s
<1>4. CASE SearchEnds(text, r)
  <2>1. SearchRound(text, word, T, r) = r
    BY <1>1, <1>4, SMTT(30) DEF SearchRound, SearchEnds
  <2> QED
    BY <1>4, <2>1
<1>5. CASE ~SearchEnds(text, r) /\ word[w + 1] = text[i + w + 1]
  <2>1. i + w < n /\ r.found = n
    BY <1>1, <1>5 DEF SearchEnds
  <2>2. Agrees(text, i, word, w + 1)
    <3>1. ASSUME NEW j \in 1..w + 1 PROVE text[i + j] = word[j]
      <4>1. CASE j = w + 1
        <5>1. i + j = i + w + 1
          BY <1>1, <4>1
        <5> QED
          BY <1>5, <4>1, <5>1
      <4>2. CASE j # w + 1
        <5>1. j \in 1..w
          BY <1>1, <4>2, SMTT(30)
        <5> QED
          BY <1>2, <5>1 DEF Agrees
      <4> QED
        BY <4>1, <4>2
    <3> QED
      BY <3>1 DEF Agrees
  <2>3. CASE w = m - 1
    <3>1. SearchRound(text, word, T, r) = [r EXCEPT !.found = i]
      BY <1>1, <1>5, <2>1, <2>3 DEF SearchRound, SearchEnds
    <3>2. [r EXCEPT !.found = i] = [text |-> i, word |-> w, found |-> i]
      BY <1>7
    <3> DEFINE s == [text |-> i, word |-> w, found |-> i]
    <3>3. s.text = i /\ s.word = w /\ s.found = i
      OBVIOUS
    <3>4. s \in [text : 0..n, word : 0..m - 1, found : 0..n] /\ i + m =< n /\ w + 1 = m /\ i < n
      BY <1>1, <2>1, <2>3, SMTT(30)
    <3> HIDE DEF s
    <3>5. s \in Searching(text, word)
      BY <1>1, <1>2, <2>2, <3>3, <3>4 DEF Searching
    <3>6. SearchEnds(text, s)
      BY <1>1, <3>3, <3>4 DEF SearchEnds
    <3> QED
      BY <1>5, <3>1, <3>2, <3>5, <3>6 DEF s
  <2>4. CASE w # m - 1
    <3>1. SearchRound(text, word, T, r) = [r EXCEPT !.word = w + 1]
      BY <1>1, <1>5, <2>1, <2>4 DEF SearchRound, SearchEnds
    <3>2. [r EXCEPT !.word = w + 1] = [text |-> i, word |-> w + 1, found |-> n]
      <4>1. [r EXCEPT !.word = w + 1] = [text |-> i, word |-> w + 1, found |-> r.found]
        BY <1>7
      <4> QED
        BY <2>1, <4>1
    <3>3. w + 1 \in 0..m - 1 /\ i + (w + 1) =< n /\ 2 * i + (w + 1) > 2 * i + w
      BY <1>8, <2>1, <2>4
    <3>4. [text |-> i, word |-> w + 1, found |-> n] \in Searching(text, word)
      BY <1>1, <1>2, <1>3, <2>2, <3>3
    <3> QED
      BY <1>1, <1>5, <3>1, <3>2, <3>3, <3>4
  <2> QED
    BY <2>3, <2>4
<1>6. CASE ~SearchEnds(text, r) /\ word[w + 1] # text[i + w + 1]
  <2>1. i + w < n /\ r.found = n /\ i \in Nat /\ i + w < Len(text) /\ w \in 0..Len(word) - 1
    BY <1>1, <1>6 DEF SearchEnds
  <2>2. /\ T[w] \in -1..w - 1 /\ (T[w] = -1 <=> w = 0)
        /\ \A k \in i..i + w - T[w] - 1 : Refuted(text, word, k)
        /\ Agrees(text, i + w - T[w], word, T[w])
    BY <1>2, <1>6, <2>1, Moves
  <2> DEFINE b == T[w]
             q == IF b < 0 THEN 0 ELSE b
             p == i + w - b
  <2>3. SearchRound(text, word, T, r) = [r EXCEPT !.text = p, !.word = q]
    BY <1>1, <1>6, <2>1 DEF SearchRound, SearchEnds
  <2>4. [r EXCEPT !.text = p, !.word = q] = [text |-> p, word |-> q, found |-> n]
    <3> DEFINE after == [r EXCEPT !.text = p]
    <3> HIDE DEF p, q
    <3>1. after = [text |-> p, word |-> w, found |-> r.found]
      BY <1>7
    <3>2. [r EXCEPT !.text = p, !.word = q] = [after EXCEPT !.word = q]
      OBVIOUS
    <3> HIDE DEF after
    <3>3. [after EXCEPT !.word = q] = [text |-> p, word |-> q, found |-> r.found]
      BY <3>1
    <3> QED
      BY <2>1, <3>2, <3>3
  <2>5. b \in Int /\ b >= -1 /\ b =< w - 1 /\ (b = -1 <=> w = 0)
    BY <1>1, <2>2
  <2>6. /\ q \in 0..m - 1 /\ p \in 0..n /\ p + q =< n /\ p - 1 = i + w - b - 1
        /\ 2 * p + q > 2 * i + w
    <3> HIDE DEF b
    <3> QED
      BY <1>8, <2>1, <2>5
  <2>7. Agrees(text, p, word, q)
    <3>1. CASE b < 0
      BY <3>1 DEF Agrees
    <3>2. CASE ~(b < 0)
      BY <2>2, <3>2
    <3> QED
      BY <3>1, <3>2
  <2> HIDE DEF p, q, b
  <2>8. \A k \in 0..p - 1 : Refuted(text, word, k)
    <3> SUFFICES ASSUME NEW k \in 0..p - 1 PROVE Refuted(text, word, k)
      OBVIOUS
    <3>1. CASE k < i
      <4>1. k \in 0..i - 1
        BY <1>1, <2>6, <3>1
      <4> QED
        BY <1>2, <4>1
    <3>2. CASE ~(k < i)
      <4>1. k \in i..i + w - T[w] - 1
        BY <1>8, <2>5, <2>6, <3>2 DEF b
      <4> QED
        BY <2>2, <4>1
    <3> QED
      BY <3>1, <3>2
  <2>9. [text |-> p, word |-> q, found |-> n] \in Searching(text, word)
    BY <1>3, <2>6, <2>7, <2>8
  <2> QED
    BY <1>1, <1>6, <2>3, <2>4, <2>6, <2>9
<1> QED
  BY <1>4, <1>5, <1>6

\* The loop of the search, with its rounds named.
SearchStart(text) == [text |-> 0, word |-> 0, found |-> Len(text)]
SearchStep(text, word, x) ==
  Only({SearchRound(text, word, T, r) : r \in {x}, T \in {KmpTable(word)}})
SearchRounds(f, text, word) ==
  f = [k \in 0..(2 * Len(text)) |->
         IF k = 0 THEN SearchStart(text) ELSE SearchStep(text, word, f[k - 1])]
SearchEnd(text, word) == (CHOOSE f : SearchRounds(f, text, word))[2 * Len(text)]

\* What is found is where the loop ends after enough rounds.
LEMMA FindEolIsSearched ==
  ASSUME NEW text, NEW word
  PROVE  FindEol(text, word) =
           [at |-> SearchEnd(text, word).found,
            partial |-> IF SearchEnd(text, word).found = Len(text)
                        THEN SearchEnd(text, word).word ELSE 0]
BY DEF FindEol, SearchEnd, SearchRounds, SearchStart, SearchStep

\* find_eol() gets to the end of the text, or to the word, in 2 * Len(text)
\* rounds of its loop.
LEMMA SearchIsRight ==
  ASSUME NEW text \in Seq(Nat), NEW word \in Seq(Nat), Len(word) >= 2
  PROVE  SearchEnd(text, word) \in Searching(text, word) /\ SearchEnds(text, SearchEnd(text, word))
<1> DEFINE n == Len(text)
           N == 2 * n
           T == KmpTable(word)
           S == Searching(text, word)
           F == [r \in S |-> SearchRound(text, word, T, r)]
           g == CHOOSE f : SearchRounds(f, text, word)
<1>1. n \in Nat /\ N \in Nat
  OBVIOUS
<1>2. RightTable(word, T)
  BY KmpTableIsRight DEF RightTable
<1> HIDE DEF T
<1>3. SearchStart(text) \in S
  <2>1. Len(word) \in Nat /\ Len(word) >= 1
    OBVIOUS
  <2>2. Agrees(text, 0, word, 0) /\ ~(n < n)
    BY <1>1 DEF Agrees
  <2> QED
    BY <1>1, <2>1, <2>2 DEF Searching, SearchStart
<1>4. \A r \in S : F[r] \in S /\ F[r] = SearchRound(text, word, T, r)
  BY <1>2, SearchRoundKeeps
<1>5. ASSUME NEW x PROVE SearchStep(text, word, x) = SearchRound(text, word, T, x)
  <2> DEFINE results == {SearchRound(text, word, u, r) : r \in {x}, u \in {T}}
  <2>1. results = {SearchRound(text, word, T, x)}
    OBVIOUS
  <2>2. SearchStep(text, word, x) = Only(results)
    BY DEF SearchStep, T
  <2> HIDE DEF results
  <2> QED
    BY <2>1, <2>2, OnlyOne
<1>6. \E f : SearchRounds(f, text, word)
  <2>1. \E f : Iterates(f, F, S, SearchStart(text), N)
    <3>1. \A r \in S : F[r] \in S
      BY <1>4
    <3> HIDE DEF F, S, N
    <3> QED
      BY <1>1, <1>3, <3>1, Iterated
  <2>2. PICK f : /\ f \in [0..N -> S] /\ f[0] = SearchStart(text)
                 /\ \A k \in 1..N : f[k] = F[f[k - 1]]
    BY <2>1 DEF Iterates
  <2>3. ASSUME NEW k \in 0..N
        PROVE  f[k] = IF k = 0 THEN SearchStart(text)
                      ELSE SearchStep(text, word, f[k - 1])
    <3>1. CASE k = 0
      BY <2>2, <3>1
    <3>2. CASE k # 0
      <4>1. k \in 1..N /\ k - 1 \in 0..N
        BY <1>1, <3>2
      <4>2. f[k - 1] \in S
        BY <2>2, <4>1
      <4>3. f[k] = SearchRound(text, word, T, f[k - 1])
        BY <1>4, <2>2, <4>1, <4>2
      <4> QED
        BY <1>5, <3>2, <4>3
    <3> QED
      BY <3>1, <3>2
  <2>4. f = [k \in 0..N |-> IF k = 0 THEN SearchStart(text)
                            ELSE SearchStep(text, word, f[k - 1])]
    <3> HIDE DEF N
    <3> QED
      BY <2>2, <2>3
  <2> QED
    BY <2>4 DEF SearchRounds
<1>7. SearchRounds(g, text, word)
  BY <1>6
<1> HIDE DEF g
<1>8. g[0] = SearchStart(text)
  BY <1>1, <1>7 DEF SearchRounds
<1>9. ASSUME NEW k \in 1..N PROVE g[k] = SearchRound(text, word, T, g[k - 1])
  <2>1. g[k] = SearchStep(text, word, g[k - 1])
    <3>1. k \in 0..2 * Len(text) /\ k # 0
      BY <1>1
    <3> QED
      BY <1>7, <3>1, Zenon DEF SearchRounds
  <2> QED
    BY <1>5, <2>1
<1> DEFINE Halted == {r \in S : SearchEnds(text, r)}
           gone == [r \in S |-> 2 * r.text + r.word]
           r == g[N]
<1>10. r \in S /\ (r \in Halted \/ gone[r] >= gone[g[0]] + N)
  <2>1. ASSUME NEW q \in S
        PROVE  /\ F[q] \in S /\ gone[q] \in Int
               /\ q \in Halted => F[q] = q
               /\ q \notin Halted => (F[q] \in Halted \/ gone[F[q]] > gone[q])
    <3> DEFINE s == SearchRound(text, word, T, q)
    <3>1. F[q] = s /\ s \in S
      BY <1>4
    <3>2. gone[q] = 2 * q.text + q.word /\ gone[s] = 2 * s.text + s.word
      BY <3>1
    <3>3. q.text \in Int /\ q.word \in Int
      BY DEF Searching
    <3>4. /\ SearchEnds(text, q) => s = q
          /\ ~SearchEnds(text, q) => SearchEnds(text, s) \/ 2 * s.text + s.word > 2 * q.text + q.word
      BY <1>2, SearchRoundKeeps
    <3>5. \A x \in S : x \in Halted <=> SearchEnds(text, x)
      OBVIOUS
    <3> HIDE DEF S, Halted, gone, s, F
    <3> QED
      BY <3>1, <3>2, <3>3, <3>4, <3>5
  <2>2. g[0] \in S /\ \A k \in 1..N : g[k - 1] \in S => g[k] = F[g[k - 1]]
    BY <1>3, <1>4, <1>8, <1>9
  <2> HIDE DEF S, F, Halted, gone, N
  <2>3. IsLoop(g, F, S, Halted, gone, N)
    BY <1>1, <2>1, <2>2 DEF IsLoop
  <2> QED
    BY <2>3, LoopGetsOn
<1>11. SearchEnds(text, r)
  <2>1. gone[g[0]] = 0 /\ gone[r] = 2 * r.text + r.word
    <3>1. g[0] \in S /\ g[0].text = 0 /\ g[0].word = 0
      BY <1>3, <1>8 DEF SearchStart
    <3> QED
      BY <1>10, <3>1
  <2>2. r.text \in Nat /\ r.word \in Nat
    BY <1>10 DEF Searching
  <2>3. SearchEnds(text, r) \/ 2 * r.text + r.word >= N
    BY <1>1, <1>10, <2>1
  <2>4. 2 * r.text + r.word >= N => r.text + r.word >= n
    <3> HIDE DEF r, n
    <3> QED
      BY <1>1, <2>2 DEF N
  <2> QED
    BY <2>3, <2>4 DEF SearchEnds
<1>12. SearchEnd(text, word) = r
  BY DEF SearchEnd, g
<1> HIDE DEF r, S
<1> QED
  BY <1>10, <1>11, <1>12 DEF S

\* read_line_op::find_eol() (src/epoll_file.cpp) finds, in every text, where the
\* word first starts, or else the most of the word that the text ends with.
THEOREM FindEolIsRight ==
  ASSUME NEW text \in Seq(Nat), NEW word \in Seq(Nat), Len(word) >= 2
  PROVE  LET f == FindEol(text, word) IN
         \/ /\ f.at \in 0..Len(text) - Len(word) /\ Agrees(text, f.at, word, Len(word))
            /\ f.at < Len(text) /\ \A i \in 0..f.at - 1 : Refuted(text, word, i)
         \/ /\ f.at = Len(text) /\ f.partial \in 0..Len(word) - 1 /\ f.partial =< Len(text)
            /\ Agrees(text, Len(text) - f.partial, word, f.partial)
            /\ \A i \in 0..Len(text) - f.partial - 1 : Refuted(text, word, i)
<1> DEFINE f == FindEol(text, word)
           r == SearchEnd(text, word)
           n == Len(text)
           m == Len(word)
<1>1. f.at = r.found /\ (r.found = n => f.partial = r.word)
  BY FindEolIsSearched
<1>2. r \in Searching(text, word) /\ SearchEnds(text, r)
  BY SearchIsRight
<1> HIDE DEF f, r, n, m
<1>3. /\ r.text \in 0..n /\ r.word \in 0..m - 1 /\ r.found \in 0..n /\ n \in Nat /\ m \in Nat
      /\ m >= 1 /\ Len(text) = n /\ Len(word) = m
      /\ r.text + r.word =< n /\ (r.text + r.word >= n \/ r.found < n)
  BY <1>2, SMTT(30) DEF Searching, SearchEnds, n, m
<1>4. /\ Agrees(text, r.text, word, r.word) /\ \A i \in 0..r.text - 1 : Refuted(text, word, i)
      /\ r.found < n => r.found = r.text /\ r.found + m =< n /\ Agrees(text, r.found, word, m)
  BY <1>2 DEF Searching, n, m
<1>5. CASE r.found < n
  <2>1. r.found \in 0..n - m
    BY <1>3, <1>4, <1>5
  <2> QED
    BY <1>1, <1>3, <1>4, <1>5, <2>1 DEF f
<1>6. CASE ~(r.found < n)
  <2>1. r.found = n
    BY <1>3, <1>6
  <2>4. r.text + r.word =< n /\ r.text + r.word >= n /\ r.text \in Int /\ r.word \in Int
        /\ r.text >= 0 /\ n \in Int
    BY <1>3, <1>6
  <2>5. r.text = n - r.word /\ r.word =< n
    <3>1. ASSUME NEW a \in Int, NEW b \in Int, NEW k \in Int, a + b =< k, a + b >= k, a >= 0
          PROVE  a = k - b /\ b =< k
      BY <3>1
    <3> QED
      BY <2>4, <3>1
  <2>2. Agrees(text, n - r.word, word, r.word)
    BY <1>4, <2>5
  <2>3. \A i \in 0..n - r.word - 1 : Refuted(text, word, i)
    BY <1>4, <2>5
  <2> QED
    BY <1>1, <1>3, <2>1, <2>2, <2>3, <2>5 DEF f
<1> QED
  BY <1>5, <1>6

-----------------------------------------------------------------------------
(* What a round has transferred *)

Transfers == {"line", "read", "write"}
Codes == {"ok", "failed"}
Places == {"idle", "claimed", "push", "queued", "working", "done"}

Typed ==
  /\ program \in Programs /\ pos \in [Clients -> Nat] /\ DOMAIN last = Clients
  /\ op \in [Clients -> [at : Places, got : Nat, remain : Nat, count : Nat, ec : Codes, from : Nat]]

\* Where the round started: behind the bytes of the finished rounds.
Base(c) == op[c].from + op[c].got
Finished(c) == op[c].at = "done" /\ op[c].ec = "ok"

\* The finished rounds of a line reader end with a chunk that neither holds a
\* line end nor ends in the start of one.
Round(c) ==
  /\ op[c].remain >= 1 /\ op[c].got + op[c].remain = program.room
  /\ pos[c] = Base(c) + (IF Finished(c) THEN op[c].count ELSE 0)
  /\ Kind(c) \in {"line", "read"} => Base(c) =< Len(program.text)
  /\ Kind(c) \in {"read", "write"} => op[c].from = 0
  /\ Kind(c) = "line" => op[c].got % Chunk = 0 /\ \A j \in op[c].from..Base(c) - 1 : ~EolAt(j)
  /\ Finished(c) => IF Kind(c) = "write" THEN op[c].count \in 1..Asked(c)
                    ELSE op[c].count = Least(Asked(c), Len(program.text) - Base(c))

Rounds ==
  \A c \in Clients : /\ ~At(c, "idle") /\ Kind(c) \in Transfers => Round(c)
                     /\ Kind(c) = "line" => pos[c] =< Len(program.text)
                     /\ Kind(c) = "none" => At(c, "idle")

TransferInv == Typed /\ Rounds /\ ToldIsTrue

\* What is left of a multiple.
LEMMA Multiple ==
  ASSUME NEW b \in Nat, b > 0, NEW a \in Nat, NEW q \in Nat, NEW r \in 0..b - 1, a = b * q + r
  PROVE  a % b = r
OBVIOUS

\* A multiple of the chunk and one chunk more.
LEMMA ChunkMore ==
  ASSUME NEW a \in Nat, NEW b \in Nat, b > 0, a % b = 0
  PROVE  (a + b) % b = 0
<1>1. PICK q \in Nat : a = b * q
  OBVIOUS
<1> DEFINE s == a + b
           p == q + 1
<1>2. s = b * p + 0 /\ p \in Nat /\ 0 \in 0..b - 1 /\ s \in Nat
  BY <1>1
<1> HIDE DEF s, p
<1>3. s % b = 0
  BY <1>2, Multiple
<1> QED
  BY <1>3 DEF s

\* Nothing is a multiple of everything.
LEMMA ChunkNone ==
  ASSUME NEW b \in Nat \ {0}
  PROVE  0 % b = 0
<1>1. 0 = b * 0 + 0 /\ b \in Nat /\ b > 0 /\ 0 \in Nat /\ 0 \in 0..b - 1
  OBVIOUS
<1> QED
  BY <1>1, Multiple

\* The programs are what they are assumed to be.
LEMMA ProgramFacts ==
  ASSUME Typed
  PROVE  /\ program.text \in Seq(Nat) /\ program.eol \in Seq(Nat) /\ Len(program.eol) >= 2
         /\ Len(program.text) \in Nat /\ Len(program.eol) \in Nat
         /\ program.room \in Nat /\ program.room >= 1 /\ Chunk \in Nat /\ Chunk >= 1
         /\ program.kind \in [Clients -> Kinds]
<1>1. /\ program.text \in Seq(Nat) /\ program.eol \in Seq(Nat) /\ Len(program.eol) >= 2
      /\ program.room \in Nat \ {0} /\ program.kind \in [Clients -> Kinds]
  BY ProgramsAssumption DEF Typed
<1> QED
  BY <1>1, ChunkAssumption

\* A part of a text.
LEMMA Part ==
  ASSUME NEW text \in Seq(Nat), NEW i \in Nat, NEW k \in Nat, i + k =< Len(text)
  PROVE  /\ SubSeq(text, i + 1, i + k) \in Seq(Nat) /\ Len(SubSeq(text, i + 1, i + k)) = k
         /\ \A j \in 1..k : SubSeq(text, i + 1, i + k)[j] = text[i + j]
<1> DEFINE part == SubSeq(text, i + 1, i + k)
<1>1. part \in Seq(Nat)
  OBVIOUS
<1>2. Len(part) = k
  OBVIOUS
<1>3. ASSUME NEW j \in 1..k PROVE part[j] = text[i + j]
  <2> DEFINE a == i + 1
             b == i + k
  <2>1. a \in Nat \ {0} /\ b \in Nat /\ b =< Len(text) /\ j \in 1..b - a + 1 /\ j + a - 1 = i + j
    OBVIOUS
  <2> HIDE DEF a, b
  <2>2. SubSeq(text, a, b)[j] = text[j + a - 1]
    BY <2>1
  <2> QED
    BY <2>1, <2>2 DEF a, b
<1> QED
  BY <1>1, <1>2, <1>3

\* Two texts of a length with the same bytes.
LEMMA SameText ==
  ASSUME NEW s \in Seq(Nat), NEW t \in Seq(Nat), Len(s) = Len(t), \A j \in 1..Len(s) : s[j] = t[j]
  PROVE  s = t
OBVIOUS

\* A line end is where all its bytes are.
LEMMA EolBytes ==
  ASSUME Typed, NEW i \in Nat
  PROVE  EolAt(i) <=> /\ i + Len(program.eol) =< Len(program.text)
                      /\ Agrees(program.text, i, program.eol, Len(program.eol))
<1> DEFINE part == SubSeq(program.text, i + 1, i + Len(program.eol))
<1>1. CASE ~(i + Len(program.eol) =< Len(program.text))
  BY <1>1 DEF EolAt
<1>2. CASE i + Len(program.eol) =< Len(program.text)
  <2>1. /\ part \in Seq(Nat) /\ Len(part) = Len(program.eol)
        /\ \A j \in 1..Len(program.eol) : part[j] = program.text[i + j]
    BY <1>2, ProgramFacts, Part
  <2>2. part = program.eol <=> \A j \in 1..Len(program.eol) : part[j] = program.eol[j]
    <3> HIDE DEF part
    <3> QED
      BY <2>1, ProgramFacts, SameText
  <2>3. EolAt(i) <=> part = program.eol
    BY <1>2 DEF EolAt
  <2> HIDE DEF part
  <2> QED
    BY <1>2, <2>1, <2>2, <2>3 DEF Agrees
<1> QED
  BY <1>1, <1>2

\* Likewise for the start of a line end.
LEMMA PartialBytes ==
  ASSUME Typed, NEW i \in Nat, NEW k \in 1..Len(program.eol) - 1, i + k =< Len(program.text),
         Agrees(program.text, i, program.eol, k)
  PROVE  k \in Partial(i)
<1> DEFINE part == SubSeq(program.text, i + 1, i + k)
           start == SubSeq(program.eol, 0 + 1, 0 + k)
<1>1. k \in Nat /\ 0 \in Nat /\ 0 + k =< Len(program.eol)
  BY ProgramFacts
<1>2. /\ part \in Seq(Nat) /\ Len(part) = k
      /\ \A j \in 1..k : part[j] = program.text[i + j]
  BY <1>1, ProgramFacts, Part
<1>3. /\ start \in Seq(Nat) /\ Len(start) = k
      /\ \A j \in 1..k : start[j] = program.eol[0 + j]
  <2> HIDE DEF start
  <2> QED
    BY <1>1, ProgramFacts, Part DEF start
<1>4. start = SubSeq(program.eol, 1, k)
  BY <1>1
<1> HIDE DEF part, start
<1>5. ASSUME NEW j \in 1..k PROVE part[j] = start[j]
  <2>1. part[j] = program.text[i + j] /\ start[j] = program.eol[0 + j] /\ 0 + j = j
    BY <1>2, <1>3
  <2>2. program.text[i + j] = program.eol[j]
    BY DEF Agrees
  <2> QED
    BY <2>1, <2>2
<1>6. part = start
  BY <1>2, <1>3, <1>5, SameText
<1> QED
  BY <1>4, <1>6 DEF Partial, part

\* What find_eol() found in the bytes of a round, in terms of the file.
LEMMA ChunkSearched ==
  ASSUME Typed, NEW base \in Nat, NEW count \in Nat, base + count =< Len(program.text)
  PROVE  LET f == FindEol(SubSeq(program.text, base + 1, base + count), program.eol) IN
         \/ /\ f.at \in Nat /\ f.at < count /\ EolAt(base + f.at)
            /\ f.at + Len(program.eol) =< count
            /\ \A j \in base..base + f.at - 1 : ~EolAt(j)
         \/ /\ f.at = count /\ f.partial \in 0..Len(program.eol) - 1 /\ f.partial =< count
            /\ f.partial > 0 => f.partial \in Partial(base + count - f.partial)
            /\ \A j \in base..base + count - f.partial - 1 : ~EolAt(j)
<1> DEFINE chunk == SubSeq(program.text, base + 1, base + count)
           f == FindEol(chunk, program.eol)
           m == Len(program.eol)
<1>1. /\ chunk \in Seq(Nat) /\ Len(chunk) = count
      /\ \A j \in 1..count : chunk[j] = program.text[base + j]
  BY ProgramFacts, Part
<1>2. m \in Nat /\ m >= 1 /\ Len(program.text) \in Nat
  BY ProgramFacts
<1> HIDE DEF chunk, m
<1>3. ASSUME NEW i \in 0..count, NEW k \in Nat, i + k =< count, Agrees(chunk, i, program.eol, k)
      PROVE  Agrees(program.text, base + i, program.eol, k)
  <2>1. ASSUME NEW j \in 1..k PROVE program.text[(base + i) + j] = program.eol[j]
    <3>1. i + j \in 1..count /\ base + (i + j) = (base + i) + j
      BY <1>3
    <3>2. chunk[i + j] = program.text[(base + i) + j]
      BY <1>1, <3>1
    <3> QED
      BY <1>3, <3>2 DEF Agrees
  <2> QED
    BY <2>1 DEF Agrees
<1>4. ASSUME NEW j \in Nat, j >= base, Refuted(chunk, program.eol, j - base) PROVE ~EolAt(j)
  <2>1. PICK k \in 1..m : j - base + k =< count /\ chunk[j - base + k] # program.eol[k]
    BY <1>1, <1>4 DEF Refuted, m
  <2>2. j - base + k \in 1..count /\ base + (j - base + k) = j + k
    BY <1>2, <1>4, <2>1
  <2>3. program.text[j + k] # program.eol[k]
    BY <1>1, <2>1, <2>2
  <2> QED
    BY <2>1, <2>3, EolBytes DEF Agrees, m
<1>5. \/ /\ f.at \in 0..count - m /\ Agrees(chunk, f.at, program.eol, m)
         /\ f.at < count /\ \A i \in 0..f.at - 1 : Refuted(chunk, program.eol, i)
      \/ /\ f.at = count /\ f.partial \in 0..m - 1 /\ f.partial =< count
         /\ Agrees(chunk, count - f.partial, program.eol, f.partial)
         /\ \A i \in 0..count - f.partial - 1 : Refuted(chunk, program.eol, i)
  BY <1>1, ProgramFacts, FindEolIsRight DEF m
<1> HIDE DEF f
<1>6. CASE /\ f.at \in 0..count - m /\ Agrees(chunk, f.at, program.eol, m)
           /\ f.at < count /\ \A i \in 0..f.at - 1 : Refuted(chunk, program.eol, i)
  <2>1. f.at \in Nat /\ f.at \in 0..count /\ f.at + m =< count
    BY <1>2, <1>6
  <2>2. EolAt(base + f.at)
    <3>1. Agrees(program.text, base + f.at, program.eol, m)
      BY <1>2, <1>3, <1>6, <2>1
    <3>2. base + f.at \in Nat /\ base + f.at + m =< Len(program.text)
      BY <1>2, <2>1
    <3> QED
      BY <3>1, <3>2, EolBytes DEF m
  <2>3. ASSUME NEW j \in base..base + f.at - 1 PROVE ~EolAt(j)
    <3>1. j \in Nat /\ j >= base /\ j - base \in 0..f.at - 1
      BY <2>1
    <3> QED
      BY <1>4, <1>6, <3>1
  <2> QED
    BY <1>6, <2>1, <2>2, <2>3 DEF f, chunk, m
<1>7. CASE /\ f.at = count /\ f.partial \in 0..m - 1 /\ f.partial =< count
           /\ Agrees(chunk, count - f.partial, program.eol, f.partial)
           /\ \A i \in 0..count - f.partial - 1 : Refuted(chunk, program.eol, i)
  <2> DEFINE k == f.partial
  <2>1. k \in Nat /\ count - k \in 0..count /\ base + count - k \in Nat
        /\ base + (count - k) = base + count - k /\ (base + count - k) + k =< Len(program.text)
        /\ (count - k) + k =< count
    BY <1>2, <1>7, SMTT(30)
  <2>2. k > 0 => k \in Partial(base + count - k)
    <3> SUFFICES ASSUME k > 0 PROVE k \in Partial(base + count - k)
      OBVIOUS
    <3>1. Agrees(program.text, base + count - k, program.eol, k)
      BY <1>3, <1>7, <2>1
    <3>2. k \in 1..Len(program.eol) - 1
      BY <1>2, <1>7, <2>1 DEF m
    <3> HIDE DEF k
    <3> QED
      BY <2>1, <3>1, <3>2, PartialBytes
  <2>3. ASSUME NEW j \in base..base + count - k - 1 PROVE ~EolAt(j)
    <3>1. j \in Nat /\ j >= base /\ j - base \in 0..count - k - 1
      BY <2>1, SMTT(30)
    <3> QED
      BY <1>4, <1>7, <3>1
  <2> QED
    BY <1>7, <2>2, <2>3 DEF f, chunk, m
<1> QED
  BY <1>5, <1>6, <1>7

\* A step of one client leaves what is known of the others.
LEMMA OneMoves ==
  ASSUME TransferInv, Typed', NEW c \in Clients, program' = program,
         \A d \in Clients \ {c} : op'[d] = op[d] /\ pos'[d] = pos[d] /\ last'[d] = last[d],
         ~At(c, "idle")' /\ Kind(c) \in Transfers => Round(c)',
         Kind(c) = "line" => pos'[c] =< Len(program.text) /\ LineTold(last'[c]),
         Kind(c) = "none" => At(c, "idle")',
         TransferTold(c, last'[c])
  PROVE  TransferInv'
<1>1. /\ \A i : EolAt(i)' <=> EolAt(i)
      /\ \A d \in Clients : Kind(d)' = Kind(d)
  BY DEF EolAt, Kind
<1>2. ASSUME NEW d \in Clients
      PROVE  /\ ~At(d, "idle")' /\ Kind(d)' \in Transfers => Round(d)'
             /\ Kind(d)' = "line" => pos'[d] =< Len(program'.text)
             /\ Kind(d)' = "none" => At(d, "idle")'
  <2>1. CASE d = c
    BY <1>1, <2>1
  <2>2. CASE d # c
    <3>1. op'[d] = op[d] /\ pos'[d] = pos[d]
      BY <2>2
    <3>2. Round(d)' <=> Round(d)
      BY <1>1, <3>1 DEF Round, Base, Finished, Asked
    <3>3. At(d, "idle")' <=> At(d, "idle")
      BY <3>1 DEF At
    <3> QED
      BY <1>1, <3>1, <3>2, <3>3 DEF TransferInv, Rounds
  <2> QED
    BY <2>1, <2>2
<1>3. ASSUME NEW d \in Clients
      PROVE  /\ Kind(d) = "line" => LineTold(last'[d])
             /\ TransferTold(d, last'[d])
  <2>1. CASE d = c
    BY <2>1
  <2>2. CASE d # c
    BY <2>2 DEF TransferInv, ToldIsTrue
  <2> QED
    BY <2>1, <2>2
<1>4. ASSUME NEW d \in Clients
      PROVE  /\ LineTold(last[d])' <=> LineTold(last'[d])
             /\ TransferTold(d, last[d])' <=> TransferTold(d, last'[d])
  BY <1>1 DEF LineTold, TransferTold, Partial, EolAt, Kind
<1>5. Rounds'
  BY <1>2 DEF Rounds
<1>6. ToldIsTrue'
  BY <1>1, <1>3, <1>4 DEF ToldIsTrue
<1> QED
  BY <1>5, <1>6 DEF TransferInv

\* On its way to the thread an operation only changes its place.
LEMMA PlaceMoves ==
  ASSUME TransferInv, NEW c \in Clients, NEW place \in {"push", "queued", "working"},
         op[c].at \notin {"idle", "done"}, op' = [op EXCEPT ![c].at = place],
         UNCHANGED <<program, pos, last>>
  PROVE  TransferInv'
<1>1. Typed' /\ op'[c] = [op[c] EXCEPT !.at = place]
  BY DEF TransferInv, Typed, Places
<1>2. \A d \in Clients \ {c} : op'[d] = op[d] /\ pos'[d] = pos[d] /\ last'[d] = last[d]
  BY DEF TransferInv, Typed
<1>3. ~At(c, "idle")' /\ Kind(c) \in Transfers => Round(c)'
  <2>1. Kind(c) \in Transfers => Round(c)
    BY DEF TransferInv, Rounds, At
  <2>2. /\ op'[c].got = op[c].got /\ op'[c].remain = op[c].remain /\ op'[c].from = op[c].from
        /\ op'[c].at = place
    BY <1>1 DEF TransferInv, Typed
  <2>3. ~Finished(c) /\ ~Finished(c)'
    BY <2>2 DEF Finished
  <2>4. /\ Base(c)' = Base(c) /\ Kind(c)' = Kind(c) /\ pos'[c] = pos[c]
        /\ \A i : EolAt(i)' <=> EolAt(i)
    BY <2>2 DEF Base, Kind, EolAt
  <2> QED
    BY <2>1, <2>2, <2>3, <2>4 DEF Round
<1>4. /\ Kind(c) = "line" => pos'[c] =< Len(program.text) /\ LineTold(last'[c])
      /\ TransferTold(c, last'[c]) /\ Kind(c) # "none"
  BY DEF TransferInv, Rounds, ToldIsTrue, At
<1> QED
  BY <1>1, <1>2, <1>3, <1>4, OneMoves

\* So does a step that has to do with none of this.
LEMMA TransfersStay ==
  ASSUME TransferInv, UNCHANGED <<program, op, pos, last>>
  PROVE  TransferInv'
<1>1. program' = program /\ op' = op /\ pos' = pos /\ last' = last
  OBVIOUS
<1>2. Typed'
  BY <1>1 DEF TransferInv, Typed
<1>3. Rounds'
  BY <1>1 DEF TransferInv, Rounds, Kind, At, Round, Base, Finished, Asked, EolAt
<1>4. ToldIsTrue'
  BY <1>1, ZenonT(40) DEF TransferInv, ToldIsTrue, LineTold, TransferTold, Partial, EolAt, Kind
<1> QED
  BY <1>2, <1>3, <1>4 DEF TransferInv

\* Every file starts at its beginning, and nothing was told.
LEMMA TransferInit == ASSUME Init PROVE TransferInv
<1>1. Typed
  BY DEF Init, Typed, IdleOp, Places, Codes
<1>2. Rounds
  <2>1. \A c \in Clients : At(c, "idle") /\ pos[c] = 0
    BY DEF Init, At, IdleOp
  <2> QED
    BY <1>1, <2>1, ProgramFacts DEF Rounds
<1>3. ASSUME NEW c \in Clients PROVE LineTold(last[c]) /\ TransferTold(c, last[c])
  <2>1. last[c].ec = "none"
    BY DEF Init, NotYet
  <2> QED
    BY <2>1 DEF LineTold, TransferTold
<1> QED
  BY <1>1, <1>2, <1>3 DEF TransferInv, ToldIsTrue

\* A call starts at the beginning, or a line reader's where the file stands.
LEMMA CallTransfers ==
  ASSUME TransferInv, NEW c \in Clients, Call(c)
  PROVE  TransferInv'
<1>0. PICK start \in (IF Kind(c) = "line" THEN {0, pos[c]} ELSE {0}) :
        /\ BeginRound(c, [IdleOp EXCEPT !.remain = program.room, !.from = start])
        /\ pos' = [pos EXCEPT ![c] = start]
  BY DEF Call
<1> DEFINE place == IF initialized = 0 THEN "claimed" ELSE "push"
           o == [IdleOp EXCEPT !.remain = program.room, !.from = start]
<1>1. /\ op' = [op EXCEPT ![c] = [o EXCEPT !.at = place]] /\ pos' = [pos EXCEPT ![c] = start]
      /\ UNCHANGED <<program, last>>
  BY <1>0 DEF Call, BeginRound
<1>2. Typed
  BY DEF TransferInv
<1>3. start \in Nat /\ (Kind(c) = "line" => start =< Len(program.text))
      /\ (Kind(c) # "line" => start = 0)
  BY <1>2, ProgramFacts DEF Typed, TransferInv, Rounds
<1>4. place \in Places /\ place \notin {"idle", "done"}
  BY DEF Places
<1>5. o = [at |-> "idle", got |-> 0, remain |-> program.room, count |-> 0, ec |-> "ok",
           from |-> start]
  <2> DEFINE asked == [IdleOp EXCEPT !.remain = program.room]
  <2>1. asked = [at |-> "idle", got |-> 0, remain |-> program.room, count |-> 0, ec |-> "ok",
                 from |-> 0]
    BY DEF IdleOp
  <2>2. o = [asked EXCEPT !.from = start]
    OBVIOUS
  <2> HIDE DEF asked, o
  <2> QED
    BY <2>1, <2>2
<1> HIDE DEF o, place
<1>6. [o EXCEPT !.at = place] = [at |-> place, got |-> 0, remain |-> program.room, count |-> 0,
                                 ec |-> "ok", from |-> start]
  BY <1>5
<1>7. op'[c] = [at |-> place, got |-> 0, remain |-> program.room, count |-> 0,
                ec |-> "ok", from |-> start] /\ pos'[c] = start
  BY <1>1, <1>2, <1>6 DEF Typed
<1>8. Typed'
  <2>1. [at |-> place, got |-> 0, remain |-> program.room, count |-> 0, ec |-> "ok",
         from |-> start]
          \in [at : Places, got : Nat, remain : Nat, count : Nat, ec : Codes, from : Nat]
    BY <1>2, <1>3, <1>4, ProgramFacts DEF Codes
  <2> QED
    BY <1>1, <1>2, <1>3, <1>6, <2>1 DEF Typed
<1>9. \A d \in Clients \ {c} : op'[d] = op[d] /\ pos'[d] = pos[d] /\ last'[d] = last[d]
  BY <1>1, <1>2 DEF Typed
<1>10. Round(c)'
  <2>1. ~Finished(c)'
    BY <1>4, <1>7 DEF Finished
  <2>2. Base(c)' = start /\ program'.room = program.room /\ Kind(c)' = Kind(c)
        /\ 0 % Chunk = 0 /\ start..start - 1 = {}
    BY <1>1, <1>3, <1>7, ChunkAssumption, ChunkNone DEF Base, Kind
  <2>3. op'[c].got = 0 /\ op'[c].remain = program.room /\ op'[c].from = start /\ start + 0 = start
    BY <1>3, <1>7
  <2>4. 0 + program.room = program.room /\ program.room >= 1
    BY <1>2, ProgramFacts
  <2> QED
    BY <1>1, <1>3, <1>7, <2>1, <2>2, <2>3, <2>4 DEF Round
<1>11. /\ Kind(c) = "line" => pos'[c] =< Len(program.text) /\ LineTold(last'[c])
       /\ TransferTold(c, last'[c]) /\ Kind(c) # "none"
  BY <1>1, <1>3, <1>7 DEF TransferInv, ToldIsTrue, Call
<1> QED
  BY <1>1, <1>8, <1>9, <1>10, <1>11, OneMoves

\* The blocking call moves the position by what it transfers.
LEMMA WorkTransfers ==
  ASSUME FileInv, TransferInv, Work
  PROVE  TransferInv'
<1>1. PICK c \in Clients : c = worker.entry /\ At(c, "working")
  BY DEF Work, FileInv, Stations
<1> DEFINE base == Base(c)
<1>2. UNCHANGED <<program, last>>
  BY DEF Work
<1>3. /\ Typed
      /\ op[c] \in [at : Places, got : Nat, remain : Nat, count : Nat, ec : Codes, from : Nat]
      /\ pos[c] \in Nat /\ op[c].at = "working"
  BY <1>1 DEF TransferInv, Typed, At
<1>4. Kind(c) \in Transfers => Round(c)
  BY <1>1 DEF TransferInv, Rounds, At
<1>5. /\ base \in Nat /\ Asked(c) \in Nat
      /\ Kind(c) \in Transfers => pos[c] = base /\ Asked(c) >= 1
  <2>1. Chunk \in Nat /\ Chunk >= 1
    BY ChunkAssumption
  <2>2. base \in Nat /\ Asked(c) \in Nat
    BY <1>3, <2>1 DEF Base, Asked, Least
  <2>3. Kind(c) \in Transfers => op[c].remain >= 1 /\ pos[c] = base + 0
    BY <1>3, <1>4 DEF Round, Finished
  <2> QED
    BY <1>3, <2>1, <2>2, <2>3 DEF Asked, Least
<1>6. \A i : EolAt(i)' <=> EolAt(i)
  BY <1>2 DEF EolAt
<1>7. ASSUME NEW n \in Nat, NEW ec \in Codes, NEW p \in Nat,
             op' = [op EXCEPT ![c] = [op[c] EXCEPT !.at = "done", !.count = n, !.ec = ec]],
             pos' = [pos EXCEPT ![c] = p],
             Kind(c) \in Transfers =>
               /\ p = base + (IF ec = "ok" THEN n ELSE 0)
               /\ ec = "ok" => IF Kind(c) = "write" THEN n \in 1..Asked(c)
                               ELSE n = Least(Asked(c), Len(program.text) - base),
             Kind(c) = "line" => p =< Len(program.text)
      PROVE  TransferInv'
  <2> DEFINE o == [op[c] EXCEPT !.at = "done", !.count = n, !.ec = ec]
  <2>1. o \in [at : Places, got : Nat, remain : Nat, count : Nat, ec : Codes, from : Nat]
    <3> DEFINE o1 == [op[c] EXCEPT !.at = "done"]
               o2 == [o1 EXCEPT !.count = n]
    <3>1. o = [o2 EXCEPT !.ec = ec]
      OBVIOUS
    <3>2. o1 \in [at : Places, got : Nat, remain : Nat, count : Nat, ec : Codes, from : Nat]
      BY <1>3 DEF Places
    <3> HIDE DEF o1, o
    <3>3. o2 \in [at : Places, got : Nat, remain : Nat, count : Nat, ec : Codes, from : Nat]
      BY <3>2
    <3> HIDE DEF o2
    <3> QED
      BY <3>1, <3>3
  <2>2. /\ o.at = "done" /\ o.count = n /\ o.ec = ec /\ o.got = op[c].got
        /\ o.remain = op[c].remain /\ o.from = op[c].from
    BY <1>3
  <2>3. op' = [op EXCEPT ![c] = o]
    BY <1>7
  <2> HIDE DEF o
  <2>4. Typed' /\ op'[c] = o /\ pos'[c] = p
    <3>1. pos' \in [Clients -> Nat] /\ pos'[c] = p
      BY <1>3, <1>7 DEF Typed
    <3>2. /\ op' \in [Clients -> [at : Places, got : Nat, remain : Nat, count : Nat,
                                  ec : Codes, from : Nat]]
          /\ op'[c] = o
      BY <1>3, <2>1, <2>3 DEF Typed
    <3> QED
      BY <1>2, <1>3, <3>1, <3>2 DEF Typed
  <2>5. \A d \in Clients \ {c} : op'[d] = op[d] /\ pos'[d] = pos[d] /\ last'[d] = last[d]
    BY <1>2, <1>3, <1>7, <2>3 DEF Typed
  <2>6. ASSUME Kind(c) \in Transfers PROVE Round(c)'
    <3>1. /\ Base(c)' = base /\ Asked(c)' = Asked(c) /\ Kind(c)' = Kind(c)
          /\ Finished(c)' <=> ec = "ok"
      BY <1>2, <2>2, <2>4 DEF Base, Asked, Kind, Finished
    <3>2. pos'[c] = Base(c)' + (IF Finished(c)' THEN op'[c].count ELSE 0)
      BY <1>7, <2>2, <2>4, <2>6, <3>1
    <3>3. /\ op'[c].remain >= 1 /\ op'[c].got + op'[c].remain = program'.room
          /\ Kind(c) \in {"line", "read"} => base =< Len(program'.text)
          /\ Kind(c) \in {"read", "write"} => op'[c].from = 0
      BY <1>2, <1>4, <2>2, <2>4, <2>6 DEF Round
    <3>4. Kind(c) = "line" =>
            op'[c].got % Chunk = 0 /\ \A j \in op'[c].from..base - 1 : ~EolAt(j)
      BY <1>4, <2>2, <2>4, <2>6 DEF Round
    <3>5. Finished(c)' => IF Kind(c) = "write" THEN op'[c].count \in 1..Asked(c)
                          ELSE op'[c].count = Least(Asked(c), Len(program'.text) - base)
      BY <1>2, <1>7, <2>2, <2>4, <2>6, <3>1
    <3>6. Kind(c) = "line" =>
            op'[c].got % Chunk = 0 /\ \A j \in op'[c].from..base - 1 : EolAt(j)' <=> FALSE
      BY <1>6, <3>4
    <3> HIDE DEF base
    <3> QED
      BY <3>1, <3>2, <3>3, <3>5, <3>6 DEF Round
  <2>7. /\ Kind(c) = "line" => pos'[c] =< Len(program.text) /\ LineTold(last'[c])
        /\ TransferTold(c, last'[c]) /\ Kind(c) # "none"
    BY <1>1, <1>2, <1>7, <2>4 DEF TransferInv, ToldIsTrue, Rounds, At
  <2> QED
    BY <1>1, <1>2, <2>4, <2>5, <2>6, <2>7, OneMoves
<1>8. CASE \E n \in Transfer(c) :
             /\ op' = [op EXCEPT ![c].at = "done", ![c].count = n, ![c].ec = "ok"]
             /\ pos' = [pos EXCEPT ![c] = @ + n]
  <2>1. PICK n \in Transfer(c) :
          /\ op' = [op EXCEPT ![c].at = "done", ![c].count = n, ![c].ec = "ok"]
          /\ pos' = [pos EXCEPT ![c] = @ + n]
    BY <1>8
  <2>2. op' = [op EXCEPT ![c] = [op[c] EXCEPT !.at = "done", !.count = n, !.ec = "ok"]]
    BY <1>1, <1>3, <2>1 DEF Typed
  <2>3. pos' = [pos EXCEPT ![c] = pos[c] + n]
    BY <2>1
  <2>4. Kind(c) \in Kinds
    BY <1>1, <1>3, ProgramFacts DEF Kind
  <2>5. CASE Kind(c) \in {"line", "read"}
    <3>1. n = Least(Asked(c), Len(program.text) - pos[c])
      BY <2>1, <2>5 DEF Transfer, DoRead
    <3>2. base =< Len(program.text) /\ pos[c] = base /\ Len(program.text) \in Nat
      BY <1>3, <1>4, <1>5, <2>5, ProgramFacts DEF Round, Transfers
    <3>3. n \in Nat /\ pos[c] + n =< Len(program.text)
      BY <1>5, <3>1, <3>2 DEF Least
    <3>4. pos[c] + n \in Nat /\ "ok" \in Codes /\ Kind(c) # "write"
      BY <1>3, <2>5, <3>3 DEF Codes
    <3> HIDE DEF base
    <3> QED
      BY <1>7, <2>2, <2>3, <3>1, <3>2, <3>3, <3>4
  <2>6. CASE Kind(c) = "write"
    <3>1. n \in 1..Asked(c) /\ pos[c] = base
      BY <1>5, <2>1, <2>6 DEF Transfer, DoWrite, Transfers
    <3>2. n \in Nat /\ pos[c] + n \in Nat /\ "ok" \in Codes
      BY <1>3, <1>5, <3>1 DEF Codes
    <3> HIDE DEF base
    <3> QED
      BY <1>7, <2>2, <2>3, <2>6, <3>1, <3>2
  <2>7. CASE Kind(c) = "name"
    <3>1. n = 0
      BY <2>1, <2>7 DEF Transfer
    <3>2. pos[c] + n \in Nat /\ "ok" \in Codes /\ Kind(c) \notin Transfers
      BY <1>3, <2>7, <3>1 DEF Codes, Transfers
    <3> HIDE DEF base
    <3> QED
      BY <1>7, <2>2, <2>3, <2>7, <3>1, <3>2
  <2>8. CASE Kind(c) = "none"
    <3>1. FALSE
      BY <1>1, <1>3, <2>8 DEF TransferInv, Rounds, At
    <3> QED
      BY <3>1
  <2> QED
    BY <2>4, <2>5, <2>6, <2>7, <2>8 DEF Kinds
<1>9. CASE /\ op' = [op EXCEPT ![c].at = "done", ![c].count = Asked(c), ![c].ec = "failed"]
           /\ UNCHANGED pos
  <2>1. op' = [op EXCEPT ![c] = [op[c] EXCEPT !.at = "done", !.count = Asked(c), !.ec = "failed"]]
    BY <1>1, <1>3, <1>9 DEF Typed
  <2>2. pos' = [pos EXCEPT ![c] = pos[c]]
    BY <1>1, <1>3, <1>9 DEF Typed
  <2>3. Kind(c) = "line" => pos[c] =< Len(program.text)
    BY <1>1 DEF TransferInv, Rounds
  <2>4. Kind(c) \in Transfers => pos[c] = base + 0
    BY <1>5
  <2>5. "failed" \in Codes
    BY DEF Codes
  <2> HIDE DEF base
  <2> QED
    BY <1>3, <1>5, <1>7, <2>1, <2>2, <2>3, <2>4, <2>5
<1> QED
  BY <1>1, <1>8, <1>9 DEF Work

-----------------------------------------------------------------------------
(* What the callbacks are told *)

\* What CallBack() records.
Told(c, ec, len) == [ec |-> ec, len |-> len, from |-> op[c].from, to |-> pos'[c]]

\* A callback tells what the rounds came to.
LEMMA CallBackTells ==
  ASSUME TransferInv, NEW c \in Clients, NEW ec, NEW len, CallBack(c, ec, len), program' = program,
         pos' \in [Clients -> Nat], \A d \in Clients \ {c} : pos'[d] = pos[d],
         Kind(c) = "line" => pos'[c] =< Len(program.text) /\ LineTold(Told(c, ec, len)),
         TransferTold(c, Told(c, ec, len))
  PROVE  TransferInv'
<1> DEFINE r == Told(c, ec, len)
<1>1. op' = [op EXCEPT ![c] = IdleOp] /\ last' = [last EXCEPT ![c] = r]
  BY DEF CallBack, Told
<1>2. Typed
  BY DEF TransferInv
<1>3. IdleOp \in [at : Places, got : Nat, remain : Nat, count : Nat, ec : Codes, from : Nat]
  BY DEF IdleOp, Places, Codes
<1> HIDE DEF r
<1>4. DOMAIN last' = Clients /\ last'[c] = r /\ \A d \in Clients \ {c} : last'[d] = last[d]
  BY <1>1, <1>2 DEF Typed
<1>5. Typed' /\ op'[c] = IdleOp /\ \A d \in Clients \ {c} : op'[d] = op[d]
  BY <1>1, <1>2, <1>3, <1>4 DEF Typed
<1>6. At(c, "idle")'
  BY <1>5 DEF At, IdleOp
<1> QED
  BY <1>4, <1>5, <1>6, OneMoves DEF r

\* Another round starts where this one ended.
LEMMA AgainTransfers ==
  ASSUME TransferInv, NEW c \in Clients, At(c, "done"), Kind(c) \in Transfers,
         NEW n \in Nat, n < op[c].remain, Again(c, n), program' = program,
         pos' \in [Clients -> Nat], \A d \in Clients \ {c} : pos'[d] = pos[d],
         pos'[c] = Base(c) + n,
         Kind(c) \in {"line", "read"} => Base(c) + n =< Len(program.text),
         Kind(c) = "line" => /\ (op[c].got + n) % Chunk = 0
                             /\ \A j \in Base(c)..Base(c) + n - 1 : ~EolAt(j)
  PROVE  TransferInv'
<1> DEFINE o == [op[c] EXCEPT !.got = @ + n, !.remain = @ - n]
           place == IF initialized = 0 THEN "claimed" ELSE "push"
           p == [o EXCEPT !.at = place]
           OpSet == [at : Places, got : Nat, remain : Nat, count : Nat, ec : Codes, from : Nat]
<1>1. op' = [op EXCEPT ![c] = p] /\ last' = last
  BY DEF Again, BeginRound
<1>2. Typed /\ op[c] \in OpSet
  BY DEF TransferInv, Typed
<1>3. Round(c)
  BY DEF TransferInv, Rounds, At
<1>4. place \in Places /\ place \notin {"idle", "done"}
  BY DEF Places
<1> HIDE DEF place
<1>5. /\ p \in OpSet /\ p.at = place /\ p.got = op[c].got + n /\ p.remain = op[c].remain - n
      /\ p.from = op[c].from
  <2> DEFINE o1 == [op[c] EXCEPT !.got = op[c].got + n]
  <2>1. o = [o1 EXCEPT !.remain = @ - n]
    OBVIOUS
  <2>2. /\ o1 \in OpSet /\ o1.got = op[c].got + n /\ o1.from = op[c].from
        /\ o1.remain = op[c].remain /\ op[c].remain - n \in Nat
    <3>1. op[c].got + n \in Nat /\ op[c].remain - n \in Nat
      BY <1>2
    <3> QED
      BY <1>2, <3>1
  <2> HIDE DEF o1, o
  <2>3. /\ o \in OpSet /\ o.got = op[c].got + n /\ o.remain = op[c].remain - n
        /\ o.from = op[c].from
    BY <2>1, <2>2
  <2> QED
    BY <1>4, <2>3
<1> HIDE DEF p, o
<1>6. op'[c] = p /\ Typed' /\ \A d \in Clients \ {c} : op'[d] = op[d]
  <2>1. op' \in [Clients -> OpSet] /\ op'[c] = p
    BY <1>1, <1>2, <1>5 DEF Typed
  <2> QED
    BY <1>1, <1>2, <2>1 DEF Typed
<1>7. op[c].got \in Nat /\ op[c].remain \in Nat /\ op[c].from \in Nat /\ program.room \in Nat
  BY <1>2, ProgramFacts
<1>8. Base(c)' = Base(c) + n /\ Base(c) \in Nat /\ ~Finished(c)' /\ Kind(c)' = Kind(c)
  <2>1. op'[c].from = op[c].from /\ op'[c].got = op[c].got + n /\ op'[c].at = place
    BY <1>5, <1>6
  <2>2. Base(c)' = Base(c) + n /\ Base(c) \in Nat
    BY <1>7, <2>1, SMTT(30) DEF Base
  <2>3. ~Finished(c)'
    BY <1>4, <2>1 DEF Finished
  <2> QED
    BY <2>2, <2>3 DEF Kind
<1>9. \A i : EolAt(i)' <=> EolAt(i)
  BY DEF EolAt
<1>10. Round(c)'
  <2>1. op'[c].remain >= 1 /\ op'[c].got + op'[c].remain = program'.room
    <3>1. op[c].got + op[c].remain = program.room
      BY <1>3 DEF Round
    <3>2. op'[c].got = op[c].got + n /\ op'[c].remain = op[c].remain - n
      BY <1>5, <1>6
    <3> QED
      BY <1>7, <3>1, <3>2
  <2>2. pos'[c] = Base(c)' + 0
    BY <1>8
  <2>3. /\ Kind(c) \in {"line", "read"} => Base(c)' =< Len(program'.text)
        /\ Kind(c) \in {"read", "write"} => op'[c].from = 0
    BY <1>3, <1>5, <1>6, <1>8 DEF Round
  <2>4. Kind(c) = "line" =>
          op'[c].got % Chunk = 0 /\ \A j \in op'[c].from..Base(c)' - 1 : EolAt(j)' <=> FALSE
    <3> SUFFICES ASSUME Kind(c) = "line"
                 PROVE  /\ op'[c].got % Chunk = 0
                        /\ \A j \in op'[c].from..Base(c)' - 1 : EolAt(j)' <=> FALSE
      OBVIOUS
    <3>1. op'[c].got % Chunk = 0 /\ op'[c].from = op[c].from
      BY <1>5, <1>6
    <3>2. ASSUME NEW j \in op[c].from..Base(c) + n - 1 PROVE ~EolAt(j)
      <4>1. CASE j < Base(c)
        <5>1. j \in op[c].from..Base(c) - 1
          BY <1>7, <1>8, <4>1
        <5> QED
          BY <1>3, <5>1 DEF Round
      <4>2. CASE ~(j < Base(c))
        <5>1. j \in Base(c)..Base(c) + n - 1
          BY <1>7, <1>8, <4>2
        <5> QED
          BY <5>1
      <4> QED
        BY <4>1, <4>2
    <3> QED
      BY <1>8, <1>9, <3>1, <3>2
  <2> QED
    BY <1>8, <2>1, <2>2, <2>3, <2>4 DEF Round
<1>11. /\ Kind(c) = "line" => pos'[c] =< Len(program.text) /\ LineTold(last'[c])
       /\ TransferTold(c, last'[c]) /\ Kind(c) # "none"
  BY <1>1 DEF TransferInv, ToldIsTrue, Transfers
<1> QED
  BY <1>1, <1>6, <1>10, <1>11, OneMoves

\* What is known of a completed operation.
LEMMA RoundDone ==
  ASSUME TransferInv, NEW c \in Clients, At(c, "done"), Kind(c) \in Transfers
  PROVE  /\ op[c].got \in Nat /\ op[c].remain \in Nat /\ op[c].count \in Nat /\ op[c].from \in Nat
         /\ op[c].ec \in Codes /\ Base(c) \in Nat /\ Asked(c) \in Nat /\ pos[c] \in Nat
         /\ pos \in [Clients -> Nat] /\ Base(c) = op[c].from + op[c].got
         /\ op[c].remain >= 1 /\ op[c].got + op[c].remain = program.room
         /\ Asked(c) >= 1 /\ Asked(c) =< op[c].remain /\ Asked(c) =< Chunk
         /\ Asked(c) \in {op[c].remain, Chunk}
         /\ Kind(c) \in {"line", "read"} => Base(c) =< Len(program.text)
         /\ Kind(c) \in {"read", "write"} => op[c].from = 0
         /\ Kind(c) = "line" => /\ op[c].got % Chunk = 0
                                /\ \A j \in op[c].from..Base(c) - 1 : ~EolAt(j)
         /\ op[c].ec = "failed" => pos[c] = Base(c)
         /\ op[c].ec = "ok" => /\ pos[c] = Base(c) + op[c].count
                               /\ IF Kind(c) = "write" THEN op[c].count \in 1..Asked(c)
                                  ELSE op[c].count = Least(Asked(c), Len(program.text) - Base(c))
<1>1. Round(c) /\ Typed /\ op[c].at = "done"
  BY DEF TransferInv, Rounds, At
<1>2. /\ op[c] \in [at : Places, got : Nat, remain : Nat, count : Nat, ec : Codes, from : Nat]
      /\ pos[c] \in Nat /\ pos \in [Clients -> Nat]
  BY <1>1 DEF Typed
<1>3. Chunk \in Nat /\ Chunk >= 1
  BY ChunkAssumption
<1>4. op[c].remain >= 1 /\ op[c].got + op[c].remain = program.room
  BY <1>1 DEF Round
<1>5. /\ Asked(c) \in Nat /\ Asked(c) >= 1 /\ Asked(c) =< op[c].remain /\ Asked(c) =< Chunk
      /\ Asked(c) \in {op[c].remain, Chunk} /\ Base(c) \in Nat
      /\ Base(c) = op[c].from + op[c].got
  BY <1>2, <1>3, <1>4 DEF Asked, Least, Base
<1>6. /\ op[c].ec = "failed" => pos[c] = Base(c) + 0
      /\ op[c].ec = "ok" => /\ pos[c] = Base(c) + op[c].count
                            /\ IF Kind(c) = "write" THEN op[c].count \in 1..Asked(c)
                               ELSE op[c].count = Least(Asked(c), Len(program.text) - Base(c))
  BY <1>1 DEF Round, Finished
<1>7. /\ Kind(c) \in {"line", "read"} => Base(c) =< Len(program.text)
      /\ Kind(c) \in {"read", "write"} => op[c].from = 0
      /\ Kind(c) = "line" => /\ op[c].got % Chunk = 0
                             /\ \A j \in op[c].from..Base(c) - 1 : ~EolAt(j)
  BY <1>1 DEF Round
<1> QED
  BY <1>2, <1>4, <1>5, <1>6, <1>7

\* A read tells all it was asked for, or what there is.
LEMMA ReadTells ==
  ASSUME TransferInv, NEW c \in Clients, At(c, "done"), Kind(c) = "read", CompleteRead(c),
         program' = program
  PROVE  TransferInv'
<1> DEFINE o == op[c]
           n == o.count
           base == Base(c)
           size == Len(program.text)
<1>1. pos' = pos /\ Kind(c) \in Transfers
  BY DEF CompleteRead, Transfers
<1>2. /\ o.got \in Nat /\ o.remain \in Nat /\ n \in Nat /\ o.ec \in Codes
      /\ base \in Nat /\ Asked(c) \in Nat /\ pos \in [Clients -> Nat] /\ base = o.from + o.got
      /\ o.remain >= 1 /\ o.got + o.remain = program.room /\ Asked(c) >= 1
      /\ Asked(c) =< o.remain /\ base =< size /\ o.from = 0
      /\ o.ec = "ok" => pos[c] = base + n /\ n = Least(Asked(c), size - base)
  BY <1>1, RoundDone
<1>3. size \in Nat /\ program.room \in Nat
  BY ProgramFacts DEF TransferInv
<1> HIDE DEF o, n, base, size
<1>4. o.ec = "ok" => n =< Asked(c) /\ n =< size - base /\ n \in {Asked(c), size - base}
  BY <1>2, <1>3 DEF Least
<1>5. ASSUME NEW ec, NEW len, CallBack(c, ec, len),
             \/ ec = "failed"
             \/ len = Least(program.room, size) /\ ec = (IF len = program.room THEN "ok" ELSE "eof")
      PROVE  TransferInv'
  <2>1. TransferTold(c, Told(c, ec, len))
    BY <1>5 DEF TransferTold, Told, size
  <2> QED
    BY <1>1, <1>2, <1>5, <2>1, CallBackTells
<1>6. CASE Ended(c)
  <2>1. CallBack(c, EndCode(c), o.got)
    BY <1>6 DEF CompleteRead, o
  <2>2. CASE o.ec = "ok"
    <3>1. n = 0 /\ EndCode(c) = "eof"
      BY <1>6, <2>2 DEF Ended, EndCode, o, n
    <3>2. size = base /\ o.got = size /\ program.room > size
      <4>1. n \in {Asked(c), size - base} /\ Asked(c) \in Int /\ Asked(c) >= 1 /\ n = 0
        BY <1>2, <1>4, <2>2, <3>1
      <4>2. size - base = 0 /\ size \in Int /\ base \in Int
        BY <1>2, <1>3, <4>1
      <4>3. base = 0 + o.got /\ o.got \in Int /\ o.remain \in Int /\ o.remain >= 1
            /\ o.got + o.remain = program.room
        BY <1>2
      <4>4. program.room > o.got
        BY <1>3, <4>3
      <4> QED
        BY <4>2, <4>3, <4>4
    <3>3. o.got = Least(program.room, size) /\ o.got # program.room
      BY <1>2, <1>3, <3>2 DEF Least
    <3> QED
      BY <1>5, <2>1, <3>1, <3>3
  <2>3. CASE o.ec # "ok"
    <3>1. EndCode(c) = "failed"
      BY <1>2, <2>3 DEF EndCode, Codes, o
    <3> QED
      BY <1>5, <2>1, <3>1
  <2> QED
    BY <2>2, <2>3
<1>7. CASE ~Ended(c) /\ o.remain > n
  <2>1. Again(c, n) /\ o.ec = "ok"
    BY <1>7 DEF CompleteRead, Ended, o, n
  <2>2. pos'[c] = base + n /\ base + n =< size /\ Kind(c) # "line" /\ n < o.remain
    BY <1>1, <1>2, <1>3, <1>4, <1>7, <2>1
  <2> QED
    BY <1>1, <1>2, <2>1, <2>2, AgainTransfers DEF base, size, o
<1>8. CASE ~Ended(c) /\ ~(o.remain > n)
  <2>1. CallBack(c, "ok", o.got + n) /\ o.ec = "ok"
    BY <1>8 DEF CompleteRead, Ended, o, n
  <2>2. o.got + n = program.room /\ base + n =< size /\ base = o.got
    BY <1>2, <1>3, <1>4, <1>8, <2>1
  <2>3. o.got + n = Least(program.room, size)
    BY <1>2, <1>3, <2>2 DEF Least
  <2> QED
    BY <1>5, <2>1, <2>2, <2>3
<1> QED
  BY <1>6, <1>7, <1>8

\* A write tells all it was given.
LEMMA WriteTells ==
  ASSUME TransferInv, NEW c \in Clients, At(c, "done"), Kind(c) = "write", CompleteWrite(c),
         program' = program
  PROVE  TransferInv'
<1> DEFINE o == op[c]
           n == o.count
           base == Base(c)
<1>1. pos' = pos /\ Kind(c) \in Transfers
  BY DEF CompleteWrite, Transfers
<1>2. /\ o.got \in Nat /\ o.remain \in Nat /\ n \in Nat /\ o.ec \in Codes
      /\ base \in Nat /\ Asked(c) \in Nat /\ pos \in [Clients -> Nat] /\ base = o.from + o.got
      /\ o.got + o.remain = program.room /\ Asked(c) =< o.remain /\ o.from = 0
      /\ o.ec = "ok" => pos[c] = base + n /\ n \in 1..Asked(c)
  BY <1>1, RoundDone
<1> HIDE DEF o, n, base
<1>3. ASSUME NEW ec, NEW len, CallBack(c, ec, len),
             ec = "ok" => len = program.room /\ pos[c] = len
      PROVE  TransferInv'
  <2>1. TransferTold(c, Told(c, ec, len))
    BY <1>1, <1>3 DEF TransferTold, Told
  <2> QED
    BY <1>1, <1>2, <1>3, <2>1, CallBackTells
<1>4. CASE o.ec # "ok"
  <2>1. CallBack(c, o.ec, o.got)
    BY <1>4 DEF CompleteWrite, o
  <2> QED
    BY <1>3, <1>4, <2>1
<1>5. CASE o.ec = "ok" /\ o.remain > n
  <2>1. Again(c, n) /\ n < o.remain
    BY <1>2, <1>5 DEF CompleteWrite, o, n
  <2>2. pos'[c] = base + n /\ Kind(c) \notin {"line", "read"}
    BY <1>1, <1>2, <1>5
  <2> QED
    BY <1>1, <1>2, <2>1, <2>2, AgainTransfers DEF base, o
<1>6. CASE o.ec = "ok" /\ ~(o.remain > n)
  <2>1. CallBack(c, "ok", o.got + n)
    BY <1>6 DEF CompleteWrite, o, n
  <2>2. o.got + n = program.room /\ pos[c] = o.got + n
    BY <1>2, <1>6
  <2> QED
    BY <1>3, <2>1, <2>2
<1> QED
  BY <1>4, <1>5, <1>6

\* A line reader is told what the file holds.
LEMMA LineTells ==
  ASSUME TransferInv, NEW c \in Clients, At(c, "done"), Kind(c) = "line", CompleteLine(c),
         program' = program
  PROVE  TransferInv'
<1> DEFINE o == op[c]
           n == o.count
           base == Base(c)
           size == Len(program.text)
           m == Len(program.eol)
<1>1. Kind(c) \in Transfers
  BY DEF Transfers
<1>2. /\ o.got \in Nat /\ o.remain \in Nat /\ n \in Nat /\ o.ec \in Codes /\ o.from \in Nat
      /\ base \in Nat /\ Asked(c) \in Nat /\ pos[c] \in Nat /\ pos \in [Clients -> Nat]
      /\ base = o.from + o.got /\ o.remain >= 1 /\ o.got + o.remain = program.room
      /\ Asked(c) >= 1 /\ Asked(c) =< o.remain /\ Asked(c) =< Chunk
      /\ Asked(c) \in {o.remain, Chunk} /\ base =< size /\ o.got % Chunk = 0
      /\ \A j \in o.from..base - 1 : ~EolAt(j)
      /\ o.ec = "failed" => pos[c] = base
      /\ o.ec = "ok" => pos[c] = base + n /\ n = Least(Asked(c), size - base)
  BY <1>1, RoundDone
<1>3. /\ size \in Nat /\ program.room \in Nat /\ m \in Nat /\ m >= 1 /\ Chunk \in Nat /\ Chunk >= 1
      /\ Typed
  BY ProgramFacts DEF TransferInv
<1> HIDE DEF o, n, base, size, m
<1>4. o.ec = "ok" => n =< Asked(c) /\ base + n =< size /\ n \in {Asked(c), size - base}
  BY <1>2, <1>3 DEF Least
<1>5. (o.got + Chunk) % Chunk = 0
  BY <1>2, <1>3, ChunkMore
<1>6. ASSUME NEW ec, NEW len, NEW to \in Nat, CallBack(c, ec, len), pos' = [pos EXCEPT ![c] = to],
             to =< size, LineTold([ec |-> ec, len |-> len, from |-> o.from, to |-> to])
      PROVE  TransferInv'
  <2>1. /\ pos' \in [Clients -> Nat] /\ pos'[c] = to /\ \A d \in Clients \ {c} : pos'[d] = pos[d]
    BY <1>2, <1>6
  <2>2. Told(c, ec, len) = [ec |-> ec, len |-> len, from |-> o.from, to |-> to]
    BY <2>1 DEF Told, o
  <2>3. TransferTold(c, Told(c, ec, len))
    BY DEF TransferTold
  <2>4. pos'[c] =< Len(program.text) /\ LineTold(Told(c, ec, len))
    BY <1>6, <2>1, <2>2 DEF size
  <2> QED
    BY <1>6, <2>1, <2>3, <2>4, CallBackTells
<1>7. CASE Ended(c)
  <2>1. pos' = [pos EXCEPT ![c] = pos[c]] /\ CallBack(c, EndCode(c), o.got)
    BY <1>2, <1>7 DEF CompleteLine, o
  <2>2. CASE o.ec = "ok"
    <3>1. n = 0 /\ EndCode(c) = "eof"
      BY <1>7, <2>2 DEF Ended, EndCode, o, n
    <3>2. pos[c] = base /\ base = size /\ base = o.from + o.got
      <4>1. pos[c] = base + n /\ n \in {Asked(c), size - base} /\ Asked(c) >= 1
        BY <1>2, <1>4, <2>2
      <4> QED
        BY <1>2, <1>3, <3>1, <4>1
    <3>3. o.got =< program.room
      BY <1>2, <1>3
    <3>4. LineTold([ec |-> "eof", len |-> o.got, from |-> o.from, to |-> base])
      BY <1>2, <3>2, <3>3 DEF LineTold, size
    <3> QED
      BY <1>2, <1>6, <2>1, <3>1, <3>2, <3>4
  <2>3. CASE o.ec # "ok"
    <3>1. EndCode(c) = "failed" /\ pos[c] = base
      BY <1>2, <2>3 DEF EndCode, Codes, o
    <3>2. LineTold([ec |-> "failed", len |-> o.got, from |-> o.from, to |-> base])
      BY DEF LineTold
    <3> QED
      BY <1>2, <1>6, <2>1, <3>1, <3>2
  <2> QED
    BY <2>2, <2>3
<1>8. CASE ~Ended(c)
  <2> DEFINE f == FindEol(SubSeq(program.text, base + 1, base + n), program.eol)
             more == IF f.at < n THEN f.at + m ELSE n - f.partial
             cut == IF program.incEol THEN 0 ELSE m
  <2>1. o.ec = "ok" /\ n # 0
    BY <1>8 DEF Ended, o, n
  <2>2. pos[c] = base + n /\ pos[c] - n = base /\ pos[c] - n + 1 = base + 1
    BY <1>2, <2>1
  <2>3. /\ pos' = [pos EXCEPT ![c] = @ - n + more]
        /\ IF f.at < more THEN CallBack(c, "ok", o.got + more - cut)
           ELSE IF o.remain = more \/ more # Chunk THEN CallBack(c, "eof", o.got + more)
           ELSE Again(c, more)
    <3>1. \E found \in {FindEol(SubSeq(program.text, pos[c] - n + 1, pos[c]), program.eol)} :
            LET k == IF found.at < n THEN found.at + m ELSE n - found.partial IN
            /\ pos' = [pos EXCEPT ![c] = @ - n + k]
            /\ IF found.at < k THEN CallBack(c, "ok", o.got + k - cut)
               ELSE IF o.remain = k \/ k # Chunk THEN CallBack(c, "eof", o.got + k)
               ELSE Again(c, k)
      BY <1>8 DEF CompleteLine, o, n, m
    <3>2. FindEol(SubSeq(program.text, pos[c] - n + 1, pos[c]), program.eol) = f
      BY <2>2
    <3> HIDE DEF f, cut
    <3> QED
      BY <3>1, <3>2
  <2>4. pos' = [pos EXCEPT ![c] = base + more]
    BY <1>2, <2>2, <2>3
  <2>5. \/ /\ f.at \in Nat /\ f.at < n /\ EolAt(base + f.at) /\ f.at + m =< n
           /\ \A j \in base..base + f.at - 1 : ~EolAt(j)
        \/ /\ f.at = n /\ f.partial \in 0..m - 1 /\ f.partial =< n
           /\ f.partial > 0 => f.partial \in Partial(base + n - f.partial)
           /\ \A j \in base..base + n - f.partial - 1 : ~EolAt(j)
    <3>1. Typed /\ base \in Nat /\ n \in Nat /\ base + n =< Len(program.text)
      BY <1>2, <1>3, <1>4, <2>1 DEF size
    <3> QED
      BY <3>1, ChunkSearched, Zenon DEF m
  <2> HIDE DEF f
  <2>6. CASE /\ f.at \in Nat /\ f.at < n /\ EolAt(base + f.at) /\ f.at + m =< n
             /\ \A j \in base..base + f.at - 1 : ~EolAt(j)
    <3> DEFINE i == base + f.at
               len == o.got + (f.at + m) - cut
    <3>1. more = f.at + m /\ f.at < more /\ base + more =< size /\ base + more \in Nat
          /\ base + more = i + m /\ i \in o.from..size
      BY <1>2, <1>3, <1>4, <2>1, <2>6
    <3>2. CallBack(c, "ok", len)
      BY <2>3, <3>1
    <3>3. ASSUME NEW j \in o.from..i - 1 PROVE ~EolAt(j)
      <4>1. j \in o.from..base - 1 \/ j \in base..base + f.at - 1
        BY <1>2, <2>6
      <4> QED
        BY <1>2, <2>6, <4>1
    <3>4. len = (IF program.incEol THEN i + m ELSE i) - o.from
      <4>1. CASE program.incEol
        BY <1>2, <1>3, <2>6, <4>1
      <4>2. CASE ~program.incEol
        BY <1>2, <1>3, <2>6, <4>2
      <4> QED
        BY <4>1, <4>2
    <3>5. EolAt(i)
      BY <2>6
    <3>7. (i + m) - o.from =< program.room
      <4>1. n =< o.remain /\ f.at + m =< o.remain
        BY <1>2, <1>3, <1>4, <2>1, <2>6
      <4> QED
        BY <1>2, <1>3, <2>6, <4>1
    <3> HIDE DEF i, len, more
    <3>6. LineTold([ec |-> "ok", len |-> len, from |-> o.from, to |-> i + m])
      <4> DEFINE r == [ec |-> "ok", len |-> len, from |-> o.from, to |-> i + m]
      <4>1. r.ec = "ok" /\ r.len = len /\ r.from = o.from /\ r.to = i + m
        OBVIOUS
      <4> HIDE DEF r
      <4>2. r.to = i + Len(program.eol) /\ r.to - r.from =< program.room
        BY <3>7, <4>1 DEF m
      <4>3. i \in r.from..Len(program.text) /\ \A j \in r.from..(i - 1) : ~EolAt(j)
        BY <3>1, <3>3, <4>1 DEF size
      <4>4. r.len = (IF program.incEol THEN r.to ELSE i) - r.from
        BY <3>4, <4>1
      <4>5. LineTold(r)
        BY <3>5, <4>1, <4>2, <4>3, <4>4, Zenon DEF LineTold
      <4> QED
        BY <4>5 DEF r
    <3> QED
      BY <1>6, <2>4, <3>1, <3>2, <3>6
  <2>7. CASE /\ f.at = n /\ f.partial \in 0..m - 1 /\ f.partial =< n
             /\ f.partial > 0 => f.partial \in Partial(base + n - f.partial)
             /\ \A j \in base..base + n - f.partial - 1 : ~EolAt(j)
    <3> DEFINE k == f.partial
               to == base + more
    <3>1. k \in Nat /\ more = n - k /\ more \in Nat /\ ~(f.at < more) /\ more + k = n
          /\ to \in Nat /\ to =< size /\ to = base + n - k /\ to = o.from + (o.got + more)
      BY <1>2, <1>3, <1>4, <2>1, <2>7
    <3> HIDE DEF k, more, to
    <3>2. \A j \in base..to - 1 : ~EolAt(j)
      <4>1. ASSUME NEW j \in base..to - 1 PROVE j \in base..base + n - f.partial - 1
        <5>1. to = base + n - k /\ base \in Int /\ n \in Int /\ k \in Int /\ to \in Int
          BY <1>2, <3>1
        <5>2. j \in base..base + n - k - 1
          BY <5>1
        <5> QED
          BY <5>2 DEF k
      <4> QED
        BY <2>7, <4>1
    <3>3. k > 0 => k \in Partial(to)
      BY <2>7, <3>1 DEF k
    <3>4. n \in {o.remain, Chunk, size - base} /\ n =< Chunk /\ n =< o.remain
      BY <1>2, <1>3, <1>4, <2>1
    <3>5. CASE o.remain = more \/ more # Chunk
      <4>1. CallBack(c, "eof", o.got + more)
        BY <2>3, <3>1, <3>5
      <4>2. ASSUME NEW j \in o.from..to - 1 PROVE ~EolAt(j)
        <5>1. j \in o.from..base - 1 \/ j \in base..to - 1
          BY <1>2, <1>3, <3>1
        <5> QED
          BY <1>2, <3>2, <5>1
      <4>3. k = 0 => to = size \/ o.got + more = program.room
        <5> SUFFICES ASSUME k = 0 PROVE to = size \/ o.got + more = program.room
          OBVIOUS
        <5>1. more = n /\ to = base + n
          BY <1>2, <3>1
        <5>2. CASE n = o.remain
          BY <1>2, <5>1, <5>2
        <5>3. CASE n = size - base
          BY <1>2, <1>3, <5>1, <5>3
        <5>4. CASE n = Chunk
          BY <1>2, <3>5, <5>1, <5>4
        <5> QED
          BY <3>4, <5>2, <5>3, <5>4
      <4> DEFINE len == o.got + more
      <4>5. to = o.from + len /\ (k = 0 \/ k > 0)
        BY <3>1
      <4>4. len =< program.room
        BY <1>2, <1>3, <3>1, <3>4
      <4>6. LineTold([ec |-> "eof", len |-> len, from |-> o.from, to |-> to])
        <5> HIDE DEF len
        <5>1. Partial(to) = {} => to = size \/ len = program.room
          BY <3>3, <4>3, <4>5 DEF len
        <5> QED
          BY <4>2, <4>4, <4>5, <5>1 DEF LineTold, size
      <4> QED
        BY <1>6, <2>4, <3>1, <4>1, <4>6 DEF to
    <3>6. CASE ~(o.remain = more \/ more # Chunk)
      <4>1. Again(c, more) /\ more = Chunk
        BY <2>3, <3>1, <3>6
      <4>2. n = Chunk /\ k = 0 /\ more < o.remain
        BY <1>2, <1>3, <3>1, <3>4, <3>6, <4>1
      <4>3. (o.got + more) % Chunk = 0
        BY <1>5, <4>1
      <4>4. /\ pos' \in [Clients -> Nat] /\ pos'[c] = to
            /\ \A d \in Clients \ {c} : pos'[d] = pos[d]
        BY <1>2, <2>4, <3>1 DEF to
      <4>5. \A j \in base..base + more - 1 : ~EolAt(j)
        <5>1. to = base + more /\ base \in Int /\ more \in Int /\ to \in Int
          BY <1>2, <3>1 DEF to
        <5>2. ASSUME NEW j \in base..base + more - 1 PROVE j \in base..to - 1
          BY <5>1
        <5> QED
          BY <3>2, <5>2
      <4> QED
        BY <1>1, <3>1, <4>1, <4>2, <4>3, <4>4, <4>5, AgainTransfers DEF base, o, size, to
    <3> QED
      BY <3>5, <3>6
  <2> QED
    BY <2>5, <2>6, <2>7
<1> QED
  BY <1>7, <1>8

\* on_complete() of the four kinds of operations.
LEMMA OnCompleteTransfers ==
  ASSUME FileInv, TransferInv, OnComplete
  PROVE  TransferInv'
<1>1. PICK c \in Clients : c = Head(completed) /\ At(c, "done")
  <2>1. completed # <<>> /\ completed[1] \in Clients /\ At(completed[1], "done")
    BY OnCompleteMoves
  <2>2. Head(completed) = completed[1]
    BY <2>1, Taken DEF FileInv, Shape
  <2> QED
    BY <2>1, <2>2
<1>2. /\ program' = program
      /\ \/ Kind(c) = "line" /\ CompleteLine(c)
         \/ Kind(c) = "read" /\ CompleteRead(c)
         \/ Kind(c) = "write" /\ CompleteWrite(c)
         \/ Kind(c) = "name" /\ CompleteName(c)
  BY <1>1 DEF OnComplete
<1>3. CASE Kind(c) = "name" /\ CompleteName(c)
  <2>1. CallBack(c, op[c].ec, 0) /\ pos' = pos
    BY <1>3 DEF CompleteName
  <2>2. TransferTold(c, Told(c, op[c].ec, 0))
    BY <1>3 DEF TransferTold
  <2>3. pos' \in [Clients -> Nat] /\ \A d \in Clients \ {c} : pos'[d] = pos[d]
    BY <2>1 DEF TransferInv, Typed
  <2> QED
    BY <1>2, <1>3, <2>1, <2>2, <2>3, CallBackTells
<1> QED
  BY <1>1, <1>2, <1>3, LineTells, ReadTells, WriteTells

\* The thread takes an operation that was on the list.
LEMMA PopTransfers ==
  ASSUME FileInv, TransferInv, Pop
  PROVE  TransferInv'
<1>1. UNCHANGED <<program, pos, last>>
  BY DEF Pop
<1>2. CASE head = Nil
  BY <1>1, <1>2, TransfersStay DEF Pop
<1>3. CASE head # Nil
  <2>1. pending # <<>> /\ head = pending[1]
    BY <1>3 DEF FileInv, Pointers
  <2>2. pending[1] \in Clients /\ 1 \in 1..Len(pending)
    BY <2>1, Taken DEF FileInv, Shape
  <2>3. PICK c \in Clients : c = head /\ At(c, "queued")
    BY <2>1, <2>2 DEF FileInv, Stations, In
  <2>4. op' = [op EXCEPT ![c].at = "working"]
    BY <1>3, <2>3 DEF Pop
  <2>5. op[c].at \notin {"idle", "done"}
    BY <2>3 DEF At
  <2> QED
    BY <1>1, <2>4, <2>5, PlaceMoves
<1> QED
  BY <1>2, <1>3

\* Every step of clients, thread, service and stop() keeps what is told true.
LEMMA TransferStep == FileInv /\ TransferInv /\ [Next]_vars => TransferInv'
<1> SUFFICES ASSUME FileInv, TransferInv, [Next]_vars PROVE TransferInv'
  OBVIOUS
<1>1. ASSUME NEW c \in Clients, StartThread(c) PROVE TransferInv'
  <2>1. /\ op' = [op EXCEPT ![c].at = "push"] /\ op[c].at = "claimed"
        /\ UNCHANGED <<program, pos, last>>
    BY <1>1 DEF StartThread, At
  <2> QED
    BY <2>1, PlaceMoves
<1>2. ASSUME NEW c \in Clients, Push(c) PROVE TransferInv'
  <2>1. /\ op' = [op EXCEPT ![c].at = "queued"] /\ op[c].at = "push"
        /\ UNCHANGED <<program, pos, last>>
    BY <1>2 DEF Push, At
  <2> QED
    BY <2>1, PlaceMoves
<1>3. CASE Wait \/ Stop \/ Join \/ Cancelled \/ FreeList
  <2>1. UNCHANGED <<program, op, pos, last>>
    BY <1>3 DEF Wait, Stop, Join, Cancelled, FreeList
  <2> QED
    BY <2>1, TransfersStay
<1>4. CASE UNCHANGED vars
  <2>1. UNCHANGED <<program, op, pos, last>>
    BY <1>4 DEF vars
  <2> QED
    BY <2>1, TransfersStay
<1>5. CASE \E c \in Clients : Call(c) \/ ClientStep(c)
  BY <1>1, <1>2, <1>5, CallTransfers DEF ClientStep
<1>6. CASE WorkerStep
  BY <1>3, <1>6, PopTransfers, WorkTransfers DEF WorkerStep
<1> QED
  BY <1>3, <1>4, <1>5, <1>6, OnCompleteTransfers DEF Next

\* The callbacks of read_line_op, read_op and write_op (src/epoll_file.cpp)
\* are told what the file holds, for every file, every line end of two bytes
\* or more, every buffer and chunk, and however the threads interleave: a line
\* ends at the first line end behind its start, with find_eol() and
\* build_kmp_table() as they are and the line in as many rounds as it takes;
\* "eof" tells bytes in which no line end begins, and the next call gets the
\* bytes behind them; a read or a write neither skips nor repeats bytes.  It
\* does not say that "eof" comes at the end of the file: where a line end lies
\* across two chunks it comes before, see EofEndsTheLines.
THEOREM ToldIsTrueCorrect == Spec => []ToldIsTrue
<1>1. Spec => []TransferInv
  BY TransferInit, FileInvariant, TransferStep, PTL DEF Spec
<1>2. TransferInv => ToldIsTrue
  BY DEF TransferInv
<1> QED
  BY <1>1, <1>2, PTL
=============================================================================
