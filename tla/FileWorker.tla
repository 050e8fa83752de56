----------------------------- MODULE FileWorker -----------------------------
(***************************************************************************)
(* The worker threads of jnet-lib on Linux.  File operations and name      *)
(* lookups block, so each is put as an entry on a linked list that one     *)
(* thread serves; an auto-reset event announces entries.  The first caller *)
(* starts the thread.  Both services are built the same way, and one       *)
(* behaviour of this module is about one of them: only the resolver is     *)
(* stopped, by the destructor of a static object when the program ends.    *)
(*                                                                         *)
(* A client is an object with one operation at a time: a file that is read *)
(* by lines, read or written, or a lookup.  An operation goes back to the  *)
(* worker until it has transferred all it wants.                           *)
(*                                                                         *)
(* A line end has at least two bytes, as the default "\r\n".  For one of a *)
(* single byte build_kmp_table() writes T[1] behind the one entry it has   *)
(* allocated (epoll_file.cpp:487-488), which nothing here stands for.      *)
(***************************************************************************)
EXTENDS Integers, Sequences, FiniteSets

CONSTANTS Clients,
          Programs,   \* what the clients do, see ProgramsAssumption
          Chunk,      \* max_read_buffer_size, max_write_buffer_size
          Nil         \* the null pointer

Kinds == {"line", "read", "write", "name", "none"}

ASSUME ChunkAssumption    == Chunk \in Nat \ {0}
ASSUME ClientsAssumption  == IsFiniteSet(Clients) /\ Nil \notin Clients
\* text: the contents of each file; eol: the line end; room: bytes a call asks
\* for; fails: whether blocking calls may fail.  Lookups and files are never
\* served by the same thread.
ASSUME ProgramsAssumption ==
  \A p \in Programs :
    /\ p.kind \in [Clients -> Kinds]
    /\ p.text \in Seq(Nat) /\ p.eol \in Seq(Nat) /\ Len(p.eol) >= 2
    /\ p.room \in Nat \ {0} /\ p.incEol \in BOOLEAN /\ p.fails \in BOOLEAN
    /\ (\E c \in Clients : p.kind[c] = "name") => \A c \in Clients : p.kind[c] \in {"name", "none"}

VARIABLES
  program,
  op,            \* client -> its operation
  pos,           \* client -> position in its file
  last,          \* client -> what the last callback was told, and of what
  head, tail,    \* the list
  next,          \* client -> field next of its entry
  entries,       \* clients whose entry is allocated
  pending,       \* the order of the calls to push(), for the properties
  event,         \* state_ of the event
  worker,        \* where the thread is, and its entry
  completed,     \* operations handed to the service
  initialized,   \* initialized_
  stopFlag,      \* stop_flag_
  stopper        \* where stop() is

vars == <<program, op, pos, last, head, tail, next, entries, pending, event,
          worker, completed, initialized, stopFlag, stopper>>
listVars == <<head, tail, next, entries, pending>>
stopVars == <<stopFlag, stopper>>

\* got: bytes transferred by the finished rounds; count, ec: the result of the
\* round; from: the position at which the call started.
IdleOp == [at |-> "idle", got |-> 0, remain |-> 0, count |-> 0, ec |-> "ok", from |-> 0]
NotYet == [ec |-> "none", len |-> 0, from |-> 0, to |-> 0]
Kind(c) == program.kind[c]
At(c, place) == op[c].at = place
Only(S) == CHOOSE x \in S : TRUE

Init ==
  /\ program \in Programs
  /\ op = [c \in Clients |-> IdleOp] /\ pos = [c \in Clients |-> 0]
  /\ last = [c \in Clients |-> NotYet]
  /\ head = Nil /\ tail = Nil /\ next = [c \in Clients |-> Nil]
  /\ entries = {} /\ pending = <<>>
  /\ event = FALSE /\ worker = [at |-> "asleep", entry |-> Nil]
  /\ completed = <<>> /\ initialized = 0
  /\ stopFlag = 0 /\ stopper = "none"

-----------------------------------------------------------------------------
(* The search for the line end *)

\* Seeded fault: the table of a word that never repeats itself.
KmpTable_flat(word) == [i \in 0..Len(word) - 1 |-> IF i = 0 THEN -1 ELSE 0]

\* The loop of build_kmp_table().  The table has one entry for each byte of the
\* word, as many as the code allocates.
KmpRound(word, r) ==
  CASE r.pos >= Len(word) -> r
    [] r.pos < Len(word) /\ word[r.pos] = word[r.cnd + 1] ->
         [pos |-> r.pos + 1, cnd |-> r.cnd + 1, T |-> [r.T EXCEPT ![r.pos] = r.cnd + 1]]
    [] r.pos < Len(word) /\ word[r.pos] # word[r.cnd + 1] /\ r.cnd > 0 -> [r EXCEPT !.cnd = r.T[r.cnd]]
    [] OTHER -> [r EXCEPT !.pos = r.pos + 1, !.T[r.pos] = 0]

KmpTable(word) ==
  LET start == [pos |-> 2, cnd |-> 0, T |-> [i \in 0..Len(word) - 1 |-> IF i = 0 THEN -1 ELSE 0]]
      round[k \in 0..(2 * Len(word))] ==
        IF k = 0 THEN start ELSE Only({KmpRound(word, r) : r \in {round[k - 1]}})
  IN round[2 * Len(word)].T

\* The loop of find_eol().
SearchRound(text, word, T, r) ==
  CASE r.text + r.word >= Len(text) \/ r.found < Len(text) -> r
    [] r.text + r.word < Len(text) /\ r.found = Len(text) /\ word[r.word + 1] = text[r.text + r.word + 1] ->
         IF r.word = Len(word) - 1 THEN [r EXCEPT !.found = r.text] ELSE [r EXCEPT !.word = r.word + 1]
    [] OTHER -> [r EXCEPT !.text = r.text + r.word - T[r.word],
                          !.word = IF T[r.word] < 0 THEN 0 ELSE T[r.word]]

\* find_eol(): where the word starts in the text, or the length of the text
\* and how much of the word the text ends with.
FindEol(text, word) ==
  LET n == Len(text)
      round[k \in 0..(2 * n)] ==
        IF k = 0 THEN [text |-> 0, word |-> 0, found |-> n]
        ELSE Only({SearchRound(text, word, T, r) : r \in {round[k - 1]}, T \in {KmpTable(word)}})
      end == round[2 * n]
  IN [at |-> end.found, partial |-> IF end.found = n THEN end.word ELSE 0]

-----------------------------------------------------------------------------
(* Callers *)

\* Every round of an operation counts as work and may be the first ever.
BeginRound(c, o) ==
  /\ op' = [op EXCEPT ![c] = [o EXCEPT !.at = IF initialized = 0 THEN "claimed" ELSE "push"]]
  /\ initialized' = 1

\* asyn_read_line, asyn_read, asyn_write, asyn_resolve.  Who reads lines goes
\* on where the file stands, whatever the last callback told, or rewinds it.
Call(c) ==
  /\ Kind(c) # "none" /\ At(c, "idle") /\ stopFlag = 0
  /\ \E start \in (IF Kind(c) = "line" THEN {0, pos[c]} ELSE {0}) :
       /\ BeginRound(c, [IdleOp EXCEPT !.remain = program.room, !.from = start])
       /\ pos' = [pos EXCEPT ![c] = start]
  /\ UNCHANGED <<program, last, listVars, event, worker, completed, stopVars>>

\* init(): the thread, created at start-up, is let go.
StartThread(c) ==
  /\ At(c, "claimed")
  /\ op' = [op EXCEPT ![c].at = "push"]
  /\ worker' = [worker EXCEPT !.at = "wait"]
  /\ UNCHANGED <<program, pos, last, listVars, event, completed, initialized, stopVars>>

Push(c) ==
  /\ At(c, "push")
  /\ op' = [op EXCEPT ![c].at = "queued"]
  /\ entries' = entries \cup {c}
  /\ next' = IF tail = Nil THEN [next EXCEPT ![c] = Nil]
                           ELSE [next EXCEPT ![c] = Nil, ![tail] = c]
  /\ tail' = c
  /\ head' = IF head = Nil THEN c ELSE head
  /\ pending' = Append(pending, c)
  /\ event' = TRUE
  /\ UNCHANGED <<program, pos, last, worker, completed, initialized, stopVars>>

-----------------------------------------------------------------------------
(* The thread *)

\* The event is reset by the wait that it ends.
Wait ==
  /\ worker.at = "wait" /\ event
  /\ event' = FALSE
  /\ worker' = [worker EXCEPT !.at = IF stopFlag = 1 THEN "ended" ELSE "pop"]
  /\ UNCHANGED <<program, op, pos, last, listVars, completed, initialized, stopVars>>

\* Seeded fault: tail_ keeps pointing at the last entry when it is taken.
TailAfterPop_kept == tail
TailAfterPop == IF tail = head THEN Nil ELSE tail

\* Seeded fault: the entries behind the one taken are not announced.
Announce_never(e) == FALSE
\* One signal may stand for several entries: the thread signals itself.
Announce(e) == next[e] # Nil

Pop ==
  /\ worker.at = "pop"
  /\ worker' = IF head = Nil THEN [worker EXCEPT !.at = "wait"] ELSE [at |-> "work", entry |-> head]
  /\ head' = IF head = Nil THEN Nil ELSE next[head]
  /\ tail' = TailAfterPop
  /\ pending' = IF pending = <<>> THEN <<>> ELSE Tail(pending)
  /\ event' = (event \/ (head # Nil /\ Announce(head)))
  /\ op' = IF head = Nil THEN op ELSE [op EXCEPT ![head].at = "working"]
  /\ UNCHANGED <<program, pos, last, next, entries, completed, initialized, stopVars>>

Least(a, b) == IF a < b THEN a ELSE b
Asked(c) == Least(op[c].remain, Chunk)

\* The bytes one system call transfers.
DoRead(c)  == {Least(Asked(c), Len(program.text) - pos[c])}
DoWrite(c) == 1..Asked(c)
Transfer(c) == CASE Kind(c) \in {"line", "read"} -> DoRead(c)
                 [] Kind(c) = "write" -> DoWrite(c)
                 [] Kind(c) = "name" -> {0}

\* The blocking call, on_completion() and the end of the entry.  A call that
\* fails leaves the position and reports the bytes asked for.
Work ==
  LET c == worker.entry IN
  /\ worker.at = "work"
  /\ \/ \E n \in Transfer(c) :
          /\ op' = [op EXCEPT ![c].at = "done", ![c].count = n, ![c].ec = "ok"]
          /\ pos' = [pos EXCEPT ![c] = @ + n]
     \/ /\ program.fails
        /\ op' = [op EXCEPT ![c].at = "done", ![c].count = Asked(c), ![c].ec = "failed"]
        /\ UNCHANGED pos
  /\ completed' = Append(completed, c)
  /\ entries' = entries \ {c}
  /\ worker' = [at |-> "wait", entry |-> Nil]
  /\ UNCHANGED <<program, last, head, tail, next, pending, event, initialized, stopVars>>

-----------------------------------------------------------------------------
(* on_complete(), called by the service *)

CallBack(c, ec, len) ==
  /\ op' = [op EXCEPT ![c] = IdleOp]
  /\ last' = [last EXCEPT ![c] = [ec |-> ec, len |-> len, from |-> op[c].from, to |-> pos'[c]]]
  /\ UNCHANGED initialized

Again(c, n) ==
  /\ BeginRound(c, [op[c] EXCEPT !.got = @ + n, !.remain = @ - n])
  /\ UNCHANGED last

\* A failed call, or nothing read although there was room.
Ended(c) == op[c].ec # "ok" \/ op[c].count = 0
EndCode(c) == IF op[c].ec = "ok" THEN "eof" ELSE op[c].ec

CompleteLine(c) ==
  LET o == op[c] IN
  IF Ended(c) THEN pos' = pos /\ CallBack(c, EndCode(c), o.got)
  ELSE \E found \in {FindEol(SubSeq(program.text, pos[c] - o.count + 1, pos[c]), program.eol)} :
         LET n == IF found.at < o.count THEN found.at + Len(program.eol) ELSE o.count - found.partial IN
         /\ pos' = [pos EXCEPT ![c] = @ - o.count + n]
         /\ IF found.at < n
            THEN CallBack(c, "ok", o.got + n - (IF program.incEol THEN 0 ELSE Len(program.eol)))
            ELSE IF o.remain = n \/ n # Chunk THEN CallBack(c, "eof", o.got + n)
            ELSE Again(c, n)

CompleteRead(c) ==
  /\ UNCHANGED pos
  /\ IF Ended(c) THEN CallBack(c, EndCode(c), op[c].got)
     ELSE IF op[c].remain > op[c].count THEN Again(c, op[c].count)
     ELSE CallBack(c, "ok", op[c].got + op[c].count)

CompleteWrite(c) ==
  /\ UNCHANGED pos
  /\ IF op[c].ec # "ok" THEN CallBack(c, op[c].ec, op[c].got)
     ELSE IF op[c].remain > op[c].count THEN Again(c, op[c].count)
     ELSE CallBack(c, "ok", op[c].got + op[c].count)

CompleteName(c) == UNCHANGED pos /\ CallBack(c, op[c].ec, 0)

\* A thread of the service takes the operation that has waited longest.
OnComplete ==
  /\ completed # <<>>
  /\ completed' = Tail(completed)
  /\ LET c == Head(completed) IN
     \/ Kind(c) = "line" /\ CompleteLine(c)
     \/ Kind(c) = "read" /\ CompleteRead(c)
     \/ Kind(c) = "write" /\ CompleteWrite(c)
     \/ Kind(c) = "name" /\ CompleteName(c)
  /\ UNCHANGED <<program, listVars, event, worker, stopVars>>

-----------------------------------------------------------------------------
(* stop() of the resolver *)

\* The program ends: no asyn_resolve() is running or called later.
Stop ==
  /\ \A c \in Clients : Kind(c) \in {"name", "none"} /\ op[c].at \notin {"claimed", "push"}
  /\ stopFlag = 0
  /\ stopFlag' = 1
  /\ event' = TRUE
  /\ stopper' = "join"
  /\ UNCHANGED <<program, op, pos, last, listVars, worker, completed, initialized>>

\* join(1000) returns at once for a thread that was never started, and gives
\* up only on a lookup under way; kill() then asks the thread to end.
JoinEnds == worker.at \in {"asleep", "ended"}
Join ==
  /\ stopper = "join"
  /\ \/ JoinEnds /\ stopper' = "free"
     \/ worker.at = "work" /\ stopper' = "killed"
  /\ UNCHANGED <<program, op, pos, last, listVars, event, worker, completed, initialized, stopFlag>>

\* The cancelled thread ends at its next cancellation point, if it gets there
\* before it sees the flag.
Cancelled ==
  /\ stopper \in {"killed", "freed"} /\ worker.at \in {"work", "wait"}
  /\ worker' = [worker EXCEPT !.at = "ended"]
  /\ UNCHANGED <<program, op, pos, last, listVars, event, completed, initialized, stopVars>>

\* Every entry still on the list is deleted; head_ and tail_ stay as they are.
FreeList ==
  /\ stopper \in {"free", "killed"}
  /\ entries' = entries \ {pending[i] : i \in DOMAIN pending}
  /\ stopper' = "freed"
  /\ UNCHANGED <<program, op, pos, last, head, tail, next, pending, event, worker, completed, initialized, stopFlag>>

-----------------------------------------------------------------------------
ClientStep(c) == StartThread(c) \/ Push(c)
WorkerStep    == Wait \/ Pop \/ Work

Next ==
  \/ \E c \in Clients : Call(c) \/ ClientStep(c)
  \/ WorkerStep \/ OnComplete
  \/ Stop \/ Join \/ Cancelled \/ FreeList

Spec == Init /\ [][Next]_vars

\* Threads are scheduled and blocking calls return; nobody has to call or stop.
Fairness ==
  /\ \A c \in Clients : WF_vars(ClientStep(c))
  /\ WF_vars(WorkerStep) /\ WF_vars(OnComplete)

FairSpec == Spec /\ Fairness

-----------------------------------------------------------------------------
(* Properties *)

\* The list as the pointers have it.
Linked ==
  LET walk[k \in 0..Cardinality(Clients)] ==
        IF k = 0 THEN <<head, <<>>>>
        ELSE LET w == walk[k - 1] IN
             IF w[1] = Nil THEN w ELSE <<next[w[1]], Append(w[2], w[1])>>
  IN walk[Cardinality(Clients)][2]

\* The linked list holds exactly the entries pushed and not yet taken, oldest
\* first, whichever callers interleave with the worker, and neither the list
\* nor the worker ever holds an entry that was deleted: stop() deletes the
\* list only when the worker will not look at it again.
ListIsQueue ==
  /\ Linked = pending
  /\ stopper # "freed" => entries = {c \in Clients : op[c].at \in {"queued", "working"}}
  /\ worker.at = "pop" /\ head # Nil => head \in entries
  /\ worker.at = "work" => worker.entry \in entries

\* Whether the line end starts at offset i of the file.
EolAt(i) ==
  /\ i + Len(program.eol) <= Len(program.text)
  /\ SubSeq(program.text, i + 1, i + Len(program.eol)) = program.eol

\* Bytes behind offset i that may be the start of a line end.
Partial(i) == {k \in 1..(Len(program.eol) - 1) :
                 /\ i + k <= Len(program.text)
                 /\ SubSeq(program.text, i + 1, i + k) = SubSeq(program.eol, 1, k)}

\* What a callback of a line reader is told is what the file holds.  "ok"
\* tells the bytes up to the first line end behind the start, which fit the
\* buffer, and the next call starts behind that line end.  "eof" tells bytes in
\* which no line end begins, and the next call starts with the first byte not
\* told; they reach to the end of the file, or fill the buffer, unless what
\* follows may be the start of a line end.
LineTold(r) ==
  \/ /\ r.ec = "ok"
     /\ \E i \in r.from..Len(program.text) :
          /\ EolAt(i) /\ \A j \in r.from..(i - 1) : ~EolAt(j)
          /\ r.to = i + Len(program.eol) /\ r.to - r.from <= program.room
          /\ r.len = (IF program.incEol THEN r.to ELSE i) - r.from
  \/ /\ r.ec = "eof"
     /\ r.to = r.from + r.len /\ r.len <= program.room
     /\ \A j \in r.from..(r.to - 1) : ~EolAt(j)
     /\ Partial(r.to) = {} => r.to = Len(program.text) \/ r.len = program.room
  \/ r.ec \in {"none", "failed"}

\* A read gives all it was asked for or the end of the file, a write writes
\* everything: rounds neither skip nor repeat bytes.
TransferTold(c, r) ==
  CASE Kind(c) = "read" -> r.ec # "failed" /\ r.ec # "none" =>
                             /\ r.len = Least(program.room, Len(program.text))
                             /\ r.ec = (IF r.len = program.room THEN "ok" ELSE "eof")
    [] Kind(c) = "write" -> r.ec = "ok" => r.len = program.room /\ r.to = r.len
    [] OTHER -> TRUE

ToldIsTrue ==
  \A c \in Clients : /\ Kind(c) = "line" => LineTold(last[c])
                     /\ TransferTold(c, last[c])

\* The branch of read_line_op::on_complete() that tells "eof" is "normal eof" or
\* "eof with no error" (epoll_file.cpp:548): the file has no further line that
\* the buffer has room for.  The code does otherwise: it takes a chunk that is
\* kept but for the start of a line end for the last one of the file.
EofEndsTheLines ==
  \A c \in Clients : last[c].ec = "eof" /\ Kind(c) = "line" =>
    \A i \in last[c].from..Len(program.text) :
      EolAt(i) => i + Len(program.eol) - last[c].from > program.room

\* Every call is called back, by whichever of the callers the thread was
\* started and however few signals announced the entries, unless the resolver
\* is stopped first.
EveryCallReturns ==
  \A c \in Clients : ~At(c, "idle") ~> (At(c, "idle") \/ stopFlag = 1)
=============================================================================
