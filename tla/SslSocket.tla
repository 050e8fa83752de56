----------------------------- MODULE SslSocket -----------------------------
(***************************************************************************)
(* iocp::ssl_socket (src/ssl_socket.cpp, src/ssl_socket.h): every          *)
(* operation is an ssl_base_op whose io_operation drives an OpenSSL engine *)
(* through a pair of memory BIOs and moves what the engine reads and       *)
(* writes over the socket below.  The engine is shared by a receive and a  *)
(* send that run at the same time; input_flag_ and output_flag_ are meant  *)
(* to keep one transfer in each direction.                                 *)
(*                                                                         *)
(* OpenSSL is external: a call of it is one step, and a record is Record   *)
(* units on the wire, a close alert one.  Units name what they carry, so   *)
(* that order and loss show.                                               *)
(***************************************************************************)
EXTENDS Naturals, Sequences, SequencesExt, FiniteSetsExt

CONSTANTS
  Script,     \* the handshake: "r" reads a unit, "w" writes one
  Record,     \* units of a record
  BioSize,    \* capacity of each side of the BIO pair, in units
  BufSize,    \* ssl_buffer_size, in units
  Sends,      \* records of each asyn_send the program makes
  PeerSends   \* records the peer sends

ASSUME SslAssumption ==
  /\ Script \in Seq({"r", "w"}) /\ Sends \in Seq(Nat \ {0}) /\ PeerSends \in Nat
  /\ BufSize \in Nat \ {0} /\ Record \in Nat \ {0}
  /\ BioSize \in Nat /\ BioSize >= BufSize /\ BioSize >= Record

VARIABLES
  engine,      \* the SSL object: how far each job has come
  inBio, outBio,           \* units in the BIO pair
  inBuf, outBuf,           \* input_buffer_, output_buffer_
  inputFlag, outputFlag,
  op,          \* the operation of each lane
  sends,       \* asyn_sends made
  got,         \* records SSL_read has put into the program's buffers
  fromPeer, peerGot, peer  \* the transport and the other side

vars == <<engine, inBio, outBio, inBuf, outBuf, inputFlag, outputFlag, op, sends, got,
          fromPeer, peerGot, peer>>

(* The program keeps at most one receive and one other operation going.     *)
Lanes == {"recv", "send"}
NoOp == [pc |-> "idle", kind |-> "none", want |-> "nothing", ec |-> "ok", start |-> FALSE,
         left |-> 0, some |-> FALSE, before |-> 0, error |-> "none", done |-> FALSE]

Count(token, i) == Cardinality({k \in 1..i : Script[k] = token})

Init ==
  /\ engine = [hs |-> 0, rpos |-> 0, read |-> 0, wpos |-> 0, written |-> 0,
               sentClose |-> FALSE, gotClose |-> FALSE]
  /\ inBio = <<>> /\ outBio = <<>> /\ inBuf = <<>> /\ outBuf = <<>>
  /\ inputFlag = 0 /\ outputFlag = 0
  /\ op = [l \in Lanes |-> NoOp]
  /\ sends = 0 /\ got = <<>>
  /\ fromPeer = <<>> /\ peerGot = <<>>
  /\ peer = [hs |-> 0, sent |-> 0, end |-> "open"]

----------------------------------------------------------------------------
(* The engine.  A call returns what SSL_get_error says of it, whether its   *)
(* result is positive, and the new engine and BIOs.                         *)
Call(error, done, e, in, out) ==
  [error |-> error, done |-> done, engine |-> e, in |-> in, out |-> out]
Drop(s, n) == SubSeq(s, n + 1, Len(s))
Room == BioSize - Len(outBio)
Unit(type, n, part) == [type |-> type, n |-> n, part |-> part]
Bad == Unit("bad", 0, 0)
CloseUnit == Unit("close", 0, 0)

(* SSL_accept or SSL_connect runs the handshake as far as the BIOs allow.   *)
DoHandshake ==
  LET i == engine.hs
      reads(j) == Count("r", j) - Count("r", i)
      writes(j) == Count("w", j) - Count("w", i)
      to == Max({j \in i..Len(Script) : reads(j) =< Len(inBio) /\ writes(j) =< Room})
      out == outBio \o [k \in 1..writes(to) |-> Unit("hs", Count("w", i) + k, 1)]
  IN IF \E k \in 1..reads(to) : inBio[k] = Bad
     THEN {Call("ssl", FALSE, engine, <<>>, outBio)}
     ELSE {Call(IF to = Len(Script) THEN "none"
                ELSE IF Script[to + 1] = "r" THEN "want_read" ELSE "want_write",
                to = Len(Script), [engine EXCEPT !.hs = to], Drop(inBio, reads(to)), out)}

(* SSL_read: one record, or the peer's close alert.                         *)
DoRead ==
  LET need == Record - engine.rpos IN
  IF engine.gotClose THEN {Call("zero_return", FALSE, engine, inBio, outBio)}
  ELSE IF inBio # <<>> /\ Head(inBio) = Bad THEN {Call("ssl", FALSE, engine, <<>>, outBio)}
  ELSE IF inBio # <<>> /\ Head(inBio) = CloseUnit
  THEN {Call("zero_return", FALSE, [engine EXCEPT !.gotClose = TRUE], Tail(inBio), outBio)}
  ELSE IF Len(inBio) >= need
  THEN {Call("none", TRUE, [engine EXCEPT !.rpos = 0, !.read = inBio[need].n],
             Drop(inBio, need), outBio)}
  ELSE {Call("want_read", FALSE, [engine EXCEPT !.rpos = @ + Len(inBio)], <<>>, outBio)}

(* SSL_write with SSL_MODE_ENABLE_PARTIAL_WRITE: one record.                *)
DoWrite ==
  LET n == Min({Room, Record - engine.wpos})
      units == [k \in 1..n |-> Unit("data", engine.written + 1, engine.wpos + k)]
  IN IF engine.wpos + n = Record
     THEN {Call("none", TRUE, [engine EXCEPT !.wpos = 0, !.written = @ + 1],
                inBio, outBio \o units)}
     ELSE {Call("want_write", FALSE, [engine EXCEPT !.wpos = @ + n], inBio, outBio \o units)}

(* SSL_shutdown, called again when it only sent the alert.  Unread records  *)
(* may be an error to it.                                                   *)
DoShutdown ==
  LET e == [engine EXCEPT !.sentClose = TRUE]
      out == IF engine.sentClose THEN outBio ELSE Append(outBio, CloseUnit)
  IN IF ~engine.sentClose /\ Room = 0
     THEN {Call("want_write", FALSE, engine, inBio, outBio)}
     ELSE IF engine.gotClose THEN {Call("none", TRUE, e, inBio, out)}
     ELSE IF inBio # <<>> /\ Head(inBio) = CloseUnit
     THEN {Call("none", TRUE, [e EXCEPT !.gotClose = TRUE], Tail(inBio), out)}
     ELSE {Call(err, FALSE, e, inBio, out) :
             err \in IF inBio = <<>> THEN {"want_read"} ELSE {"want_read", "ssl"}}

Calls(kind) == CASE kind = "handshake" -> DoHandshake [] kind = "recv" -> DoRead
                 [] kind = "send" -> DoWrite [] kind = "shutdown" -> DoShutdown

(* engine::perform, behind the call: what the operation wants next.  Output *)
(* that appears during a read is another operation's.                       *)
Want_inputFirst(o) ==                                                 \* mutant
  CASE o.error = "want_read" -> [want |-> "input_and_retry", ec |-> "ok"]
    [] o.error = "want_write" -> [want |-> "output_and_retry", ec |-> "ok"]
    [] o.error \notin {"want_read", "want_write"} ->
         [want |-> IF Len(outBio) > o.before THEN "output" ELSE "nothing", ec |-> "ok"]
Want_anyOutput(o) ==                                                  \* mutant
  IF o.error = "want_write" \/ Len(outBio) > o.before
  THEN [want |-> IF o.done THEN "output" ELSE "output_and_retry", ec |-> "ok"]
  ELSE IF o.error = "want_read" THEN [want |-> "input_and_retry", ec |-> "ok"]
  ELSE [want |-> "nothing", ec |-> "eof"]
Want(o) ==
  CASE o.error = "ssl" -> [want |-> "nothing", ec |-> "ssl"]
    [] o.error = "want_write" -> [want |-> "output_and_retry", ec |-> "ok"]
    [] o.error \in {"none", "want_read", "zero_return"} /\ Len(outBio) > o.before
         /\ o.kind # "recv" ->
         [want |-> IF o.done THEN "output" ELSE "output_and_retry", ec |-> "ok"]
    [] o.error = "want_read" /\ (Len(outBio) =< o.before \/ o.kind = "recv") ->
         [want |-> IF o.kind = "shutdown" THEN "nothing" ELSE "input_and_retry", ec |-> "ok"]
    [] OTHER -> [want |-> "nothing", ec |-> IF engine.gotClose THEN "eof" ELSE "ok"]

MapErrorCode(ec) == IF ec = "eof" THEN "short_read" ELSE ec

----------------------------------------------------------------------------
(* io_operation.                                                            *)
Start(l, kind, left, some) ==
  op' = [op EXCEPT ![l] = [NoOp EXCEPT !.pc = "engine", !.kind = kind, !.start = TRUE,
                                       !.left = left, !.some = some]]

(* complete: on_complete goes on while a send or a full receive has bytes   *)
(* left, and calls the program back otherwise.                              *)
Completed(l, ec) ==
  LET o == op[l] IN
  IF ec = "ok" /\ o.left > 0 /\ ~o.some
  THEN [o EXCEPT !.pc = "engine", !.start = TRUE, !.ec = "ok"]
  ELSE [o EXCEPT !.pc = IF ec = "ok" \/ (o.kind = "shutdown" /\ ec = "short_read")
                        THEN "idle" ELSE "failed", !.ec = ec]

(* op_ is called: the pending output is read before and behind the call.    *)
PendingBefore(l) ==
  /\ op[l].pc = "engine"
  /\ op' = [op EXCEPT ![l].pc = "perform", ![l].before = Len(outBio)]
  /\ UNCHANGED <<engine, inBio, outBio, inBuf, outBuf, inputFlag, outputFlag, sends, got,
                 fromPeer, peerGot, peer>>

Perform(l) ==
  LET o == op[l] IN
  /\ o.pc = "perform"
  /\ \E c \in Calls(o.kind) :
       /\ engine' = c.engine /\ inBio' = c.in /\ outBio' = c.out
       /\ op' = [op EXCEPT ![l] = [o EXCEPT !.pc = "after", !.error = c.error, !.done = c.done,
                                            !.left = IF c.done THEN @ - 1 ELSE @]]
       /\ got' = IF o.kind = "recv" /\ c.done THEN Append(got, c.engine.read) ELSE got
  /\ UNCHANGED <<inBuf, outBuf, inputFlag, outputFlag, sends, fromPeer, peerGot, peer>>

PendingAfter(l) ==
  /\ op[l].pc = "after"
  /\ LET w == Want(op[l]) IN
     op' = [op EXCEPT ![l].pc = "branch", ![l].want = w.want, ![l].ec = w.ec]
  /\ UNCHANGED <<engine, inBio, outBio, inBuf, outBuf, inputFlag, outputFlag, sends, got,
                 fromPeer, peerGot, peer>>

(* put_input: as much of the input buffer as the BIO takes.                 *)
PutInput(buf) ==
  LET n == Min({Len(buf), BioSize - Len(inBio)}) IN
  inBio' = inBio \o SubSeq(buf, 1, n) /\ inBuf' = Drop(buf, n)

WantInput(l) ==
  /\ op[l].pc = "branch" /\ op[l].want = "input_and_retry"
  /\ IF inBuf # <<>>
     THEN PutInput(inBuf) /\ inputFlag' = inputFlag /\ op' = [op EXCEPT ![l].pc = "engine"]
     ELSE /\ inputFlag' = 1                                \* assert(!"still receiving")
          /\ op' = [op EXCEPT ![l].pc = "receiving"]
          /\ UNCHANGED <<inBio, inBuf>>
  /\ UNCHANGED <<engine, outBio, outBuf, outputFlag, sends, got, fromPeer, peerGot, peer>>

GetOutput_drops ==                                                    \* mutant
  outBuf' = SubSeq(outBio, 1, Min({BufSize, Len(outBio)})) /\ outBio' = <<>>
GetOutput == /\ outBuf' = SubSeq(outBio, 1, Min({BufSize, Len(outBio)}))
             /\ outBio' = Drop(outBio, Min({BufSize, Len(outBio)}))

Outputs == {"output_and_retry", "output"}

(* Nothing to send is not expected here: the operation would never be       *)
(* completed.                                                               *)
WantOutput(l) ==
  /\ op[l].pc = "branch" /\ op[l].want \in Outputs
  /\ IF outBio # <<>>
     THEN GetOutput /\ outputFlag' = 1 /\ op' = [op EXCEPT ![l].pc = "sending"]
     ELSE outputFlag' = 0 /\ op' = [op EXCEPT ![l].pc = "lost"] /\ UNCHANGED <<outBuf, outBio>>
  /\ UNCHANGED <<engine, inBio, inBuf, inputFlag, sends, got, fromPeer, peerGot, peer>>

(* From the call that started the operation the handler is posted;          *)
(* otherwise it is run at once.                                             *)
WantNothing(l) ==
  /\ op[l].pc = "branch" /\ op[l].want = "nothing"
  /\ op' = [op EXCEPT ![l] = IF @.start THEN [@ EXCEPT !.pc = "posted"]
                             ELSE Completed(l, MapErrorCode(@.ec))]
  /\ UNCHANGED <<engine, inBio, outBio, inBuf, outBuf, inputFlag, outputFlag, sends, got,
                 fromPeer, peerGot, peer>>

PostCallback(l) ==
  /\ op[l].pc = "posted"
  /\ op' = [op EXCEPT ![l] = Completed(l, @.ec)]
  /\ UNCHANGED <<engine, inBio, outBio, inBuf, outBuf, inputFlag, outputFlag, sends, got,
                 fromPeer, peerGot, peer>>

(* receive_callback with bytes, or with the end of the stream.              *)
ReceiveCallback(l) ==
  /\ op[l].pc = "receiving"
  /\ \/ \E n \in 1..Min({BufSize - Len(inBuf), Len(fromPeer)}) :
          /\ PutInput(inBuf \o SubSeq(fromPeer, 1, n))
          /\ fromPeer' = Drop(fromPeer, n)
          /\ op' = [op EXCEPT ![l].pc = "engine", ![l].start = FALSE]
     \/ /\ fromPeer = <<>> /\ peer.end # "open"
        /\ op' = [op EXCEPT ![l] = Completed(l, MapErrorCode("eof"))]
        /\ UNCHANGED <<inBio, inBuf, fromPeer>>
  /\ inputFlag' = 0
  /\ UNCHANGED <<engine, outBio, outBuf, outputFlag, sends, got, peerGot, peer>>

(* The socket sends what the output buffer holds by then, or fails.         *)
Transmit(l) ==
  /\ op[l].pc = "sending"
  /\ \/ peerGot' = peerGot \o outBuf /\ op' = [op EXCEPT ![l].pc = "sent"]
     \/ /\ peer.end = "reset" /\ peerGot' = peerGot
        /\ op' = [op EXCEPT ![l].pc = "sent", ![l].ec = "reset"]
  /\ UNCHANGED <<engine, inBio, outBio, inBuf, outBuf, inputFlag, outputFlag, sends, got,
                 fromPeer, peer>>

(* send_callback: send what is left, then retry or call the handler.        *)
SendCallback(l) ==
  LET o == [op[l] EXCEPT !.start = FALSE] IN
  /\ op[l].pc = "sent"
  /\ IF outBio # <<>>
     THEN /\ GetOutput /\ outputFlag' = outputFlag
          /\ op' = [op EXCEPT ![l] = [o EXCEPT !.pc = "sending"]]
     ELSE /\ outputFlag' = 0 /\ UNCHANGED <<outBuf, outBio>>
          /\ op' = [op EXCEPT ![l] = IF o.want = "output_and_retry" /\ o.ec = "ok"
                                     THEN [o EXCEPT !.pc = "engine"]
                                     ELSE Completed(l, MapErrorCode(o.ec))]
  /\ UNCHANGED <<engine, inBio, inBuf, inputFlag, sends, got, fromPeer, peerGot, peer>>

----------------------------------------------------------------------------
(* The program: the handshake, then receives beside sends, then shutdown.   *)
Secured == engine.hs = Len(Script) /\ op["send"].kind # "none"
Unmoved == UNCHANGED <<engine, inBio, outBio, inBuf, outBuf, inputFlag, outputFlag, got,
                       fromPeer, peerGot, peer>>

AsynHandshake ==
  /\ op["send"].pc = "idle" /\ op["send"].kind = "none"
  /\ Start("send", "handshake", 0, FALSE) /\ sends' = sends /\ Unmoved

HandshakeDone == Secured /\ ~(op["send"].kind = "handshake" /\ op["send"].pc # "idle")

AsynSend ==
  /\ HandshakeDone /\ op["send"].pc = "idle" /\ sends < Len(Sends)
  /\ Start("send", "send", Sends[sends + 1], FALSE) /\ sends' = sends + 1 /\ Unmoved

(* asyn_recv_some and asyn_recv of two records.                             *)
AsynRecv ==
  /\ HandshakeDone /\ op["recv"].pc = "idle"
  /\ \/ Start("recv", "recv", 1, TRUE)
     \/ Start("recv", "recv", 2, FALSE)
  /\ sends' = sends /\ Unmoved

AsynShutdown ==
  /\ HandshakeDone /\ op["send"].pc = "idle" /\ sends = Len(Sends)
  /\ op["send"].kind # "shutdown"
  /\ Start("send", "shutdown", 0, FALSE) /\ sends' = sends /\ Unmoved

----------------------------------------------------------------------------
(* The peer answers the handshake, sends records, and ends in an alert, a   *)
(* broken unit, the end of its stream or a reset.                           *)
Ours == UNCHANGED <<engine, inBio, outBio, inBuf, outBuf, inputFlag, outputFlag, op, sends, got,
                    peerGot>>

PeerHandshake ==
  /\ peer.end = "open"
  /\ \E i \in DOMAIN Script :
       /\ Script[i] = "r" /\ Count("r", i) = peer.hs + 1
       /\ Count("w", i) =< Len(peerGot)
  /\ fromPeer' = Append(fromPeer, Unit("hs", peer.hs + 1, 1))
  /\ peer' = [peer EXCEPT !.hs = @ + 1]
  /\ Ours

PeerSecured == peer.hs = Count("r", Len(Script)) /\ Len(peerGot) >= Count("w", Len(Script))

PeerSend ==
  /\ PeerSecured /\ peer.end = "open" /\ peer.sent < PeerSends
  /\ fromPeer' = fromPeer \o [k \in 1..Record |-> Unit("data", peer.sent + 1, k)]
  /\ peer' = [peer EXCEPT !.sent = @ + 1]
  /\ Ours

PeerEnd ==
  /\ peer.end = "open"
  /\ \/ fromPeer' = fromPeer /\ \E e \in {"eof", "reset"} : peer' = [peer EXCEPT !.end = e]
     \/ /\ peer' = [peer EXCEPT !.end = "eof"]
        /\ \/ PeerSecured /\ fromPeer' = Append(fromPeer, CloseUnit)
           \/ fromPeer' = Append(fromPeer, Bad)
  /\ Ours

Working(l) == \/ PendingBefore(l) \/ Perform(l) \/ PendingAfter(l)
              \/ WantInput(l) \/ WantOutput(l) \/ WantNothing(l)
              \/ PostCallback(l) \/ ReceiveCallback(l) \/ Transmit(l) \/ SendCallback(l)

Next == \/ \E l \in Lanes : Working(l)
        \/ AsynHandshake \/ AsynSend \/ AsynRecv \/ AsynShutdown
        \/ PeerHandshake \/ PeerSend \/ PeerEnd

(* The service runs what is ready and the socket below sends; the peer      *)
(* answers a handshake, and owes nothing else.                              *)
Spec == Init /\ [][Next]_vars /\ (\A l \in Lanes : WF_vars(Working(l))) /\ WF_vars(PeerHandshake)

----------------------------------------------------------------------------
(* The assertions "still receiving" (551) and "still sending" (573): one    *)
(* transfer in each direction, and a flag is set exactly while some         *)
(* operation transfers; an operation that wants to send finds something     *)
(* (otherwise 581-587 return without completing it).                        *)
OneTransfer ==
  LET receiving == {l \in Lanes : op[l].pc = "receiving"}
      sending == {l \in Lanes : op[l].pc \in {"sending", "sent"}}
  IN /\ inputFlag = Cardinality(receiving) /\ outputFlag = Cardinality(sending)
     /\ \A l \in Lanes : op[l].pc = "branch" =>
          /\ op[l].want = "input_and_retry" => inputFlag = 0
          /\ op[l].want \in Outputs => outputFlag = 0 /\ outBio # <<>>

(* The peer gets the handshake, the records and the close alert in order,   *)
(* each unit once, although they pass a BIO and a buffer that are smaller   *)
(* than what is sent, and SSL_read gives the peer's records in order.  The  *)
(* last may reach the program's buffer and not be counted there: if a       *)
(* shutdown takes the peer's close alert before engine::perform looks for   *)
(* it, receive_op sees eof and appends nothing (ssl_socket.h:400).          *)
Stream == [k \in 1..Count("w", Len(Script)) |-> Unit("hs", k, 1)]
            \o FlattenSeq([r \in 1..engine.written |-> [k \in 1..Record |-> Unit("data", r, k)]])
            \o (IF engine.sentClose THEN <<CloseUnit>> ELSE <<>>)
InOrder == /\ peer.end # "reset" => IsPrefix(peerGot, Stream)
           /\ got = [r \in 1..Len(got) |-> r]

(* Every operation calls its handler in the end, and only a receive may     *)
(* wait for the peer, with nothing it sent left behind: none waits for      *)
(* output another one took, for an answer to a flight still in the BIO, or  *)
(* for input that is already there.                                         *)
Busy(l) == op[l].pc \notin {"idle", "failed"}
OperationsComplete ==
  /\ Busy("send") ~> ~Busy("send")
  /\ Busy("recv") ~> \/ ~Busy("recv")
                     \/ op["recv"].pc = "receiving" /\ fromPeer = <<>> /\ inBio = <<>>
=============================================================================
