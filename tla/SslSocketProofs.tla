--------------------------- MODULE SslSocketProofs ---------------------------
(***************************************************************************)
(* The flags of an SSL stream and the order of its units, for any          *)
(* handshake, any sizes of records and buffers and any program of sends: a *)
(* receive and a send run at the same time and never start a second        *)
(* transfer in one direction; and what the engine makes reaches the peer,  *)
(* and what the peer sends the program, in order and once.                 *)
(***************************************************************************)
EXTENDS SslSocket, FiniteSetTheorems, SequenceTheorems, WellFoundedInduction, TLAPS

----------------------------------------------------------------------------
(* The inductive invariant.                                                 *)
Units == [type : {"hs", "data", "close", "bad"}, n : Nat, part : Nat]

Buffers ==
  /\ inBio \in Seq(Units) /\ outBio \in Seq(Units) /\ inBuf \in Seq(Units)
  /\ fromPeer \in Seq(Units)
  /\ Len(inBio) =< BioSize /\ Len(outBio) =< BioSize

EngineOf(e) ==
  /\ {"hs", "rpos", "wpos", "written"} \subseteq DOMAIN e
  /\ e.hs \in 0..Len(Script) /\ e.rpos \in 0..Record - 1 /\ e.wpos \in 0..Record - 1
  /\ e.written \in Nat

Engine ==
  /\ EngineOf(engine)
  /\ {"hs", "sent"} \subseteq DOMAIN peer /\ peer.hs \in Nat /\ peer.sent \in Nat

Kinds == [recv |-> {"none", "recv"}, send |-> {"none", "handshake", "send", "shutdown"}]
Errors == [handshake |-> {"none", "want_read", "want_write", "ssl"},
           recv |-> {"none", "want_read", "zero_return", "ssl"},
           send |-> {"none", "want_write"},
           shutdown |-> {"none", "want_read", "want_write", "ssl"}]

Fields == {"pc", "kind", "want", "before", "error"}
Operations ==
  /\ op = [l \in Lanes |-> op[l]]
  /\ \A l \in Lanes :
       /\ Fields \subseteq DOMAIN op[l]
       /\ op[l].kind \in Kinds[l] /\ (op[l].kind = "none" => op[l].pc = "idle")
       /\ op[l].before \in Nat
       /\ op[l].pc = "after" => op[l].error \in Errors[op[l].kind]

(* Receives begin behind the handshake.                                     *)
Phases == op["recv"].kind = "recv" =>
            /\ op["send"].kind # "none"
            /\ op["send"].kind = "handshake" => op["send"].pc = "idle"

(* Which lane may want or do what.                                          *)
Wanted ==
  \A l \in Lanes :
    /\ op[l].pc = "branch" =>
         /\ op[l].want \in Outputs => l = "send" /\ outBio # <<>>
         /\ op[l].want = "input_and_retry" => op[l].kind \in {"recv", "handshake"}
    /\ op[l].pc = "after" /\ op[l].error = "want_write" => outBio # <<>>
    /\ op[l].pc = "receiving" => op[l].kind \in {"recv", "handshake"}
    /\ op[l].pc \in {"sending", "sent"} => l = "send"

Flags ==
  /\ inputFlag = IF \E l \in Lanes : op[l].pc = "receiving" THEN 1 ELSE 0
  /\ outputFlag = IF op["send"].pc \in {"sending", "sent"} THEN 1 ELSE 0

SslInv == Buffers /\ Engine /\ Operations /\ Phases /\ Wanted /\ Flags


----------------------------------------------------------------------------
(* Facts about the operators of the model.                                  *)

(* A nonempty set of naturals has a least element.                          *)
LEMMA LeastElement ==
  ASSUME NEW D, D \subseteq Nat, D # {}
  PROVE  \E x \in D : \A y \in D : x =< y
<1> DEFINE Below == {pair \in Nat \X Nat : pair[1] < pair[2]}
<1>1. IsWellFoundedOn(Below, Nat)
  BY NatLessThanWellFounded DEF OpToRel
<1>2. \E x \in D : \A y \in D : <<y, x>> \notin Below
  <2> HIDE DEF Below
  <2> QED
    BY <1>1, WFMin
<1>3. \A x, y \in D : <<y, x>> \notin Below => x =< y
  OBVIOUS
<1> QED
  BY <1>2, <1>3

(* And a bounded one its maximum.                                           *)
LEMMA MaxIsGreatest ==
  ASSUME NEW n \in Nat, NEW D, D \subseteq 0..n, D # {}
  PROVE  Max(D) \in D /\ \A y \in D : y =< Max(D)
<1> DEFINE E == {n - y : y \in D}
<1>1. E \subseteq Nat /\ E # {}
  <2>1. \A y \in D : n - y \in Nat
    OBVIOUS
  <2> QED
    BY <2>1
<1>2. PICK e \in E : \A f \in E : e =< f
  <2> HIDE DEF E
  <2> QED
    BY <1>1, LeastElement
<1>3. PICK x \in D : e = n - x
  OBVIOUS
<1>4. \A y \in D : x >= y
  BY <1>2, <1>3
<1>5. Max(D) \in D /\ \A y \in D : Max(D) >= y
  BY <1>3, <1>4 DEF Max
<1> QED
  BY <1>5

(* The smaller of two numbers.                                              *)
LEMMA MinOfTwo ==
  ASSUME NEW a \in Int, NEW b \in Int
  PROVE  Min({a, b}) = IF a =< b THEN a ELSE b
<1>1. CASE a =< b
  <2>1. \A x \in {a, b} : (\A y \in {a, b} : x =< y) <=> x = a
    BY <1>1
  <2> QED
    BY <1>1, <2>1 DEF Min
<1>2. CASE b < a
  <2>1. \A x \in {a, b} : (\A y \in {a, b} : x =< y) <=> x = b
    BY <1>2
  <2> QED
    BY <1>2, <2>1 DEF Min
<1> QED
  BY <1>1, <1>2

(* Dropping from a sequence and taking its first part.                      *)
LEMMA Dropped ==
  ASSUME NEW S, NEW s \in Seq(S), NEW n \in 0..Len(s)
  PROVE  /\ Drop(s, n) \in Seq(S) /\ Len(Drop(s, n)) = Len(s) - n
         /\ SubSeq(s, 1, n) \in Seq(S) /\ Len(SubSeq(s, 1, n)) = n
  BY DEF Drop

(* Counting the tokens of a prefix of the handshake: one more unit at most. *)
LEMMA CountType ==
  ASSUME NEW token, NEW i \in Nat
  PROVE  Count(token, i) \in Nat
<1>1. IsFiniteSet(1..i)
  BY FS_Interval
<1>2. IsFiniteSet({k \in 1..i : Script[k] = token})
  BY <1>1, FS_Subset
<1> QED
  BY <1>2, FS_CardinalityType DEF Count

(* One more token of the script.                                            *)
LEMMA CountNext ==
  ASSUME NEW token, NEW i \in Nat
  PROVE  Count(token, i + 1) = Count(token, i) + (IF Script[i + 1] = token THEN 1 ELSE 0)
<1> DEFINE Now == {k \in 1..i : Script[k] = token}
<1>1. IsFiniteSet(Now)
  <2>1. IsFiniteSet(1..i) /\ Now \subseteq 1..i
    BY FS_Interval
  <2> QED
    BY <2>1, FS_Subset
<1>2. i + 1 \notin Now
  OBVIOUS
<1>3. {k \in 1..i + 1 : Script[k] = token} =
        IF Script[i + 1] = token THEN Now \cup {i + 1} ELSE Now
  OBVIOUS
<1>4. Cardinality(Now \cup {i + 1}) = Cardinality(Now) + 1
  BY <1>1, <1>2, FS_AddElement
<1>5. Cardinality(Now) \in Nat
  BY <1>1, FS_CardinalityType
<1> QED
  BY <1>3, <1>4, <1>5 DEF Count

(* A longer prefix does not contain fewer.                                  *)
LEMMA CountGrows ==
  ASSUME NEW token, NEW i \in Nat, NEW j \in Nat, i =< j
  PROVE  Count(token, i) =< Count(token, j)
<1>1. IsFiniteSet({k \in 1..j : Script[k] = token})
  <2>1. IsFiniteSet(1..j) /\ {k \in 1..j : Script[k] = token} \subseteq 1..j
    BY FS_Interval
  <2> QED
    BY <2>1, FS_Subset
<1>2. {k \in 1..i : Script[k] = token} \subseteq {k \in 1..j : Script[k] = token}
  OBVIOUS
<1> QED
  BY <1>1, <1>2, FS_Subset DEF Count

----------------------------------------------------------------------------
(* What a call of the engine may do.  A call that wants to write has        *)
(* filled the BIO, and SSL_read leaves the output alone.                    *)
Answers(kind, c) ==
  /\ EngineOf(c.engine)
  /\ c.in \in Seq(Units) /\ Len(c.in) =< Len(inBio)
  /\ c.out \in Seq(Units) /\ Len(c.out) =< BioSize
  /\ c.error \in Errors[kind]
  /\ c.error = "want_write" => c.out # <<>>
  /\ kind = "recv" => c.out = outBio

(* Some units behind the output still fit when they are no more than Room.  *)
LEMMA OutputFits ==
  ASSUME Buffers, NEW units \in Seq(Units), Len(units) =< Room
  PROVE  /\ outBio \o units \in Seq(Units) /\ Len(outBio \o units) =< BioSize
         /\ Len(units) = Room => outBio \o units # <<>>
<1>1. Len(outBio \o units) = Len(outBio) + Len(units) /\ outBio \o units \in Seq(Units)
  BY DEF Buffers
<1>2. BioSize \in Nat \ {0}
  BY SslAssumption DEF SslAssumption
<1>3. Len(outBio) \in Nat /\ Len(units) \in Nat /\ Len(outBio) =< BioSize
  BY DEF Buffers
<1>4. Len(outBio \o units) =< BioSize /\ (Len(units) = Room => Len(outBio \o units) = BioSize)
  BY <1>1, <1>2, <1>3 DEF Room
<1> QED
  BY <1>1, <1>2, <1>4

(* The place the handshake comes to is the last one the BIOs allow.         *)
LEMMA HandshakeTo ==
  ASSUME Buffers, Engine
  PROVE  LET i == engine.hs
             reads(j) == Count("r", j) - Count("r", i)
             writes(j) == Count("w", j) - Count("w", i)
             J == {j \in i..Len(Script) : reads(j) =< Len(inBio) /\ writes(j) =< Room}
             to == Max(J)
         IN  /\ to \in J /\ to \in Nat /\ \A j \in J : j =< to
             /\ reads(to) \in 0..Len(inBio) /\ writes(to) \in 0..Room
<1> DEFINE i == engine.hs
           reads(j) == Count("r", j) - Count("r", i)
           writes(j) == Count("w", j) - Count("w", i)
           J == {j \in i..Len(Script) : reads(j) =< Len(inBio) /\ writes(j) =< Room}
           to == Max(J)
<1>1. Len(Script) \in Nat /\ i \in 0..Len(Script) /\ i \in Nat
  BY SslAssumption DEF SslAssumption, Engine, EngineOf
<1>2. Len(inBio) \in Nat /\ Room \in Nat
  BY SslAssumption DEF SslAssumption, Buffers, Room
<1>3. \A j \in Nat : Count("r", j) \in Nat /\ Count("w", j) \in Nat
  BY CountType
<1>4. reads(i) = 0 /\ writes(i) = 0
  <2>1. \A n \in Nat : n - n = 0
    OBVIOUS
  <2> QED
    BY <1>1, <1>3, <2>1
<1>5. J \subseteq 0..Len(Script) /\ i \in J
  BY <1>1, <1>2, <1>4
<1>6. to \in J /\ \A j \in J : j =< to
  <2> HIDE DEF J
  <2> QED
    BY <1>1, <1>5, MaxIsGreatest
<1>7. to \in i..Len(Script) /\ to \in Nat /\ reads(to) =< Len(inBio) /\ writes(to) =< Room
  <2> HIDE DEF to
  <2> QED
    BY <1>1, <1>6
<1> HIDE DEF to
<1>8. reads(to) \in 0..Len(inBio) /\ writes(to) \in 0..Room
  <2>1. Count("r", i) =< Count("r", to) /\ Count("w", i) =< Count("w", to)
    BY <1>1, <1>7, CountGrows
  <2>2. \A m, n, k \in Nat : m =< n /\ n - m =< k => n - m \in 0..k
    OBVIOUS
  <2> QED
    BY <1>1, <1>2, <1>3, <1>7, <2>1, <2>2
<1> QED
  BY <1>6, <1>7, <1>8 DEF to

(* The four calls of the engine.                                            *)
LEMMA HandshakeAnswers ==
  ASSUME Buffers, Engine, NEW c \in DoHandshake
  PROVE  Answers("handshake", c)
<1> DEFINE i == engine.hs
           reads(j) == Count("r", j) - Count("r", i)
           writes(j) == Count("w", j) - Count("w", i)
           J == {j \in i..Len(Script) : reads(j) =< Len(inBio) /\ writes(j) =< Room}
           to == Max(J)
           flight == [k \in 1..writes(to) |-> Unit("hs", Count("w", i) + k, 1)]
           out == outBio \o flight
<1>1. Len(Script) \in Nat /\ i \in 0..Len(Script) /\ i \in Nat
  BY SslAssumption DEF SslAssumption, Engine, EngineOf
<1>2. Len(inBio) \in Nat /\ Room \in Nat
  BY SslAssumption DEF SslAssumption, Buffers, Room
<1>3. \A j \in Nat : Count("r", j) \in Nat /\ Count("w", j) \in Nat
  BY CountType
<1>6. to \in J /\ \A j \in J : j =< to
  BY HandshakeTo
<1>8. reads(to) \in 0..Len(inBio) /\ writes(to) \in 0..Room
  BY HandshakeTo
<1> HIDE DEF to
<1>7. to \in i..Len(Script) /\ to \in Nat /\ reads(to) =< Len(inBio) /\ writes(to) =< Room
  BY <1>1, <1>6
<1>9. flight \in Seq(Units) /\ Len(flight) = writes(to)
  <2>1. writes(to) \in Nat
    BY <1>2, <1>8
  <2>2. Count("w", i) \in Nat
    BY <1>1, <1>3
  <2>3. \A m \in Nat, n \in Nat : \A k \in 1..n : m + k \in Nat
    OBVIOUS
  <2>4. \A k \in 1..writes(to) : Unit("hs", Count("w", i) + k, 1) \in Units
    <3> HIDE DEF writes
    <3>1. \A k \in 1..writes(to) : Count("w", i) + k \in Nat
      BY <2>1, <2>2, <2>3
    <3>2. \A n \in Nat : Unit("hs", n, 1) \in Units
      BY DEF Unit, Units
    <3> QED
      BY <3>1, <3>2
  <2> HIDE DEF writes
  <2> QED
    BY <2>1, <2>4
<1>10. out \in Seq(Units) /\ Len(out) =< BioSize /\ (writes(to) = Room => out # <<>>)
  <2>1. Len(flight) =< Room
    BY <1>7, <1>9
  <2> HIDE DEF flight
  <2> QED
    BY <1>9, <2>1, OutputFits
<1>11. ASSUME to # Len(Script), Script[to + 1] # "r"
       PROVE  out # <<>>
  <2>1. to + 1 \in i..Len(Script) /\ to + 1 \notin J
    BY <1>1, <1>6, <1>7, <1>11
  <2>2. Script[to + 1] = "w"
    <3>1. to + 1 \in 1..Len(Script)
      BY <1>1, <1>7, <2>1
    <3> QED
      BY <3>1, <1>11, SslAssumption DEF SslAssumption
  <2>3. Count("r", to + 1) = Count("r", to) + 0 /\ Count("w", to + 1) = Count("w", to) + 1
    BY <1>7, <2>2, CountNext
  <2>4. \A a, b \in Nat : (a + 0) - b = a - b /\ (a + 1) - b = (a - b) + 1
    OBVIOUS
  <2>5. reads(to + 1) = reads(to) /\ writes(to + 1) = writes(to) + 1
    <3>1. /\ Count("r", i) \in Nat /\ Count("w", i) \in Nat
          /\ Count("r", to) \in Nat /\ Count("w", to) \in Nat
      BY <1>1, <1>3, <1>7
    <3>2. /\ (Count("r", to) + 0) - Count("r", i) = Count("r", to) - Count("r", i)
          /\ (Count("w", to) + 1) - Count("w", i) = (Count("w", to) - Count("w", i)) + 1
      BY <2>4, <3>1
    <3> QED
      BY <2>3, <3>2
  <2>6. writes(to) = Room
    <3>1. reads(to + 1) =< Len(inBio)
      BY <1>7, <2>5
    <3>2. ~(writes(to) + 1 =< Room)
      BY <2>1, <2>5, <3>1
    <3> HIDE DEF writes
    <3> QED
      BY <1>2, <1>8, <3>2
  <2> QED
    BY <1>10, <2>6
<1>12. Drop(inBio, reads(to)) \in Seq(Units) /\ Len(Drop(inBio, reads(to))) =< Len(inBio)
  <2> HIDE DEF reads
  <2> QED
    BY <1>8, Dropped DEF Buffers
<1>13. EngineOf(engine) /\ EngineOf([engine EXCEPT !.hs = to])
  BY <1>1, <1>7 DEF EngineOf, Engine
<1>14. \/ c = Call("ssl", FALSE, engine, <<>>, outBio)
       \/ c = Call(IF to = Len(Script) THEN "none"
                   ELSE IF Script[to + 1] = "r" THEN "want_read" ELSE "want_write",
                   to = Len(Script), [engine EXCEPT !.hs = to], Drop(inBio, reads(to)), out)
  BY DEF DoHandshake, to
<1> DEFINE e == [engine EXCEPT !.hs = to]
           rest == Drop(inBio, reads(to))
<1>15. CASE c = Call("ssl", FALSE, engine, <<>>, outBio)
  BY <1>13, <1>15 DEF Call, Answers, Errors, Buffers
<1> HIDE DEF out, reads, e, rest
<1>16. CASE c = Call(IF to = Len(Script) THEN "none"
                     ELSE IF Script[to + 1] = "r" THEN "want_read" ELSE "want_write",
                     to = Len(Script), e, rest, out)
  <2>1. EngineOf(e) /\ rest \in Seq(Units) /\ Len(rest) =< Len(inBio)
    BY <1>12, <1>13 DEF e, rest
  <2>2. /\ c.engine = e /\ c.in = rest /\ c.out = out
        /\ c.error = IF to = Len(Script) THEN "none"
                     ELSE IF Script[to + 1] = "r" THEN "want_read" ELSE "want_write"
    BY <1>16 DEF Call
  <2> QED
    BY <1>10, <1>11, <2>1, <2>2 DEF Answers, Errors
<1> QED
  BY <1>14, <1>15, <1>16 DEF e, rest

(* SSL_read leaves the output alone and asks for input at most.             *)
LEMMA ReadAnswers ==
  ASSUME Buffers, Engine, NEW c \in DoRead
  PROVE  Answers("recv", c)
<1> DEFINE need == Record - engine.rpos
           whole == [engine EXCEPT !.rpos = 0, !.read = inBio[need].n]
           part == [engine EXCEPT !.rpos = @ + Len(inBio)]
           rest == Drop(inBio, need)
<1>1. need \in Nat \ {0} /\ Len(inBio) \in Nat
  BY SslAssumption, SMTT(30) DEF SslAssumption, Buffers, Engine, EngineOf
<1>2. /\ EngineOf(engine) /\ EngineOf([engine EXCEPT !.gotClose = TRUE]) /\ EngineOf(whole)
      /\ ~(Len(inBio) >= need) => EngineOf(part)
  BY <1>1, SslAssumption, SMTT(30) DEF EngineOf, Engine, SslAssumption
<1>3. /\ <<>> \in Seq(Units) /\ Len(<<>>) =< Len(inBio)
      /\ inBio # <<>> => Tail(inBio) \in Seq(Units) /\ Len(Tail(inBio)) =< Len(inBio)
      /\ Len(inBio) >= need => rest \in Seq(Units) /\ Len(rest) =< Len(inBio)
  <2> HIDE DEF need
  <2> QED
    BY <1>1, Dropped DEF Buffers
<1>4. \/ c = Call("zero_return", FALSE, engine, inBio, outBio)
      \/ c = Call("ssl", FALSE, engine, <<>>, outBio)
      \/ /\ inBio # <<>>
         /\ c = Call("zero_return", FALSE, [engine EXCEPT !.gotClose = TRUE], Tail(inBio), outBio)
      \/ Len(inBio) >= need /\ c = Call("none", TRUE, whole, rest, outBio)
      \/ ~(Len(inBio) >= need) /\ c = Call("want_read", FALSE, part, <<>>, outBio)
  BY Zenon DEF DoRead
<1> HIDE DEF whole, part, rest, need
<1>5. /\ EngineOf(c.engine) /\ c.in \in Seq(Units) /\ Len(c.in) =< Len(inBio) /\ c.out = outBio
      /\ c.error \in {"none", "want_read", "zero_return", "ssl"}
  <2>1. CASE c = Call("zero_return", FALSE, engine, inBio, outBio)
    BY <1>2, <2>1 DEF Call, Buffers
  <2>2. CASE c = Call("ssl", FALSE, engine, <<>>, outBio)
    BY <1>2, <1>3, <2>2 DEF Call
  <2>3. CASE /\ inBio # <<>>
             /\ c = Call("zero_return", FALSE, [engine EXCEPT !.gotClose = TRUE], Tail(inBio),
                         outBio)
    <3> DEFINE closed == [engine EXCEPT !.gotClose = TRUE]
    <3> HIDE DEF closed
    <3> QED
      BY <1>2, <1>3, <2>3 DEF Call, closed
  <2>4. CASE Len(inBio) >= need /\ c = Call("none", TRUE, whole, rest, outBio)
    BY <1>2, <1>3, <2>4 DEF Call
  <2>5. CASE ~(Len(inBio) >= need) /\ c = Call("want_read", FALSE, part, <<>>, outBio)
    BY <1>2, <1>3, <2>5 DEF Call
  <2> QED
    BY <1>4, <2>1, <2>2, <2>3, <2>4, <2>5
<1> QED
  BY <1>5 DEF Answers, Errors, Buffers

(* SSL_write writes a whole record or fills the BIO.                        *)
LEMMA WriteAnswers ==
  ASSUME Buffers, Engine, NEW c \in DoWrite
  PROVE  Answers("send", c)
<1> DEFINE n == Min({Room, Record - engine.wpos})
           units == [k \in 1..n |-> Unit("data", engine.written + 1, engine.wpos + k)]
           done == [engine EXCEPT !.wpos = 0, !.written = @ + 1]
           part == [engine EXCEPT !.wpos = @ + n]
           out == outBio \o units
<1>1. Room \in Nat /\ Record - engine.wpos \in Nat \ {0} /\ Record \in Nat \ {0}
  BY SslAssumption DEF SslAssumption, Buffers, Engine, EngineOf, Room
<1>2. n = IF Room =< Record - engine.wpos THEN Room ELSE Record - engine.wpos
  BY <1>1, MinOfTwo
<1> HIDE DEF n
<1>3. n \in Nat /\ n =< Room /\ engine.wpos \in Nat /\ engine.written \in Nat
  BY <1>1, <1>2 DEF Engine, EngineOf
<1>4. units \in Seq(Units) /\ Len(units) = n
  <2>1. \A k \in 1..n : Unit("data", engine.written + 1, engine.wpos + k) \in Units
    BY <1>3 DEF Unit, Units
  <2> QED
    BY <1>3, <2>1
<1> HIDE DEF units
<1>5. out \in Seq(Units) /\ Len(out) =< BioSize /\ (n = Room => out # <<>>)
  BY <1>3, <1>4, OutputFits
<1>6. EngineOf(done)
  BY <1>1 DEF EngineOf, Engine
<1>7. engine.wpos + n # Record => n = Room /\ EngineOf(part)
  <2>1. engine.wpos + n # Record => n = Room /\ engine.wpos + n \in 0..Record - 1
    BY <1>1, <1>2, <1>3
  <2> QED
    BY <2>1 DEF EngineOf, Engine
<1> HIDE DEF out
<1>8. \/ c = Call("none", TRUE, done, inBio, out)
      \/ engine.wpos + n # Record /\ c = Call("want_write", FALSE, part, inBio, out)
  BY Zenon DEF DoWrite, n, units, out
<1> HIDE DEF done, part
<1> QED
  BY <1>5, <1>6, <1>7, <1>8 DEF Call, Answers, Errors, Buffers

(* SSL_shutdown adds one alert, or asks for room when the BIO is full.      *)
LEMMA ShutdownAnswers ==
  ASSUME Buffers, Engine, NEW c \in DoShutdown
  PROVE  Answers("shutdown", c)
<1> DEFINE e == [engine EXCEPT !.sentClose = TRUE]
           out == IF engine.sentClose THEN outBio ELSE Append(outBio, CloseUnit)
<1>1. BioSize \in Nat \ {0} /\ Len(outBio) \in 0..BioSize
  BY SslAssumption DEF SslAssumption, Buffers
<1>2. out \in Seq(Units) /\ (Len(outBio) # BioSize \/ engine.sentClose => Len(out) =< BioSize)
  <2>1. CloseUnit \in Units
    BY DEF CloseUnit, Unit, Units
  <2>2. /\ Append(outBio, CloseUnit) \in Seq(Units)
        /\ Len(Append(outBio, CloseUnit)) = Len(outBio) + 1
    BY <2>1 DEF Buffers
  <2> QED
    BY <1>1, <2>2 DEF Buffers
<1>3. Room = 0 => Len(outBio) = BioSize /\ outBio # <<>>
  BY <1>1 DEF Room
<1>4. Len(outBio) = BioSize => Room = 0
  BY <1>1 DEF Room
<1>5. EngineOf(engine) /\ EngineOf(e) /\ EngineOf([e EXCEPT !.gotClose = TRUE])
  BY DEF EngineOf, Engine
<1>6. inBio # <<>> => Tail(inBio) \in Seq(Units) /\ Len(Tail(inBio)) =< Len(inBio)
  BY DEF Buffers
<1> HIDE DEF out, e
<1>7. CASE ~engine.sentClose /\ Room = 0
  <2>1. c.engine = engine /\ c.in = inBio /\ c.out = outBio /\ c.error = "want_write"
    BY <1>7 DEF DoShutdown, Call
  <2> QED
    BY <1>3, <1>5, <1>7, <2>1 DEF Answers, Errors, Buffers
<1>8. CASE engine.sentClose \/ Room # 0
  <2>1. \/ c = Call("none", TRUE, e, inBio, out)
        \/ inBio # <<>> /\ c = Call("none", TRUE, [e EXCEPT !.gotClose = TRUE], Tail(inBio), out)
        \/ \E err \in {"want_read", "ssl"} : c = Call(err, FALSE, e, inBio, out)
    <3>1. CASE engine.gotClose
      BY <1>8, <3>1 DEF DoShutdown, e, out
    <3>2. CASE ~engine.gotClose /\ inBio # <<>> /\ Head(inBio) = CloseUnit
      BY <1>8, <3>2 DEF DoShutdown, e, out
    <3>3. CASE ~engine.gotClose /\ ~(inBio # <<>> /\ Head(inBio) = CloseUnit)
      <4> DEFINE Errs == IF inBio = <<>> THEN {"want_read"} ELSE {"want_read", "ssl"}
      <4>1. c \in {Call(err, FALSE, e, inBio, out) : err \in Errs}
        BY Zenon, <1>8, <3>3 DEF DoShutdown, e, out
      <4>2. Errs \subseteq {"want_read", "ssl"}
        OBVIOUS
      <4> QED
        BY <4>1, <4>2
    <3> QED
      BY <3>1, <3>2, <3>3
  <2>2. /\ EngineOf(c.engine) /\ c.in \in Seq(Units) /\ Len(c.in) =< Len(inBio) /\ c.out = out
        /\ c.error \in {"none", "want_read", "ssl"}
    <3>1. CASE c = Call("none", TRUE, e, inBio, out)
      BY <1>5, <3>1 DEF Call, Buffers
    <3>2. CASE inBio # <<>> /\ c = Call("none", TRUE, [e EXCEPT !.gotClose = TRUE], Tail(inBio), out)
      <4> DEFINE closed == [e EXCEPT !.gotClose = TRUE]
      <4> HIDE DEF closed
      <4> QED
        BY <1>5, <1>6, <3>2 DEF Call, closed
    <3>3. CASE \E err \in {"want_read", "ssl"} : c = Call(err, FALSE, e, inBio, out)
      BY <1>5, <3>3 DEF Call, Buffers
    <3> QED
      BY <2>1, <3>1, <3>2, <3>3
  <2> QED
    BY <1>2, <1>4, <1>8, <2>2 DEF Answers, Errors
<1> QED
  BY <1>7, <1>8

----------------------------------------------------------------------------
(* An operation that goes from its place to another: what has to hold of    *)
(* the new place o.                                                         *)
LEMMA OneReceives ==
  ASSUME Operations, Phases, Wanted, NEW l \in Lanes, NEW k \in Lanes,
         op[l].kind \in {"recv", "handshake"}, op[l].pc # "idle", op[k].pc = "receiving"
  PROVE  k = l
<1>1. op[k].kind \in {"recv", "handshake"} /\ op[k].kind \in Kinds[k] /\ op[l].kind \in Kinds[l]
  BY DEF Wanted, Operations
<1>2. Kinds["recv"] = {"none", "recv"} /\ Kinds["send"] = {"none", "handshake", "send", "shutdown"}
  BY DEF Kinds
<1> QED
  BY <1>1, <1>2 DEF Phases, Lanes

(* Where it may go without disturbing the invariant.                        *)
LEMMA Moved ==
  ASSUME SslInv, NEW l \in Lanes, NEW o, op' = [op EXCEPT ![l] = o], op[l].pc # "idle",
         Fields \subseteq DOMAIN o, o.kind = op[l].kind, o.before \in Nat,
         o.pc = "after" => o.error \in Errors[o.kind],
         o.pc = "after" /\ o.error = "want_write" => outBio' # <<>>,
         o.pc = "branch" /\ o.want \in Outputs => l = "send" /\ outBio' # <<>>,
         o.pc = "branch" /\ o.want = "input_and_retry" => o.kind \in {"recv", "handshake"},
         o.pc = "receiving" => o.kind \in {"recv", "handshake"},
         o.pc \in {"sending", "sent"} => l = "send",
         l = "recv" => outBio' = outBio /\ outputFlag' = outputFlag,
         l = "send" => outputFlag' = IF o.pc \in {"sending", "sent"} THEN 1 ELSE 0,
         inputFlag' = IF o.pc = "receiving" THEN 1
                      ELSE IF op[l].pc = "receiving" THEN 0 ELSE inputFlag
  PROVE  Operations' /\ Phases' /\ Wanted' /\ Flags'
<1>1. op'[l] = o /\ op' = [k \in Lanes |-> op'[k]] /\ \A k \in Lanes : k # l => op'[k] = op[k]
  BY DEF SslInv, Operations
<1>2. Operations'
  <2>1. o.kind # "none" /\ o.kind \in Kinds[l]
    BY DEF SslInv, Operations
  <2>2. ASSUME NEW k \in Lanes
        PROVE  /\ Fields \subseteq DOMAIN op'[k]
               /\ op'[k].kind \in Kinds[k] /\ (op'[k].kind = "none" => op'[k].pc = "idle")
               /\ op'[k].before \in Nat
               /\ op'[k].pc = "after" => op'[k].error \in Errors[op'[k].kind]
    <3>1. CASE k = l
      BY <1>1, <2>1, <3>1
    <3>2. CASE k # l
      BY <1>1, <3>2 DEF SslInv, Operations
    <3> QED
      BY <3>1, <3>2
  <2> QED
    BY <1>1, <2>2 DEF Operations
<1>3. Phases'
  BY <1>1 DEF SslInv, Phases, Lanes
<1>4. \A k \in Lanes \ {l} :
        /\ op[k].pc = "branch" /\ op[k].want \in Outputs => outBio' # <<>>
        /\ op[k].pc = "after" /\ op[k].error = "want_write" => outBio' # <<>>
  <2>1. CASE l = "recv"
    BY <2>1 DEF SslInv, Wanted
  <2>2. CASE l = "send"
    <3>1. op["recv"].pc = "after" => op["recv"].error # "want_write"
      BY DEF SslInv, Operations, Kinds, Errors, Lanes
    <3>2. op["recv"].pc = "branch" => op["recv"].want \notin Outputs
      BY DEF SslInv, Wanted, Lanes
    <3> QED
      BY <2>2, <3>1, <3>2 DEF Lanes
  <2> QED
    BY <2>1, <2>2 DEF Lanes
<1>5. Wanted'
  <2>1. ASSUME NEW k \in Lanes
        PROVE  /\ op'[k].pc = "branch" =>
                    /\ op'[k].want \in Outputs => k = "send" /\ outBio' # <<>>
                    /\ op'[k].want = "input_and_retry" => op'[k].kind \in {"recv", "handshake"}
               /\ op'[k].pc = "after" /\ op'[k].error = "want_write" => outBio' # <<>>
               /\ op'[k].pc = "receiving" => op'[k].kind \in {"recv", "handshake"}
               /\ op'[k].pc \in {"sending", "sent"} => k = "send"
    <3>1. CASE k = l
      BY <1>1, <3>1
    <3>2. CASE k # l
      BY <1>1, <1>4, <3>2 DEF SslInv, Wanted
    <3> QED
      BY <3>1, <3>2
  <2> QED
    BY <2>1 DEF Wanted
<1>6. inputFlag' = IF \E k \in Lanes : op'[k].pc = "receiving" THEN 1 ELSE 0
  <2>1. CASE o.pc = "receiving"
    BY <1>1, <2>1
  <2>2. CASE o.pc # "receiving" /\ op[l].pc = "receiving"
    <3>1. \A k \in Lanes : op[k].pc = "receiving" => k = l
      BY <2>2, OneReceives DEF SslInv, Wanted
    <3> QED
      BY <1>1, <2>2, <3>1
  <2>3. CASE o.pc # "receiving" /\ op[l].pc # "receiving"
    BY <1>1, <2>3 DEF SslInv, Flags
  <2> QED
    BY <2>1, <2>2, <2>3
<1>7. outputFlag' = IF op'["send"].pc \in {"sending", "sent"} THEN 1 ELSE 0
  BY <1>1 DEF SslInv, Flags, Lanes
<1> QED
  BY <1>2, <1>3, <1>5, <1>6, <1>7 DEF Flags

----------------------------------------------------------------------------
(* The steps of an operation.                                               *)
LEMMA CompletedPlace ==
  ASSUME Operations, NEW l \in Lanes, NEW ec
  PROVE  LET o == Completed(l, ec)
         IN  /\ Fields \subseteq DOMAIN o /\ o.kind = op[l].kind /\ o.before = op[l].before
             /\ o.pc \in {"engine", "idle", "failed"}
  BY DEF Operations, Fields, Completed

(* The operations of a set of lanes that only one of them changes.          *)
LEMMA Keeps ==
  ASSUME SslInv, UNCHANGED <<engine, inBio, outBio, inBuf, fromPeer, peer>>
  PROVE  Buffers' /\ Engine'
  BY DEF SslInv, Buffers, Engine

(* The pending output is read before the call,                              *)
LEMMA PendingBeforeStep ==
  ASSUME SslInv, NEW l \in Lanes, PendingBefore(l)
  PROVE  SslInv'
<1> DEFINE o == [op[l] EXCEPT !.pc = "perform", !.before = Len(outBio)]
<1>1. op' = [op EXCEPT ![l] = o] /\ op[l].pc = "engine"
  BY DEF PendingBefore, SslInv, Operations
<1>2. /\ Fields \subseteq DOMAIN o /\ o.kind = op[l].kind /\ o.before \in Nat
      /\ o.pc = "perform"
  BY DEF SslInv, Operations, Fields, Buffers
<1>3. UNCHANGED <<engine, inBio, outBio, inBuf, inputFlag, outputFlag, fromPeer, peer>>
  BY DEF PendingBefore
<1>4. l = "send" => outputFlag = 0
  BY <1>1 DEF SslInv, Flags
<1> HIDE DEF o
<1>5. Operations' /\ Phases' /\ Wanted' /\ Flags'
  BY <1>1, <1>2, <1>3, <1>4, Moved
<1> QED
  BY <1>3, <1>5, Keeps DEF SslInv

(* The call of the engine, and what is asked of its answer.                 *)
LEMMA PerformStep ==
  ASSUME SslInv, NEW l \in Lanes, Perform(l)
  PROVE  SslInv'
<1>1. PICK c \in Calls(op[l].kind) :
        /\ engine' = c.engine /\ inBio' = c.in /\ outBio' = c.out
        /\ op' = [op EXCEPT ![l] = [op[l] EXCEPT !.pc = "after", !.error = c.error,
                                      !.done = c.done, !.left = IF c.done THEN @ - 1 ELSE @]]
  BY DEF Perform
<1>2. op[l].pc = "perform" /\ UNCHANGED <<inBuf, inputFlag, outputFlag, fromPeer, peer>>
  BY DEF Perform
<1>3. op[l].kind \in {"handshake", "recv", "send", "shutdown"} /\ op[l].kind \in Kinds[l]
  BY <1>2 DEF SslInv, Operations, Kinds, Lanes
<1>4. Answers(op[l].kind, c)
  BY <1>1, <1>3, HandshakeAnswers, ReadAnswers, WriteAnswers, ShutdownAnswers DEF SslInv, Calls
<1> DEFINE o == [op[l] EXCEPT !.pc = "after", !.error = c.error,
                              !.done = c.done, !.left = IF c.done THEN @ - 1 ELSE @]
<1>5. /\ Fields \subseteq DOMAIN o /\ o.kind = op[l].kind /\ o.before \in Nat
      /\ o.pc = "after" /\ o.error = c.error
  BY DEF SslInv, Operations, Fields
<1> HIDE DEF o
<1>6. op' = [op EXCEPT ![l] = o]
  BY <1>1 DEF o
<1>7. o.error \in Errors[o.kind] /\ (o.error = "want_write" => outBio' # <<>>)
  BY <1>1, <1>4, <1>5 DEF Answers
<1>8. (l = "recv" => op[l].kind = "recv") /\ (op[l].kind = "recv" => outBio' = outBio)
  BY <1>1, <1>3, <1>4 DEF Answers, Kinds
<1>9. l = "send" => outputFlag = 0
  BY <1>2 DEF SslInv, Flags
<1>10. Operations' /\ Phases' /\ Wanted' /\ Flags'
  BY <1>2, <1>5, <1>6, <1>7, <1>8, <1>9, Moved
<1>11. Buffers' /\ Engine'
  <2>1. Len(inBio') \in Nat /\ Len(inBio) \in Nat /\ BioSize \in Nat
    BY <1>1, <1>4, SslAssumption DEF SslInv, Answers, Buffers, SslAssumption
  <2> QED
    BY <1>1, <1>2, <1>4, <2>1 DEF SslInv, Answers, Buffers, Engine
<1> QED
  BY <1>10, <1>11 DEF SslInv

(* and behind it, where what the operation wants is decided.                *)
LEMMA PendingAfterStep ==
  ASSUME SslInv, NEW l \in Lanes, PendingAfter(l)
  PROVE  SslInv'
<1> DEFINE w == Want(op[l])
           o == [op[l] EXCEPT !.pc = "branch", !.want = w.want, !.ec = w.ec]
<1>1. op' = [op EXCEPT ![l] = o] /\ op[l].pc = "after"
  BY DEF PendingAfter, SslInv, Operations
<1>2. /\ Fields \subseteq DOMAIN o /\ o.kind = op[l].kind /\ o.before \in Nat
      /\ o.pc = "branch" /\ o.want = w.want
  BY DEF SslInv, Operations, Fields
<1>3. UNCHANGED <<engine, inBio, outBio, inBuf, inputFlag, outputFlag, fromPeer, peer>>
  BY DEF PendingAfter
<1>4. l = "send" => outputFlag = 0
  BY <1>1 DEF SslInv, Flags
<1>5. /\ op[l].kind \in Kinds[l] /\ op[l].kind # "none" /\ op[l].error \in Errors[op[l].kind]
      /\ op[l].before \in Nat /\ Len(outBio) \in Nat /\ (op[l].error = "want_write" => outBio # <<>>)
  BY <1>1 DEF SslInv, Operations, Wanted, Buffers
<1>6. op[l].kind \in {"recv", "handshake", "send", "shutdown"} /\ (op[l].kind # "recv" => l = "send")
  BY <1>5 DEF Kinds, Lanes
<1>7. Len(outBio) > op[l].before => outBio # <<>>
  BY <1>5
<1>8. op[l].kind = "recv" => op[l].error # "want_write"
  BY <1>5 DEF Errors
<1>9. op[l].error = "want_read" => op[l].kind \in {"recv", "handshake", "shutdown"}
  BY <1>5, <1>6 DEF Errors
<1>10. w.want \in Outputs => l = "send" /\ outBio # <<>>
  BY <1>5, <1>6, <1>7, <1>8 DEF Want, Outputs
<1>11. w.want = "input_and_retry" => op[l].kind \in {"recv", "handshake"}
  BY <1>9 DEF Want
<1> HIDE DEF o, w
<1>12. Operations' /\ Phases' /\ Wanted' /\ Flags'
  BY <1>1, <1>2, <1>3, <1>4, <1>10, <1>11, Moved
<1> QED
  BY <1>3, <1>12, Keeps DEF SslInv

(* Some of a buffer goes to the input BIO.                                  *)
LEMMA InputPut ==
  ASSUME Buffers, NEW buf \in Seq(Units), PutInput(buf)
  PROVE  inBio' \in Seq(Units) /\ Len(inBio') =< BioSize /\ inBuf' \in Seq(Units)
<1> DEFINE room == BioSize - Len(inBio)
           n == Min({Len(buf), room})
<1>1. room \in Nat /\ Len(inBio) + room = BioSize
  BY SslAssumption DEF SslAssumption, Buffers
<1>2. n \in 0..Len(buf) /\ n =< room
  <2> HIDE DEF room
  <2> QED
    BY <1>1, MinOfTwo
<1>3. inBio' = inBio \o SubSeq(buf, 1, n) /\ inBuf' = Drop(buf, n)
  BY DEF PutInput
<1> HIDE DEF n
<1>4. /\ SubSeq(buf, 1, n) \in Seq(Units) /\ Len(SubSeq(buf, 1, n)) = n
      /\ Drop(buf, n) \in Seq(Units)
  BY <1>2, Dropped
<1>5. inBio' \in Seq(Units) /\ Len(inBio') = Len(inBio) + n
  BY <1>3, <1>4 DEF Buffers
<1> QED
  BY <1>1, <1>2, <1>3, <1>4, <1>5 DEF Buffers

(* The three branches of io_operation.                                      *)
LEMMA WantInputStep ==
  ASSUME SslInv, NEW l \in Lanes, WantInput(l)
  PROVE  SslInv'
<1>1. /\ op[l].pc = "branch" /\ op[l].want = "input_and_retry"
      /\ UNCHANGED <<engine, outBio, outputFlag, fromPeer, peer>>
  BY DEF WantInput
<1>2. op[l].kind \in {"recv", "handshake"} /\ (l = "send" => outputFlag = 0)
  BY <1>1 DEF SslInv, Wanted, Flags
<1>3. CASE inBuf # <<>>
  <2> DEFINE o == [op[l] EXCEPT !.pc = "engine"]
  <2>1. op' = [op EXCEPT ![l] = o] /\ PutInput(inBuf) /\ inputFlag' = inputFlag
    BY <1>3 DEF WantInput, SslInv, Operations
  <2>2. /\ Fields \subseteq DOMAIN o /\ o.kind = op[l].kind /\ o.before \in Nat
        /\ o.pc = "engine"
    BY DEF SslInv, Operations, Fields
  <2> HIDE DEF o
  <2>3. Operations' /\ Phases' /\ Wanted' /\ Flags'
    BY <1>1, <1>2, <2>1, <2>2, Moved
  <2>4. inBio' \in Seq(Units) /\ Len(inBio') =< BioSize /\ inBuf' \in Seq(Units)
    BY <2>1, InputPut DEF SslInv, Buffers
  <2> QED
    BY <1>1, <2>3, <2>4 DEF SslInv, Buffers, Engine
<1>4. CASE inBuf = <<>>
  <2> DEFINE o == [op[l] EXCEPT !.pc = "receiving"]
  <2>1. op' = [op EXCEPT ![l] = o] /\ UNCHANGED <<inBio, inBuf>> /\ inputFlag' = 1
    BY <1>4 DEF WantInput, SslInv, Operations
  <2>2. /\ Fields \subseteq DOMAIN o /\ o.kind = op[l].kind /\ o.before \in Nat
        /\ o.pc = "receiving"
    BY DEF SslInv, Operations, Fields
  <2> HIDE DEF o
  <2>3. Operations' /\ Phases' /\ Wanted' /\ Flags'
    BY <1>1, <1>2, <2>1, <2>2, Moved
  <2> QED
    BY <1>1, <2>1, <2>3, Keeps DEF SslInv
<1> QED
  BY <1>3, <1>4

(* What the output BIO holds goes to the buffer, as much as it takes.       *)
LEMMA OutputGot ==
  ASSUME Buffers, GetOutput
  PROVE  outBio' \in Seq(Units) /\ Len(outBio') =< BioSize
<1> DEFINE n == Min({BufSize, Len(outBio)})
<1>1. n \in 0..Len(outBio)
  <2>1. BufSize \in Nat /\ Len(outBio) \in Nat
    BY SslAssumption DEF SslAssumption, Buffers
  <2>2. n = IF BufSize =< Len(outBio) THEN BufSize ELSE Len(outBio)
    BY <2>1, MinOfTwo
  <2> QED
    BY <2>1, <2>2
<1>2. outBio' = Drop(outBio, n)
  BY DEF GetOutput
<1> HIDE DEF n
<1>3. Drop(outBio, n) \in Seq(Units) /\ Len(Drop(outBio, n)) = Len(outBio) - n
  BY <1>1, Dropped DEF Buffers
<1> QED
  BY <1>1, <1>2, <1>3, SslAssumption DEF SslAssumption, Buffers

(* Only the other lane sends, and it finds something to send.               *)
LEMMA WantOutputStep ==
  ASSUME SslInv, NEW l \in Lanes, WantOutput(l)
  PROVE  SslInv'
<1> DEFINE o == [op[l] EXCEPT !.pc = "sending"]
<1>1. /\ op[l].pc = "branch" /\ op[l].want \in Outputs
      /\ UNCHANGED <<engine, inBio, inBuf, inputFlag, fromPeer, peer>>
  BY DEF WantOutput
<1>2. l = "send" /\ outBio # <<>>
  BY <1>1 DEF SslInv, Wanted
<1>3. GetOutput /\ outputFlag' = 1 /\ op' = [op EXCEPT ![l] = o]
  BY <1>2 DEF WantOutput, SslInv, Operations
<1>4. /\ Fields \subseteq DOMAIN o /\ o.kind = op[l].kind /\ o.before \in Nat
      /\ o.pc = "sending"
  BY DEF SslInv, Operations, Fields
<1> HIDE DEF o
<1>5. Operations' /\ Phases' /\ Wanted' /\ Flags'
  BY <1>1, <1>2, <1>3, <1>4, Moved
<1>6. outBio' \in Seq(Units) /\ Len(outBio') =< BioSize
  BY <1>3, OutputGot DEF SslInv
<1> QED
  BY <1>1, <1>5, <1>6 DEF SslInv, Buffers, Engine

(* The handler is posted or run, and the operation may go on.               *)
LEMMA WantNothingStep ==
  ASSUME SslInv, NEW l \in Lanes, WantNothing(l) \/ PostCallback(l)
  PROVE  SslInv'
<1>1. /\ op[l].pc \in {"branch", "posted"}
      /\ UNCHANGED <<engine, inBio, outBio, inBuf, inputFlag, outputFlag, fromPeer, peer>>
  BY DEF WantNothing, PostCallback
<1>2. PICK o : /\ op' = [op EXCEPT ![l] = o] /\ Fields \subseteq DOMAIN o
               /\ o.kind = op[l].kind /\ o.before = op[l].before
               /\ o.pc \in {"posted", "engine", "idle", "failed"}
  <2> DEFINE posted == [op[l] EXCEPT !.pc = "posted"]
             told == Completed(l, MapErrorCode(op[l].ec))
             done == Completed(l, op[l].ec)
  <2>1. op' \in {[op EXCEPT ![l] = posted], [op EXCEPT ![l] = told], [op EXCEPT ![l] = done]}
    BY DEF WantNothing, PostCallback, SslInv, Operations
  <2>2. /\ Fields \subseteq DOMAIN posted /\ posted.kind = op[l].kind
        /\ posted.before = op[l].before /\ posted.pc = "posted"
    BY DEF SslInv, Operations, Fields
  <2>3. /\ Fields \subseteq DOMAIN told /\ told.kind = op[l].kind /\ told.before = op[l].before
        /\ told.pc \in {"engine", "idle", "failed"}
    BY CompletedPlace DEF SslInv
  <2>4. /\ Fields \subseteq DOMAIN done /\ done.kind = op[l].kind /\ done.before = op[l].before
        /\ done.pc \in {"engine", "idle", "failed"}
    BY CompletedPlace DEF SslInv
  <2> HIDE DEF posted, told, done
  <2> QED
    BY <2>1, <2>2, <2>3, <2>4
<1>3. o.before \in Nat /\ (l = "send" => outputFlag = 0)
  BY <1>1, <1>2 DEF SslInv, Operations, Flags
<1>4. Operations' /\ Phases' /\ Wanted' /\ Flags'
  BY <1>1, <1>2, <1>3, Moved
<1> QED
  BY <1>1, <1>4, Keeps DEF SslInv

(* The callbacks of the socket below.                                       *)
LEMMA ReceiveCallbackStep ==
  ASSUME SslInv, NEW l \in Lanes, ReceiveCallback(l)
  PROVE  SslInv'
<1>1. /\ op[l].pc = "receiving" /\ inputFlag' = 0
      /\ UNCHANGED <<engine, outBio, outputFlag, peer>>
  BY DEF ReceiveCallback
<1>2. op[l].kind \in {"recv", "handshake"} /\ (l = "send" => outputFlag = 0)
  BY <1>1 DEF SslInv, Wanted, Flags
<1>3. ASSUME NEW n \in 1..Min({BufSize - Len(inBuf), Len(fromPeer)}),
             PutInput(inBuf \o SubSeq(fromPeer, 1, n)), fromPeer' = Drop(fromPeer, n),
             op' = [op EXCEPT ![l].pc = "engine", ![l].start = FALSE]
      PROVE  SslInv'
  <2> DEFINE o == [op[l] EXCEPT !.pc = "engine", !.start = FALSE]
  <2>1. op' = [op EXCEPT ![l] = o]
    BY <1>3 DEF SslInv, Operations
  <2>2. /\ Fields \subseteq DOMAIN o /\ o.kind = op[l].kind /\ o.before \in Nat
        /\ o.pc = "engine"
    BY DEF SslInv, Operations, Fields
  <2> HIDE DEF o
  <2>3. Operations' /\ Phases' /\ Wanted' /\ Flags'
    BY <1>1, <1>2, <2>1, <2>2, Moved
  <2>4. n \in 0..Len(fromPeer)
    <3>1. Len(fromPeer) \in Nat /\ BufSize - Len(inBuf) \in Int
      BY SslAssumption DEF SslAssumption, SslInv, Buffers
    <3> DEFINE m == Min({BufSize - Len(inBuf), Len(fromPeer)})
    <3>2. m \in Int /\ m =< Len(fromPeer)
      BY <3>1, MinOfTwo
    <3> HIDE DEF m
    <3>3. n \in 1..m
      BY <1>3 DEF m
    <3> QED
      BY <3>1, <3>2, <3>3
  <2>5. SubSeq(fromPeer, 1, n) \in Seq(Units) /\ Drop(fromPeer, n) \in Seq(Units)
    BY <2>4, Dropped DEF SslInv, Buffers
  <2>6. inBuf \o SubSeq(fromPeer, 1, n) \in Seq(Units)
    BY <2>5 DEF SslInv, Buffers
  <2>7. inBio' \in Seq(Units) /\ Len(inBio') =< BioSize /\ inBuf' \in Seq(Units)
    BY <1>3, <2>6, InputPut DEF SslInv
  <2> QED
    BY <1>1, <1>3, <2>3, <2>5, <2>7 DEF SslInv, Buffers, Engine
<1>4. ASSUME op' = [op EXCEPT ![l] = Completed(l, MapErrorCode("eof"))],
             UNCHANGED <<inBio, inBuf, fromPeer>>
      PROVE  SslInv'
  <2> DEFINE o == Completed(l, MapErrorCode("eof"))
  <2>1. /\ Fields \subseteq DOMAIN o /\ o.kind = op[l].kind /\ o.before = op[l].before
        /\ o.pc \in {"engine", "idle", "failed"}
    BY CompletedPlace DEF SslInv
  <2>2. op' = [op EXCEPT ![l] = o] /\ o.before \in Nat
    BY <1>4, <2>1 DEF SslInv, Operations
  <2> HIDE DEF o
  <2>3. Operations' /\ Phases' /\ Wanted' /\ Flags'
    BY <1>1, <1>2, <2>1, <2>2, Moved
  <2> QED
    BY <1>1, <1>4, <2>3, Keeps DEF SslInv
<1> QED
  BY <1>3, <1>4 DEF ReceiveCallback

(* The socket sends the buffer; then its callback runs.                     *)
LEMMA TransmitStep ==
  ASSUME SslInv, NEW l \in Lanes, Transmit(l)
  PROVE  SslInv'
<1>1. /\ op[l].pc = "sending" /\ l = "send"
      /\ UNCHANGED <<engine, inBio, outBio, inBuf, inputFlag, outputFlag, fromPeer, peer>>
  BY DEF Transmit, SslInv, Wanted
<1>2. PICK o : /\ op' = [op EXCEPT ![l] = o] /\ Fields \subseteq DOMAIN o
               /\ o.kind = op[l].kind /\ o.before = op[l].before /\ o.pc = "sent"
  <2> DEFINE good == [op[l] EXCEPT !.pc = "sent"]
             bad == [op[l] EXCEPT !.pc = "sent", !.ec = "reset"]
  <2>1. op' \in {[op EXCEPT ![l] = good], [op EXCEPT ![l] = bad]}
    BY DEF Transmit, SslInv, Operations
  <2>2. /\ Fields \subseteq DOMAIN good /\ good.kind = op[l].kind
        /\ good.before = op[l].before /\ good.pc = "sent"
    BY DEF SslInv, Operations, Fields
  <2>3. /\ Fields \subseteq DOMAIN bad /\ bad.kind = op[l].kind
        /\ bad.before = op[l].before /\ bad.pc = "sent"
    BY DEF SslInv, Operations, Fields
  <2> HIDE DEF good, bad
  <2> QED
    BY <2>1, <2>2, <2>3
<1>3. o.before \in Nat /\ outputFlag = 1
  BY <1>1, <1>2 DEF SslInv, Operations, Flags
<1>4. Operations' /\ Phases' /\ Wanted' /\ Flags'
  BY <1>1, <1>2, <1>3, Moved
<1> QED
  BY <1>1, <1>4, Keeps DEF SslInv

(* The rest is sent, or the operation tries again, or it is over.           *)
LEMMA SendCallbackStep ==
  ASSUME SslInv, NEW l \in Lanes, SendCallback(l)
  PROVE  SslInv'
<1> DEFINE o0 == [op[l] EXCEPT !.start = FALSE]
<1>1. /\ op[l].pc = "sent" /\ l = "send"
      /\ UNCHANGED <<engine, inBio, inBuf, inputFlag, fromPeer, peer>>
  BY DEF SendCallback, SslInv, Wanted
<1>2. CASE outBio # <<>>
  <2> DEFINE o == [o0 EXCEPT !.pc = "sending"]
  <2>1. op' = [op EXCEPT ![l] = o] /\ GetOutput /\ outputFlag' = outputFlag
    BY <1>2 DEF SendCallback
  <2>2. /\ Fields \subseteq DOMAIN o /\ o.kind = op[l].kind /\ o.before \in Nat
        /\ o.pc = "sending" /\ outputFlag = 1
    BY <1>1 DEF SslInv, Operations, Fields, Flags
  <2> HIDE DEF o
  <2>3. Operations' /\ Phases' /\ Wanted' /\ Flags'
    BY <1>1, <2>1, <2>2, Moved
  <2>4. outBio' \in Seq(Units) /\ Len(outBio') =< BioSize
    BY <2>1, OutputGot DEF SslInv
  <2> QED
    BY <1>1, <2>3, <2>4 DEF SslInv, Buffers, Engine
<1>3. CASE outBio = <<>>
  <2> DEFINE again == [o0 EXCEPT !.pc = "engine"]
             told == Completed(l, MapErrorCode(o0.ec))
  <2>1. /\ op' \in {[op EXCEPT ![l] = again], [op EXCEPT ![l] = told]}
        /\ outputFlag' = 0 /\ UNCHANGED outBio
    BY <1>3 DEF SendCallback
  <2>2. /\ Fields \subseteq DOMAIN again /\ again.kind = op[l].kind
        /\ again.before = op[l].before /\ again.pc = "engine"
    BY DEF SslInv, Operations, Fields
  <2>3. /\ Fields \subseteq DOMAIN told /\ told.kind = op[l].kind /\ told.before = op[l].before
        /\ told.pc \in {"engine", "idle", "failed"}
    BY CompletedPlace DEF SslInv
  <2> HIDE DEF again, told
  <2>4. PICK o : /\ op' = [op EXCEPT ![l] = o] /\ Fields \subseteq DOMAIN o
                 /\ o.kind = op[l].kind /\ o.before = op[l].before
                 /\ o.pc \in {"engine", "idle", "failed"}
    BY <2>1, <2>2, <2>3
  <2>5. o.before \in Nat
    BY <2>4 DEF SslInv, Operations
  <2>6. Operations' /\ Phases' /\ Wanted' /\ Flags'
    BY <1>1, <2>1, <2>4, <2>5, Moved
  <2> QED
    BY <1>1, <2>1, <2>6, Keeps DEF SslInv
<1> QED
  BY <1>2, <1>3

----------------------------------------------------------------------------
(* The program starts an operation in a lane that has none under way.       *)
LEMMA StartStep ==
  ASSUME SslInv, NEW l \in Lanes, NEW kind, NEW left, NEW some, Start(l, kind, left, some),
         op[l].pc \notin {"receiving", "sending", "sent"}, kind \in Kinds[l], kind # "none",
         \/ l = "send" /\ kind = "handshake" /\ op["recv"].kind # "recv"
         \/ l = "send" /\ kind # "handshake"
         \/ l = "recv" /\ op["send"].kind # "none"
              /\ ~(op["send"].kind = "handshake" /\ op["send"].pc # "idle"),
         UNCHANGED <<engine, inBio, outBio, inBuf, inputFlag, outputFlag, fromPeer, peer>>
  PROVE  SslInv'
<1> DEFINE o == [NoOp EXCEPT !.pc = "engine", !.kind = kind, !.start = TRUE,
                             !.left = left, !.some = some]
<1>1. op' = [op EXCEPT ![l] = o]
  BY DEF Start
<1>2. Fields \subseteq DOMAIN o /\ o.kind = kind /\ o.before = 0 /\ o.pc = "engine"
  BY DEF NoOp, Fields
<1> HIDE DEF o
<1>3. op'[l] = o /\ op' = [k \in Lanes |-> op'[k]] /\ \A k \in Lanes : k # l => op'[k] = op[k]
  BY <1>1 DEF SslInv, Operations
<1>4. Operations'
  <2>1. ASSUME NEW k \in Lanes
        PROVE  /\ Fields \subseteq DOMAIN op'[k]
               /\ op'[k].kind \in Kinds[k] /\ (op'[k].kind = "none" => op'[k].pc = "idle")
               /\ op'[k].before \in Nat
               /\ op'[k].pc = "after" => op'[k].error \in Errors[op'[k].kind]
    <3>1. CASE k = l
      BY <1>2, <1>3, <3>1
    <3>2. CASE k # l
      BY <1>3, <3>2 DEF SslInv, Operations
    <3> QED
      BY <3>1, <3>2
  <2> QED
    BY <1>3, <2>1 DEF Operations
<1>5. Phases'
  BY <1>2, <1>3 DEF SslInv, Phases, Lanes
<1>6. Wanted'
  BY <1>2, <1>3 DEF SslInv, Wanted, Outputs
<1>7. Flags'
  <2>1. \A k \in Lanes : op'[k].pc = "receiving" <=> op[k].pc = "receiving"
    BY <1>2, <1>3
  <2>2. op'["send"].pc \in {"sending", "sent"} <=> op["send"].pc \in {"sending", "sent"}
    BY <1>2, <1>3 DEF Lanes
  <2> QED
    BY <2>1, <2>2 DEF SslInv, Flags
<1> QED
  BY <1>4, <1>5, <1>6, <1>7, Keeps DEF SslInv

(* What the program and the peer do.                                        *)
LEMMA ProgramStep ==
  ASSUME SslInv, AsynHandshake \/ AsynSend \/ AsynRecv \/ AsynShutdown
  PROVE  SslInv'
<1>1. UNCHANGED <<engine, inBio, outBio, inBuf, inputFlag, outputFlag, fromPeer, peer>>
  BY DEF AsynHandshake, AsynSend, AsynRecv, AsynShutdown, Unmoved
<1>2. /\ {"handshake", "send", "shutdown"} \subseteq Kinds["send"] /\ "recv" \in Kinds["recv"]
      /\ "send" \in Lanes /\ "recv" \in Lanes
  BY DEF Kinds, Lanes
<1>3. CASE AsynHandshake
  BY <1>1, <1>2, <1>3, StartStep DEF AsynHandshake, SslInv, Phases
<1>4. CASE AsynSend
  BY <1>1, <1>2, <1>4, StartStep DEF AsynSend
<1>5. CASE AsynRecv
  BY <1>1, <1>2, <1>5, StartStep DEF AsynRecv, HandshakeDone, Secured
<1>6. CASE AsynShutdown
  BY <1>1, <1>2, <1>6, StartStep DEF AsynShutdown
<1> QED
  BY <1>3, <1>4, <1>5, <1>6

(* The peer only adds to what is on its way.                                *)
LEMMA PeerStep ==
  ASSUME SslInv, PeerHandshake \/ PeerSend \/ PeerEnd
  PROVE  SslInv'
<1>1. UNCHANGED <<engine, inBio, outBio, inBuf, inputFlag, outputFlag, op>>
  BY DEF PeerHandshake, PeerSend, PeerEnd, Ours
<1>2. /\ fromPeer' \in Seq(Units) /\ {"hs", "sent"} \subseteq DOMAIN peer'
      /\ peer'.hs \in Nat /\ peer'.sent \in Nat
  <2>1. CASE PeerHandshake
    BY <2>1 DEF PeerHandshake, SslInv, Buffers, Engine, Unit, Units
  <2>2. CASE PeerSend
    <3> DEFINE record == [k \in 1..Record |-> Unit("data", peer.sent + 1, k)]
    <3>1. \A k \in 1..Record : Unit("data", peer.sent + 1, k) \in Units
      BY SslAssumption DEF SslAssumption, SslInv, Engine, Unit, Units
    <3>2. record \in Seq(Units)
      BY <3>1, SslAssumption DEF SslAssumption
    <3> HIDE DEF record
    <3> QED
      BY <2>2, <3>2 DEF PeerSend, SslInv, Buffers, Engine, record
  <2>3. CASE PeerEnd
    <3>1. CloseUnit \in Units /\ Bad \in Units
      BY DEF CloseUnit, Bad, Unit, Units
    <3>2. fromPeer' \in {fromPeer, Append(fromPeer, CloseUnit), Append(fromPeer, Bad)}
      BY <2>3 DEF PeerEnd
    <3>3. \E e : peer' = [peer EXCEPT !.end = e]
      BY <2>3 DEF PeerEnd
    <3>4. fromPeer' \in Seq(Units)
      <4>1. \A u \in Units : Append(fromPeer, u) \in Seq(Units)
        BY DEF SslInv, Buffers
      <4> QED
        BY <3>1, <3>2, <4>1 DEF SslInv, Buffers
    <3> QED
      BY <3>3, <3>4 DEF SslInv, Engine
  <2> QED
    BY <2>1, <2>2, <2>3
<1> QED
  BY <1>1, <1>2 DEF SslInv, Buffers, Engine, Operations, Phases, Wanted, Flags

(* The invariant holds at first and in every step.                          *)
LEMMA SslInit == Init => SslInv
<1> SUFFICES ASSUME Init PROVE SslInv
  OBVIOUS
<1>1. Buffers
  BY SslAssumption DEF Init, Buffers, SslAssumption
<1>2. Engine
  BY SslAssumption DEF Init, Engine, EngineOf, SslAssumption
<1>3. \A l \in Lanes : op[l] = NoOp
  BY DEF Init
<1>4. Operations /\ Phases /\ Wanted /\ Flags
  BY <1>3 DEF Init, NoOp, Operations, Fields, Kinds, Phases, Wanted, Flags, Lanes
<1> QED
  BY <1>1, <1>2, <1>4 DEF SslInv

(* Every step keeps it.                                                     *)
LEMMA SslStep == SslInv /\ [Next]_vars => SslInv'
<1> SUFFICES ASSUME SslInv, [Next]_vars PROVE SslInv'
  OBVIOUS
<1>1. ASSUME NEW l \in Lanes, Working(l) PROVE SslInv'
  BY <1>1, PendingBeforeStep, PerformStep, PendingAfterStep, WantInputStep, WantOutputStep,
     WantNothingStep, ReceiveCallbackStep, TransmitStep, SendCallbackStep DEF Working
<1>2. CASE UNCHANGED vars
  BY <1>2 DEF vars, SslInv, Buffers, Engine, Operations, Phases, Wanted, Flags
<1> QED
  BY <1>1, <1>2, ProgramStep, PeerStep DEF Next

----------------------------------------------------------------------------
(* The assertions "still receiving" and "still sending" of io_operation     *)
(* never fail: one transfer in each direction, each flag set exactly while  *)
(* one is under way, and an operation that wants to send finds something.   *)
THEOREM OneTransferCorrect == Spec => []OneTransfer
<1>1. ASSUME SslInv PROVE OneTransfer
  <2> DEFINE receiving == {l \in Lanes : op[l].pc = "receiving"}
             sending == {l \in Lanes : op[l].pc \in {"sending", "sent"}}
  <2>1. inputFlag = Cardinality(receiving)
    <3>1. CASE receiving = {}
      BY <1>1, <3>1, FS_EmptySet DEF SslInv, Flags
    <3>2. ASSUME NEW l \in receiving PROVE inputFlag = Cardinality(receiving)
      <4>1. receiving = {l}
        BY <1>1, <3>2, OneReceives DEF SslInv, Wanted
      <4> QED
        BY <1>1, <4>1, FS_Singleton DEF SslInv, Flags
    <3> QED
      BY <3>1, <3>2
  <2>2. outputFlag = Cardinality(sending)
    <3>1. CASE op["send"].pc \in {"sending", "sent"}
      <4>1. sending = {"send"}
        BY <1>1, <3>1 DEF SslInv, Wanted, Lanes
      <4> QED
        BY <1>1, <3>1, <4>1, FS_Singleton DEF SslInv, Flags
    <3>2. CASE op["send"].pc \notin {"sending", "sent"}
      <4>1. sending = {}
        BY <1>1, <3>2 DEF SslInv, Wanted, Lanes
      <4> QED
        BY <1>1, <3>2, <4>1, FS_EmptySet DEF SslInv, Flags
    <3> QED
      BY <3>1, <3>2
  <2>3. ASSUME NEW l \in Lanes, op[l].pc = "branch", op[l].want = "input_and_retry"
        PROVE  inputFlag = 0
    <3>1. op[l].kind \in {"recv", "handshake"} /\ op[l].pc # "idle"
      BY <1>1, <2>3 DEF SslInv, Wanted
    <3>2. \A k \in Lanes : op[k].pc # "receiving"
      BY <1>1, <2>3, <3>1, OneReceives DEF SslInv
    <3> QED
      BY <1>1, <3>2 DEF SslInv, Flags
  <2>4. ASSUME NEW l \in Lanes, op[l].pc = "branch", op[l].want \in Outputs
        PROVE  outputFlag = 0 /\ outBio # <<>>
    BY <1>1, <2>4 DEF SslInv, Wanted, Flags
  <2> QED
    BY <2>1, <2>2, <2>3, <2>4 DEF OneTransfer
<1> QED
  BY <1>1, SslInit, SslStep, PTL DEF Spec

----------------------------------------------------------------------------
(* The order of what is sent.  Together the peer, the transfer under way    *)
(* and the BIO hold what the engine has made, until the connection is       *)
(* reset.                                                                   *)
Rec(r) == [k \in 1..Record |-> Unit("data", r, k)]
Recs(w) == [r \in 1..w |-> Rec(r)]
Hs(i) == [k \in 1..Count("w", i) |-> Unit("hs", k, 1)]
Tip(e) == IF e.sentClose THEN <<CloseUnit>> ELSE <<>>
Sent(e) == (Hs(e.hs) \o FlattenSeq(Recs(e.written))) \o Tip(e)

(* What the order needs of the types.                                       *)
Sealed == /\ {"read", "sentClose", "gotClose"} \subseteq DOMAIN engine
          /\ "ec" \in DOMAIN op["send"] /\ outBuf \in Seq(Units) /\ peerGot \in Seq(Units)

(* When the output BIO is empty.                                            *)
QuietAt(o, out) ==
  /\ o.pc \in {"idle", "engine", "perform", "receiving"} => out = <<>>
  /\ o.pc \in {"perform", "after"} => o.before = 0
  /\ (o.pc = "branch" /\ o.want \notin Outputs) \/ o.pc = "posted" => out = <<>> \/ o.ec = "ssl"
  /\ o.pc = "branch" /\ o.ec = "ssl" => o.want = "nothing"

(* How far the stream has come: the output is empty when SSL_write is       *)
(* called, so that no record is written in part.                            *)
Stages ==
  /\ engine.wpos = 0
  /\ op["send"].kind \in {"send", "shutdown"} \/ op["recv"].kind = "recv" => engine.hs = Len(Script)
  /\ op["send"].kind \in {"none", "handshake"} => engine.written = 0
  /\ engine.sentClose => op["send"].kind = "shutdown"
  /\ op["send"].kind = "shutdown" => sends = Len(Sends)

(* What the socket below is sending, and the order.                         *)
Transit(o, buf) == IF o.pc = "sending" THEN buf ELSE <<>>
OutLine == peer.end # "reset" =>
             (peerGot \o Transit(op["send"], outBuf)) \o outBio = Sent(engine)

OutInv == Sealed /\ QuietAt(op["send"], outBio) /\ Stages /\ OutLine

(* The order of what comes.  Each unit in the BIO, the buffer or on its     *)
(* way stands at its position of the peer's stream, counted from what the   *)
(* engine has consumed.                                                     *)
Promised == Count("r", Len(Script))

(* A unit at a position of the peer's stream.                               *)
Right(u, at, last, p) ==
  \/ u.type = "hs" /\ at =< p.hs
  \/ \E r \in 1..p.sent : \E q \in 1..Record :
       u = Unit("data", r, q) /\ at = Promised + (r - 1) * Record + q
  \/ u \in {CloseUnit, Bad} /\ last /\ p.end # "open" /\ at = p.hs + p.sent * Record + 1
Line(stream, base, p) ==
  /\ p.end = "open" => base + Len(stream) = p.hs + p.sent * Record
  /\ \A k \in 1..Len(stream) : Right(stream[k], base + k, k = Len(stream), p)

Consumed == Count("r", engine.hs) + Len(got) * Record + engine.rpos
Incoming == (inBio \o inBuf) \o fromPeer

InInv ==
  /\ "end" \in DOMAIN peer
  /\ peer.hs =< Promised /\ (peer.sent > 0 => peer.hs = Promised)
  /\ got \in Seq(Nat) /\ got = [r \in 1..Len(got) |-> r]
  /\ got # <<>> \/ engine.rpos > 0 => engine.hs = Len(Script)
  /\ Line(Incoming, Consumed, peer)

----------------------------------------------------------------------------
(* Joining and cutting sequences of units.                                  *)

(* Joining units is associative.                                            *)
LEMMA UnitsJoin == \A s, t, u \in Seq(Units) : (s \o t) \o u = s \o (t \o u)
BY ConcatAssociative

(* The function that joins the records, as FlattenSeq defines it.           *)
JoinOf(f, seqs) ==
  f = [i \in 1..Len(seqs) |-> IF i = 1 THEN seqs[i] ELSE f[i - 1] \o seqs[i]]
Joins(f, w) == f = [i \in 1..w |-> IF i = 1 THEN Rec(i) ELSE f[i - 1] \o Rec(i)]

(* The two say the same of the records.                                     *)
LEMMA JoinOfRecords ==
  ASSUME NEW w \in Nat
  PROVE  \A f : JoinOf(f, Recs(w)) <=> Joins(f, w)
<1>1. Len(Recs(w)) = w /\ \A i \in 1..w : Recs(w)[i] = Rec(i)
  BY DEF Recs
<1> HIDE DEF Recs
<1> QED
  BY <1>1 DEF JoinOf, Joins

(* What FlattenSeq picks.                                                   *)
LEMMA Joined ==
  ASSUME NEW w \in Nat \ {0}
  PROVE  FlattenSeq(Recs(w)) = (CHOOSE f : JoinOf(f, Recs(w)))[w]
<1>1. Len(Recs(w)) = w
  BY DEF Recs
<1> QED
  BY <1>1 DEF FlattenSeq, JoinOf

(* There is such a function, whatever the number of records,                *)
LEMMA JoinExists ==
  ASSUME NEW w \in Nat
  PROVE  \E f : Joins(f, w)
<1> DEFINE D == {v \in Nat : ~ \E f : Joins(f, v)}
<1>1. ASSUME D # {} PROVE FALSE
  <2>1. PICK v \in D : \A u \in D : v =< u
    <3>1. D \subseteq Nat
      OBVIOUS
    <3> HIDE DEF D
    <3> QED
      BY <1>1, <3>1, LeastElement
  <2>2. CASE v = 0
    <3>1. Joins(<<>>, 0)
      BY DEF Joins
    <3> QED
      BY <2>2, <3>1
  <2>3. CASE v # 0
    <3>1. v - 1 \in Nat /\ v - 1 \notin D
      BY <2>1, <2>3
    <3>2. PICK f : Joins(f, v - 1)
      BY <3>1
    <3> DEFINE g == [i \in 1..v |-> IF i = 1 THEN Rec(i) ELSE f[i - 1] \o Rec(i)]
    <3>3. \A i \in 1..v - 1 : g[i] = f[i]
      <4>1. ASSUME NEW i \in 1..v - 1 PROVE g[i] = f[i]
        <5>1. i \in 1..v
          BY <2>1, <4>1
        <5>2. f[i] = IF i = 1 THEN Rec(i) ELSE f[i - 1] \o Rec(i)
          BY <3>2, <4>1 DEF Joins
        <5> QED
          BY <5>1, <5>2
      <4> QED
        BY <4>1
    <3>4. \A i \in 1..v : i # 1 => i - 1 \in 1..v - 1
      BY <2>1
    <3>5. g = [i \in 1..v |-> IF i = 1 THEN Rec(i) ELSE g[i - 1] \o Rec(i)]
      <4>1. \A i \in 1..v : i # 1 => g[i - 1] = f[i - 1]
        BY <3>3, <3>4
      <4>2. \A i \in 1..v : g[i] = IF i = 1 THEN Rec(i) ELSE g[i - 1] \o Rec(i)
        BY <4>1
      <4>3. g = [i \in 1..v |-> g[i]]
        OBVIOUS
      <4> HIDE DEF g
      <4> QED
        BY <4>2, <4>3
    <3> HIDE DEF g
    <3>6. Joins(g, v)
      BY <3>5 DEF Joins
    <3> QED
      BY <2>1, <3>6
  <2> QED
    BY <2>2, <2>3
<1> QED
  BY <1>1

(* and a longer one agrees with a shorter one.                              *)
LEMMA JoinUnique ==
  ASSUME NEW w \in Nat, NEW v \in Nat, v =< w, NEW f, Joins(f, v), NEW g, Joins(g, w)
  PROVE  \A i \in 1..v : f[i] = g[i]
<1> DEFINE D == {i \in 1..v : f[i] # g[i]}
<1>1. ASSUME D # {} PROVE FALSE
  <2>1. PICK i \in D : \A j \in D : i =< j
    <3>1. D \subseteq Nat
      OBVIOUS
    <3> HIDE DEF D
    <3> QED
      BY <1>1, <3>1, LeastElement
  <2>2. i \in 1..v /\ i \in 1..w
    BY <2>1
  <2>3. i # 1 => f[i - 1] = g[i - 1]
    BY <2>1
  <2>4. /\ f[i] = IF i = 1 THEN Rec(i) ELSE f[i - 1] \o Rec(i)
        /\ g[i] = IF i = 1 THEN Rec(i) ELSE g[i - 1] \o Rec(i)
    BY <2>2 DEF Joins
  <2> QED
    BY <2>1, <2>3, <2>4
<1> QED
  BY <1>1

(* A record on the wire.                                                    *)
LEMMA RecordType ==
  ASSUME NEW r \in Nat
  PROVE  Rec(r) \in Seq(Units) /\ Len(Rec(r)) = Record /\ \A p \in 1..Record : Rec(r)[p] = Unit("data", r, p)
<1>1. Record \in Nat
  BY SslAssumption DEF SslAssumption
<1>2. \A k \in 1..Record : Unit("data", r, k) \in Units
  BY <1>1 DEF Unit, Units
<1> QED
  BY <1>1, <1>2 DEF Rec

(* One record more behind those that were written.                          *)
LEMMA RecordsJoined ==
  ASSUME NEW w \in Nat
  PROVE  /\ FlattenSeq(Recs(w)) \in Seq(Units)
         /\ w = 0 => FlattenSeq(Recs(w)) = <<>>
         /\ FlattenSeq(Recs(w + 1)) = FlattenSeq(Recs(w)) \o Rec(w + 1)
<1> DEFINE J(v) == CHOOSE f : JoinOf(f, Recs(v))
<1>1. \A v \in Nat : Joins(J(v), v)
  BY JoinExists, JoinOfRecords
<1> HIDE DEF J
<1>2. \A v \in Nat \ {0} : FlattenSeq(Recs(v)) = J(v)[v]
  BY Joined DEF J
<1>3. FlattenSeq(Recs(0)) = <<>>
  <2>1. Recs(0) = <<>>
    BY DEF Recs
  <2> QED
    BY <2>1 DEF FlattenSeq
<1>4. J(w + 1)[w + 1] = IF w = 0 THEN Rec(w + 1) ELSE J(w + 1)[w] \o Rec(w + 1)
  <2>1. w + 1 \in Nat /\ w + 1 \in 1..w + 1 /\ (w + 1) - 1 = w /\ (w + 1 = 1 <=> w = 0)
    OBVIOUS
  <2>2. Joins(J(w + 1), w + 1)
    BY <1>1, <2>1
  <2>3. J(w + 1)[w + 1] = IF w + 1 = 1 THEN Rec(w + 1) ELSE J(w + 1)[(w + 1) - 1] \o Rec(w + 1)
    BY <2>1, <2>2 DEF Joins
  <2> QED
    BY <2>1, <2>3
<1>5. w # 0 => J(w + 1)[w] = J(w)[w]
  <2>1. w + 1 \in Nat /\ w =< w + 1 /\ (w # 0 => w \in 1..w)
    OBVIOUS
  <2>2. Joins(J(w + 1), w + 1) /\ Joins(J(w), w)
    BY <1>1, <2>1
  <2> QED
    BY <2>1, <2>2, JoinUnique
<1>6. \A i \in 1..w : J(w)[i] \in Seq(Units)
  <2> DEFINE D == {i \in 1..w : J(w)[i] \notin Seq(Units)}
  <2>1. ASSUME D # {} PROVE FALSE
    <3>1. PICK i \in D : \A j \in D : i =< j
      <4>1. D \subseteq Nat
        OBVIOUS
      <4> HIDE DEF D
      <4> QED
        BY <2>1, <4>1, LeastElement
    <3>2. i \in 1..w /\ i \in Nat
      BY <3>1
    <3>3. i # 1 => J(w)[i - 1] \in Seq(Units)
      BY <3>1
    <3>4. J(w)[i] = IF i = 1 THEN Rec(i) ELSE J(w)[i - 1] \o Rec(i)
      BY <1>1, <3>2 DEF Joins
    <3>5. Rec(i) \in Seq(Units)
      BY <3>2, RecordType
    <3>6. i # 1 => J(w)[i - 1] \o Rec(i) \in Seq(Units)
      BY <3>3, <3>5, ConcatProperties
    <3> QED
      BY <3>1, <3>4, <3>5, <3>6
  <2> QED
    BY <2>1
<1>7. FlattenSeq(Recs(w)) \in Seq(Units)
  <2>1. CASE w = 0
    BY <1>3, <2>1, EmptySeq
  <2>2. CASE w # 0
    <3>1. w \in 1..w
      BY <2>2
    <3> QED
      BY <1>2, <1>6, <2>2, <3>1
  <2> QED
    BY <2>1, <2>2
<1>8. FlattenSeq(Recs(w + 1)) = FlattenSeq(Recs(w)) \o Rec(w + 1)
  <2>1. FlattenSeq(Recs(w + 1)) = J(w + 1)[w + 1]
    BY <1>2
  <2>2. CASE w = 0
    <3>1. Rec(w + 1) \in Seq(Units)
      BY RecordType
    <3> QED
      BY <1>3, <1>4, <2>1, <2>2, <3>1
  <2>3. CASE w # 0
    BY <1>2, <1>4, <1>5, <2>1, <2>3
  <2> QED
    BY <2>2, <2>3
<1> QED
  BY <1>3, <1>7, <1>8

(* A sequence is its first part and what dropping that leaves.              *)
LEMMA TakenApart ==
  ASSUME NEW S, NEW s \in Seq(S), NEW n \in 0..Len(s)
  PROVE  SubSeq(s, 1, n) \o Drop(s, n) = s
<1>1. Len(s) \in Nat /\ 1 \in 1..Len(s) + 1 /\ n \in (1 - 1)..Len(s) /\ Len(s) \in n..Len(s)
  OBVIOUS
<1>2. SubSeq(s, 1, n) \o SubSeq(s, n + 1, Len(s)) = SubSeq(s, 1, Len(s))
  BY <1>1, ConcatAdjacentSubSeq
<1> QED
  BY <1>2, SubSeqFull DEF Drop

----------------------------------------------------------------------------
(* The units of a flight.                                                   *)
LEMMA FlightType ==
  ASSUME NEW m \in Nat, NEW n \in Nat
  PROVE  /\ [k \in 1..n |-> Unit("hs", m + k, 1)] \in Seq(Units)
         /\ Len([k \in 1..n |-> Unit("hs", m + k, 1)]) = n
<1>1. \A k \in 1..n : Unit("hs", m + k, 1) \in Units
  BY DEF Unit, Units
<1> QED
  BY <1>1

(* The units of the handshake up to a place of its script.                  *)
LEMMA HandshakeType ==
  ASSUME NEW i \in Nat
  PROVE  Hs(i) \in Seq(Units)
<1>1. Count("w", i) \in Nat
  BY CountType
<1>2. \A k \in 1..Count("w", i) : Unit("hs", k, 1) \in Units
  BY <1>1 DEF Unit, Units
<1> QED
  BY <1>1, <1>2 DEF Hs

(* The flights of the handshake, one behind the other.                      *)
LEMMA HandshakeJoined ==
  ASSUME NEW i \in Nat, NEW to \in Nat, NEW n \in Nat, Count("w", to) = Count("w", i) + n
  PROVE  LET flight == [k \in 1..n |-> Unit("hs", Count("w", i) + k, 1)]
         IN  /\ Hs(to) = Hs(i) \o flight /\ flight \in Seq(Units)
             /\ Hs(i) \in Seq(Units) /\ Hs(to) \in Seq(Units)
<1> DEFINE m == Count("w", i)
           flight == [k \in 1..n |-> Unit("hs", m + k, 1)]
<1>1. m \in Nat /\ Count("w", to) = m + n
  BY CountType
<1>2. flight \in Seq(Units) /\ Len(flight) = n
  <2> HIDE DEF m
  <2> QED
    BY <1>1, FlightType
<1>3. Hs(i) \in Seq(Units) /\ Hs(to) \in Seq(Units)
  BY HandshakeType
<1>4. /\ Len(Hs(i)) = m /\ \A k \in 1..m : Hs(i)[k] = Unit("hs", k, 1)
      /\ Len(Hs(to)) = m + n /\ \A k \in 1..m + n : Hs(to)[k] = Unit("hs", k, 1)
      /\ \A k \in 1..n : flight[k] = Unit("hs", m + k, 1)
  BY <1>1 DEF Hs
<1> DEFINE s == Hs(i) \o flight
<1> HIDE DEF m, flight
<1>5. s \in Seq(Units) /\ Len(s) = m + n
      /\ \A k \in 1..m + n : s[k] = IF k =< m THEN Hs(i)[k] ELSE flight[k - m]
  BY <1>2, <1>3, <1>4, ConcatProperties
<1>6. \A k \in 1..m + n : s[k] = Unit("hs", k, 1)
  <2>1. ASSUME NEW k \in 1..m + n, k =< m PROVE s[k] = Unit("hs", k, 1)
    BY <1>1, <1>4, <1>5, <2>1
  <2>2. ASSUME NEW k \in 1..m + n, ~(k =< m) PROVE s[k] = Unit("hs", k, 1)
    <3>1. k - m \in 1..n /\ m + (k - m) = k
      BY <1>1, <2>2
    <3> HIDE DEF s
    <3> QED
      BY <1>4, <1>5, <2>2, <3>1
  <2> QED
    BY <2>1, <2>2
<1>7. s = Hs(to)
  <2> HIDE DEF s
  <2> QED
    BY <1>3, <1>4, <1>5, <1>6, SeqEqual
<1> QED
  BY <1>2, <1>3, <1>7 DEF m, flight, s

(* A sequence is a prefix of what it begins.                                *)
LEMMA PrefixOfJoin ==
  ASSUME NEW s \in Seq(Units), NEW t \in Seq(Units)
  PROVE  IsPrefix(s, s \o t)
<1>1. SubSeq(s, 1, Len(s)) = s
  BY SubSeqFull
<1>2. s \o t \in Seq(Units) /\ Len(s \o t) = Len(s) + Len(t) /\ Len(s) \in Nat /\ Len(t) \in Nat
      /\ \A i \in 1..Len(s) : (s \o t)[i] = s[i]
  BY ConcatProperties
<1>3. SubSeq(s \o t, 1, Len(s)) = s
  <2> DEFINE u == s \o t
             p == SubSeq(u, 1, Len(s))
  <2>1. p \in Seq(Units) /\ Len(p) = Len(s) /\ \A i \in 1..Len(s) : p[i] = u[i]
    <3> HIDE DEF u
    <3>1. u \in Seq(Units) /\ Len(s) \in 0..Len(u)
      BY <1>2 DEF u
    <3> QED
      BY <3>1
  <2> HIDE DEF p
  <2>2. \A i \in 1..Len(p) : p[i] = s[i]
    BY <1>2, <2>1
  <2>3. p = s
    BY <2>1, <2>2, SeqEqual
  <2> QED
    BY <2>3 DEF p
<1> QED
  BY <1>1, <1>2, <1>3 DEF IsPrefix

(* The stream of the engine is a sequence of units, and so are its parts.   *)
LEMMA SentParts ==
  ASSUME NEW e, EngineOf(e)
  PROVE  /\ Hs(e.hs) \in Seq(Units) /\ FlattenSeq(Recs(e.written)) \in Seq(Units)
         /\ Tip(e) \in Seq(Units) /\ Sent(e) \in Seq(Units)
<1>1. e.hs \in Nat /\ e.written \in Nat
  BY SslAssumption DEF EngineOf, SslAssumption
<1>2. Hs(e.hs) \in Seq(Units)
  BY <1>1, HandshakeType
<1>3. FlattenSeq(Recs(e.written)) \in Seq(Units)
  BY <1>1, RecordsJoined
<1>4. Tip(e) \in Seq(Units)
  <2>1. CloseUnit \in Units
    BY DEF CloseUnit, Unit, Units
  <2>2. \A u \in Units : <<u>> \in Seq(Units)
    OBVIOUS
  <2>3. <<CloseUnit>> \in Seq(Units) /\ <<>> \in Seq(Units)
    BY <2>1, <2>2, EmptySeq
  <2> QED
    BY <2>3 DEF Tip
<1> QED
  BY <1>2, <1>3, <1>4, ConcatProperties DEF Sent

(* The handshake goes on to some place of its script.                       *)
LEMMA HandshakeGoes ==
  ASSUME Buffers, Engine, NEW c \in DoHandshake
  PROVE  \/ /\ c = Call("ssl", FALSE, engine, <<>>, outBio)
            /\ \E k \in 1..Len(inBio) : inBio[k] = Bad
         \/ \E to \in engine.hs..Len(Script) :
              /\ Count("r", to) - Count("r", engine.hs) \in 0..Len(inBio)
              /\ Count("w", to) - Count("w", engine.hs) \in Nat
              /\ c.engine = [engine EXCEPT !.hs = to]
              /\ c.in = Drop(inBio, Count("r", to) - Count("r", engine.hs))
              /\ c.out = outBio \o [k \in 1..Count("w", to) - Count("w", engine.hs) |->
                                      Unit("hs", Count("w", engine.hs) + k, 1)]
<1> DEFINE i == engine.hs
           reads(j) == Count("r", j) - Count("r", i)
           writes(j) == Count("w", j) - Count("w", i)
           J == {j \in i..Len(Script) : reads(j) =< Len(inBio) /\ writes(j) =< Room}
           to == Max(J)
           out == outBio \o [k \in 1..writes(to) |-> Unit("hs", Count("w", i) + k, 1)]
<1>2. Len(inBio) \in Nat
  BY DEF Buffers
<1>6. to \in J
  BY HandshakeTo
<1>8. reads(to) \in 0..Len(inBio) /\ writes(to) \in Nat
  <2>1. reads(to) \in 0..Len(inBio) /\ writes(to) \in 0..Room
    BY HandshakeTo
  <2>2. Room \in Nat
    BY SslAssumption DEF SslAssumption, Buffers, Room
  <2> QED
    BY <2>1, <2>2
<1> HIDE DEF to
<1>7. to \in i..Len(Script)
  BY <1>6
<1>9. \/ c = Call("ssl", FALSE, engine, <<>>, outBio) /\ \E k \in 1..reads(to) : inBio[k] = Bad
      \/ c = Call(IF to = Len(Script) THEN "none"
                   ELSE IF Script[to + 1] = "r" THEN "want_read" ELSE "want_write",
                   to = Len(Script), [engine EXCEPT !.hs = to], Drop(inBio, reads(to)), out)
  BY Zenon DEF DoHandshake, to
<1>10. 1..reads(to) \subseteq 1..Len(inBio)
  <2> HIDE DEF reads
  <2> QED
    BY <1>2, <1>8
<1>11. ASSUME c = Call("ssl", FALSE, engine, <<>>, outBio), \E k \in 1..reads(to) : inBio[k] = Bad
       PROVE  \E k \in 1..Len(inBio) : inBio[k] = Bad
  BY <1>10, <1>11
<1>12. ASSUME c = Call(IF to = Len(Script) THEN "none"
                   ELSE IF Script[to + 1] = "r" THEN "want_read" ELSE "want_write",
                   to = Len(Script), [engine EXCEPT !.hs = to], Drop(inBio, reads(to)), out)
       PROVE  c.engine = [engine EXCEPT !.hs = to] /\ c.in = Drop(inBio, reads(to)) /\ c.out = out
  <2> DEFINE e == [engine EXCEPT !.hs = to]
             rest == Drop(inBio, reads(to))
  <2> HIDE DEF out, e, rest
  <2> QED
    BY <1>12 DEF Call, e, rest
<1> QED
  BY <1>7, <1>8, <1>9, <1>11, <1>12

(* What each call adds to the output is what it adds to the stream.         *)
CallSends(c) == /\ DOMAIN c.engine = DOMAIN engine
                /\ c.engine.wpos = 0
                /\ Sent(c.engine) = Sent(engine) \o c.out

(* The handshake adds its next flight,                                      *)
LEMMA HandshakeSends ==
  ASSUME Buffers, Engine, outBio = <<>>, engine.wpos = 0, engine.written = 0, ~engine.sentClose,
         {"written", "sentClose", "wpos", "hs"} \subseteq DOMAIN engine, NEW c \in DoHandshake
  PROVE  CallSends(c) /\ c.engine.written = 0 /\ c.engine.sentClose = engine.sentClose
         /\ c.engine.hs >= engine.hs
<1>1. engine.hs \in Nat /\ Len(Script) \in Nat /\ engine.hs \in 0..Len(Script)
  BY SslAssumption DEF Engine, EngineOf, SslAssumption
<1>2. \A e : EngineOf(e) /\ e.written = 0 /\ ~e.sentClose => Sent(e) = Hs(e.hs)
  <2> SUFFICES ASSUME NEW e, EngineOf(e), e.written = 0, ~e.sentClose PROVE Sent(e) = Hs(e.hs)
    OBVIOUS
  <2>1. FlattenSeq(Recs(e.written)) = <<>> /\ Tip(e) = <<>>
    BY RecordsJoined DEF Tip
  <2>2. Hs(e.hs) \in Seq(Units)
    BY SentParts
  <2> QED
    BY <2>1, <2>2, ConcatEmptySeq DEF Sent
<1>3. Sent(engine) \in Seq(Units)
  BY SentParts DEF Engine
<1>4. CASE c = Call("ssl", FALSE, engine, <<>>, outBio)
  <2>1. c.engine = engine /\ c.out = <<>>
    BY <1>4 DEF Call
  <2> QED
    BY <1>1, <1>3, <2>1, ConcatEmptySeq DEF CallSends
<1>5. ASSUME NEW to \in engine.hs..Len(Script),
             Count("w", to) - Count("w", engine.hs) \in Nat,
             c.engine = [engine EXCEPT !.hs = to],
             c.out = outBio \o [k \in 1..Count("w", to) - Count("w", engine.hs) |->
                                  Unit("hs", Count("w", engine.hs) + k, 1)]
      PROVE  CallSends(c) /\ c.engine.written = 0 /\ c.engine.sentClose = engine.sentClose
             /\ c.engine.hs >= engine.hs
  <2> DEFINE m == Count("w", engine.hs)
             n == Count("w", to) - m
             flight == [k \in 1..n |-> Unit("hs", m + k, 1)]
  <2>1. to \in Nat /\ m \in Nat /\ Count("w", to) \in Nat /\ n \in Nat /\ m + n = Count("w", to)
    BY <1>1, <1>5, CountType
  <2>2. flight \in Seq(Units) /\ Len(flight) = n
    <3> HIDE DEF m, n
    <3> QED
      BY <2>1, FlightType
  <2>3. c.out = flight
    BY <1>5, <2>2, ConcatEmptySeq
  <2>4. /\ DOMAIN c.engine = DOMAIN engine /\ c.engine.wpos = 0 /\ c.engine.written = 0
        /\ c.engine.sentClose = engine.sentClose /\ c.engine.hs = to /\ EngineOf(c.engine)
    BY <1>1, <1>5 DEF Engine, EngineOf
  <2>5. Sent(engine) = Hs(engine.hs) /\ Sent(c.engine) = Hs(to)
    BY <1>2, <2>4 DEF Engine
  <2>8. Hs(engine.hs) \o flight = Hs(to)
    BY <1>1, <2>1, HandshakeJoined
  <2>9. c.engine.hs >= engine.hs
    BY <1>1, <2>1, <2>4
  <2> QED
    BY <2>3, <2>4, <2>5, <2>8, <2>9 DEF CallSends
<1> QED
  BY <1>4, <1>5, HandshakeGoes

(* SSL_write a whole record, since the empty BIO has room for one,          *)
LEMMA WriteSends ==
  ASSUME Buffers, Engine, outBio = <<>>, engine.wpos = 0, ~engine.sentClose,
         {"written", "sentClose", "wpos", "hs"} \subseteq DOMAIN engine, NEW c \in DoWrite
  PROVE  CallSends(c) /\ c.engine.sentClose = engine.sentClose /\ c.engine.hs = engine.hs
<1> DEFINE w == engine.written
           n == Min({Room, Record - engine.wpos})
           units == [k \in 1..n |-> Unit("data", w + 1, engine.wpos + k)]
<1>1. n = Record /\ Record \in Nat \ {0}
  <2>1. BioSize \in Nat /\ Record \in Nat \ {0} /\ BioSize >= Record /\ Len(outBio) = 0
    BY SslAssumption DEF SslAssumption
  <2>2. Room = BioSize /\ Record - engine.wpos = Record
    BY <2>1 DEF Room
  <2> QED
    BY <2>1, <2>2, MinOfTwo
<1>2. units = Rec(w + 1)
  BY <1>1 DEF Rec
<1> HIDE DEF n, units
<1>3. c = Call("none", TRUE, [engine EXCEPT !.wpos = 0, !.written = @ + 1], inBio, outBio \o units)
  <2>1. engine.wpos + n = Record
    BY <1>1
  <2> QED
    BY Zenon, <2>1 DEF DoWrite, n, units
<1>4. w \in Nat /\ w + 1 \in Nat
  BY DEF Engine, EngineOf
<1>5. /\ c.engine.written = w + 1 /\ c.engine.wpos = 0 /\ c.engine.sentClose = engine.sentClose
      /\ c.engine.hs = engine.hs /\ DOMAIN c.engine = DOMAIN engine
      /\ c.out = outBio \o units
  <2> DEFINE e == [engine EXCEPT !.wpos = 0, !.written = @ + 1]
             out == outBio \o units
  <2>1. e.written = w + 1 /\ e.wpos = 0 /\ e.sentClose = engine.sentClose
        /\ e.hs = engine.hs /\ DOMAIN e = DOMAIN engine
    OBVIOUS
  <2>2. c = Call("none", TRUE, e, inBio, out)
    BY <1>3
  <2> HIDE DEF e, out
  <2>3. c.engine = e /\ c.out = out
    BY <2>2 DEF Call
  <2> QED
    BY <2>1, <2>3 DEF out
<1>6. Rec(w + 1) \in Seq(Units) /\ c.out = Rec(w + 1)
  <2>1. Rec(w + 1) \in Seq(Units)
    BY <1>4, RecordType
  <2> QED
    BY <1>2, <1>5, <2>1, ConcatEmptySeq
<1>7. Hs(engine.hs) \in Seq(Units) /\ FlattenSeq(Recs(w)) \in Seq(Units)
  BY SentParts DEF Engine
<1>8. FlattenSeq(Recs(w + 1)) = FlattenSeq(Recs(w)) \o Rec(w + 1)
  BY <1>4, RecordsJoined
<1> DEFINE h == Hs(engine.hs)
           r == FlattenSeq(Recs(w))
           t == Rec(w + 1)
<1>9. Sent(engine) = h \o r
  <2>1. h \o r \in Seq(Units)
    BY <1>7, ConcatProperties
  <2> QED
    BY <2>1, ConcatEmptySeq DEF Sent, Tip
<1>10. Sent(c.engine) = h \o (r \o t)
  <2>1. h \o (r \o t) \in Seq(Units)
    BY <1>6, <1>7, ConcatProperties
  <2> QED
    BY <1>5, <1>8, <2>1, ConcatEmptySeq DEF Sent, Tip
<1>11. (h \o r) \o t = h \o (r \o t)
  BY <1>6, <1>7, ConcatAssociative
<1> QED
  BY <1>5, <1>6, <1>9, <1>10, <1>11 DEF CallSends

(* and SSL_shutdown the close alert, once.                                  *)
LEMMA ShutdownSends ==
  ASSUME Buffers, Engine, outBio = <<>>, engine.wpos = 0,
         {"written", "sentClose", "wpos", "hs"} \subseteq DOMAIN engine, NEW c \in DoShutdown
  PROVE  CallSends(c) /\ c.engine.hs = engine.hs /\ c.engine.written = engine.written
<1> DEFINE e == [engine EXCEPT !.sentClose = TRUE]
           out == IF engine.sentClose THEN outBio ELSE Append(outBio, CloseUnit)
<1>1. Room # 0
  BY SslAssumption DEF SslAssumption, Room
<1>2. /\ DOMAIN e = DOMAIN engine /\ e.wpos = 0 /\ e.hs = engine.hs
      /\ e.written = engine.written /\ e.sentClose
  OBVIOUS
<1>3. out = IF engine.sentClose THEN <<>> ELSE <<CloseUnit>>
  BY EmptySeq
<1> DEFINE closed == [e EXCEPT !.gotClose = TRUE]
<1>4. /\ DOMAIN closed = DOMAIN engine /\ closed.wpos = 0 /\ closed.hs = engine.hs
      /\ closed.written = engine.written /\ closed.sentClose
  BY <1>2
<1>5. c.engine \in {e, closed} /\ c.out = out
  <2> HIDE DEF e, out
  <2>1. \/ c = Call("none", TRUE, e, inBio, out)
        \/ c = Call("none", TRUE, closed, Tail(inBio), out)
        \/ \E err \in {"want_read", "ssl"} : c = Call(err, FALSE, e, inBio, out)
    <3>1. CASE engine.gotClose
      BY <1>1, <3>1 DEF DoShutdown, e, out
    <3>2. CASE ~engine.gotClose /\ inBio # <<>> /\ Head(inBio) = CloseUnit
      BY <1>1, <3>2 DEF DoShutdown, e, out
    <3>3. CASE ~engine.gotClose /\ ~(inBio # <<>> /\ Head(inBio) = CloseUnit)
      <4> DEFINE Errs == IF inBio = <<>> THEN {"want_read"} ELSE {"want_read", "ssl"}
      <4>1. c \in {Call(err, FALSE, e, inBio, out) : err \in Errs}
        BY Zenon, <1>1, <3>3 DEF DoShutdown, e, out
      <4>2. Errs \subseteq {"want_read", "ssl"}
        OBVIOUS
      <4> QED
        BY <4>1, <4>2
    <3> QED
      BY <3>1, <3>2, <3>3
  <2> HIDE DEF closed
  <2> QED
    BY <2>1 DEF Call
<1> HIDE DEF e, closed, out
<1>6. /\ DOMAIN c.engine = DOMAIN engine /\ c.engine.wpos = 0 /\ c.engine.hs = engine.hs
      /\ c.engine.written = engine.written /\ c.engine.sentClose
  BY <1>2, <1>4, <1>5
<1> DEFINE hr == Hs(engine.hs) \o FlattenSeq(Recs(engine.written))
<1>7. hr \in Seq(Units) /\ Sent(engine) \in Seq(Units)
  BY SentParts, ConcatProperties DEF Engine
<1>8. Sent(c.engine) = hr \o <<CloseUnit>>
  BY <1>6 DEF Sent, Tip
<1>9. Sent(engine) = IF engine.sentClose THEN hr \o <<CloseUnit>> ELSE hr
  <2>1. hr \o <<>> = hr
    BY <1>7, ConcatEmptySeq
  <2> QED
    BY <2>1 DEF Sent, Tip
<1>10. Sent(engine) \o <<>> = Sent(engine)
  BY <1>7, ConcatEmptySeq
<1> QED
  BY <1>3, <1>5, <1>6, <1>8, <1>9, <1>10 DEF CallSends

(* Reading sends nothing.                                                   *)
LEMMA ReadSends ==
  ASSUME {"written", "sentClose", "wpos", "hs"} \subseteq DOMAIN engine, NEW c \in DoRead
  PROVE  /\ DOMAIN c.engine = DOMAIN engine /\ c.out = outBio
         /\ c.engine.wpos = engine.wpos /\ c.engine.hs = engine.hs
         /\ c.engine.written = engine.written /\ c.engine.sentClose = engine.sentClose
<1> DEFINE need == Record - engine.rpos
           whole == [engine EXCEPT !.rpos = 0, !.read = inBio[need].n]
           part == [engine EXCEPT !.rpos = @ + Len(inBio)]
           closed == [engine EXCEPT !.gotClose = TRUE]
           rest == Drop(inBio, need)
           Same(e) == /\ DOMAIN e = DOMAIN engine /\ e.wpos = engine.wpos /\ e.hs = engine.hs
                      /\ e.written = engine.written /\ e.sentClose = engine.sentClose
<1>1. Same(engine) /\ Same(whole) /\ Same(part) /\ Same(closed)
  OBVIOUS
<1>2. \/ c = Call("zero_return", FALSE, engine, inBio, outBio)
      \/ c = Call("ssl", FALSE, engine, <<>>, outBio)
      \/ c = Call("zero_return", FALSE, closed, Tail(inBio), outBio)
      \/ c = Call("none", TRUE, whole, rest, outBio)
      \/ c = Call("want_read", FALSE, part, <<>>, outBio)
  BY Zenon DEF DoRead
<1> HIDE DEF whole, part, closed, rest, Same
<1>3. Same(c.engine) /\ c.out = outBio
  BY <1>1, <1>2 DEF Call
<1> QED
  BY <1>3 DEF Same

----------------------------------------------------------------------------
(* The other lane, the program's receives and the peer leave it alone.      *)
LEMMA OutStays ==
  ASSUME SslInv, OutInv, op'["send"] = op["send"],
         op'["recv"].kind = "recv" => engine.hs = Len(Script),
         DOMAIN engine' = DOMAIN engine, engine'.wpos = engine.wpos, engine'.hs = engine.hs,
         engine'.written = engine.written, engine'.sentClose = engine.sentClose,
         UNCHANGED <<outBio, outBuf, peerGot, sends>>, peer.end = "reset" => peer'.end = "reset"
  PROVE  OutInv'
<1>1. Sealed' /\ QuietAt(op["send"], outBio)'
  BY DEF OutInv, Sealed, QuietAt
<1>2. Stages'
  BY DEF OutInv, Stages
<1>3. Sent(engine)' = Sent(engine)
  BY DEF Sent, Tip
<1>4. OutLine'
  BY <1>3 DEF OutInv, OutLine, Transit
<1> QED
  BY <1>1, <1>2, <1>4 DEF OutInv

(* The steps of the receiving lane leave the output alone.                  *)
LEMMA ReceiverSends ==
  ASSUME SslInv, OutInv, Working("recv")
  PROVE  OutInv'
<1>1. /\ op["recv"].kind \in {"none", "recv"} /\ (op["recv"].kind = "none" => op["recv"].pc = "idle")
      /\ "recv" \in Lanes /\ op = [l \in Lanes |-> op[l]] /\ Fields \subseteq DOMAIN op["recv"]
      /\ {"written", "sentClose", "wpos", "hs"} \subseteq DOMAIN engine
  BY DEF SslInv, Operations, Kinds, Lanes, Engine, EngineOf, OutInv, Sealed
<1>2. ~WantOutput("recv") /\ ~Transmit("recv") /\ ~SendCallback("recv")
  BY <1>1 DEF SslInv, Wanted, WantOutput, Transmit, SendCallback
<1> DEFINE Others == UNCHANGED <<outBio, outBuf, peerGot, sends, peer>>
           Same == /\ DOMAIN engine' = DOMAIN engine /\ engine'.wpos = engine.wpos
                   /\ engine'.hs = engine.hs /\ engine'.written = engine.written
                   /\ engine'.sentClose = engine.sentClose
           Only == op'["send"] = op["send"] /\ op'["recv"].kind = op["recv"].kind
<1>3. \A o : op' = [op EXCEPT !["recv"] = o] /\ o.kind = op["recv"].kind => Only
  BY <1>1 DEF Lanes
<1>4. ASSUME Perform("recv") PROVE Others /\ Same /\ Only
  <2>1. op["recv"].kind = "recv"
    BY <1>1, <1>4 DEF Perform
  <2>2. PICK c \in DoRead :
          /\ engine' = c.engine /\ outBio' = c.out
          /\ op' = [op EXCEPT !["recv"] = [op["recv"] EXCEPT !.pc = "after", !.error = c.error,
                              !.done = c.done, !.left = IF c.done THEN @ - 1 ELSE @]]
    BY <1>4, <2>1 DEF Perform, Calls
  <2>3. Others /\ Same
    BY <1>1, <1>4, <2>2, ReadSends DEF Perform
  <2> DEFINE o == [op["recv"] EXCEPT !.pc = "after", !.error = c.error,
                              !.done = c.done, !.left = IF c.done THEN @ - 1 ELSE @]
  <2>4. o.kind = op["recv"].kind
    BY <1>1 DEF Fields
  <2> HIDE DEF o, Only
  <2>5. Only
    BY <1>3, <2>2, <2>4 DEF o
  <2> QED
    BY <2>3, <2>5
<1>5. ASSUME NEW ec PROVE Completed("recv", ec).kind = op["recv"].kind
  BY CompletedPlace DEF SslInv, Lanes
<1>6. ASSUME Working("recv"), ~Perform("recv") PROVE Others /\ Same /\ Only
  <2>1. Others /\ Same
    BY <1>2, <1>6 DEF Working, PendingBefore, PendingAfter, WantInput, WantNothing, PostCallback,
                      ReceiveCallback
  <2>2. \E o : op' = [op EXCEPT !["recv"] = o] /\ o.kind = op["recv"].kind
    <3>1. CASE PendingBefore("recv")
      <4> DEFINE o == [op["recv"] EXCEPT !.pc = "perform", !.before = Len(outBio)]
      <4>1. op' = [op EXCEPT !["recv"] = o] /\ o.kind = op["recv"].kind
        BY <1>1, <3>1 DEF PendingBefore, Fields
      <4> QED
        BY <4>1
    <3>2. CASE PendingAfter("recv")
      <4> DEFINE w == Want(op["recv"])
                 o == [op["recv"] EXCEPT !.pc = "branch", !.want = w.want, !.ec = w.ec]
      <4>1. op' = [op EXCEPT !["recv"] = o] /\ o.kind = op["recv"].kind
        BY <1>1, <3>2 DEF PendingAfter, Fields
      <4> QED
        BY <4>1
    <3>3. CASE WantInput("recv")
      <4> DEFINE o1 == [op["recv"] EXCEPT !.pc = "engine"]
                 o2 == [op["recv"] EXCEPT !.pc = "receiving"]
      <4>1. op' \in {[op EXCEPT !["recv"] = o1], [op EXCEPT !["recv"] = o2]}
        BY <1>1, <3>3 DEF WantInput
      <4>2. o1.kind = op["recv"].kind /\ o2.kind = op["recv"].kind
        BY <1>1 DEF Fields
      <4> HIDE DEF o1, o2
      <4> QED
        BY <4>1, <4>2
    <3>4. CASE WantNothing("recv") \/ PostCallback("recv")
      <4> DEFINE o1 == [op["recv"] EXCEPT !.pc = "posted"]
                 o2 == Completed("recv", MapErrorCode(op["recv"].ec))
                 o3 == Completed("recv", op["recv"].ec)
      <4>1. op' \in {[op EXCEPT !["recv"] = o1], [op EXCEPT !["recv"] = o2],
                     [op EXCEPT !["recv"] = o3]}
        BY <1>1, <3>4 DEF WantNothing, PostCallback
      <4>2. o1.kind = op["recv"].kind /\ o2.kind = op["recv"].kind /\ o3.kind = op["recv"].kind
        BY <1>1, <1>5 DEF Fields
      <4> HIDE DEF o1, o2, o3
      <4> QED
        BY <4>1, <4>2
    <3>5. CASE ReceiveCallback("recv")
      <4> DEFINE o1 == [op["recv"] EXCEPT !.pc = "engine", !.start = FALSE]
                 o2 == Completed("recv", MapErrorCode("eof"))
      <4>1. op' \in {[op EXCEPT !["recv"] = o1], [op EXCEPT !["recv"] = o2]}
        BY <1>1, <3>5 DEF ReceiveCallback
      <4>2. o1.kind = op["recv"].kind /\ o2.kind = op["recv"].kind
        BY <1>1, <1>5 DEF Fields
      <4> HIDE DEF o1, o2
      <4> QED
        BY <4>1, <4>2
    <3> QED
      BY <1>2, <1>6, <3>1, <3>2, <3>3, <3>4, <3>5 DEF Working
  <2> HIDE DEF Others, Same, Only
  <2> QED
    BY <1>3, <2>1, <2>2
<1>7. Others /\ Same /\ Only
  BY <1>4, <1>6
<1>8. op'["recv"].kind = "recv" => engine.hs = Len(Script)
  BY <1>7 DEF OutInv, Stages
<1> QED
  BY <1>7, <1>8, OutStays

(* Where the sending lane may go while the engine rests.                    *)
LEMMA OutMoves ==
  ASSUME SslInv, OutInv, NEW o, op' = [op EXCEPT !["send"] = o], o.kind = op["send"].kind,
         "ec" \in DOMAIN o, QuietAt(o, outBio'), UNCHANGED <<engine, sends, peer>>,
         outBuf' \in Seq(Units), peerGot' \in Seq(Units),
         peer.end # "reset" => (peerGot' \o Transit(o, outBuf')) \o outBio' =
                                 (peerGot \o Transit(op["send"], outBuf)) \o outBio
  PROVE  OutInv'
<1>1. op'["send"] = o /\ op'["recv"] = op["recv"]
  BY DEF SslInv, Operations, Lanes
<1>2. Sealed' /\ QuietAt(op["send"], outBio)' /\ Stages'
  BY <1>1 DEF OutInv, Sealed, Stages, QuietAt
<1>3. Sent(engine)' = Sent(engine)
  BY DEF Sent, Tip
<1>4. OutLine'
  BY <1>1, <1>3 DEF OutInv, OutLine, Transit
<1> QED
  BY <1>2, <1>4 DEF OutInv

(* What is taken from the BIO is in the buffer.                             *)
LEMMA OutputTaken ==
  ASSUME Buffers, GetOutput
  PROVE  outBuf' \in Seq(Units) /\ outBio' \in Seq(Units) /\ outBuf' \o outBio' = outBio
<1> DEFINE n == Min({BufSize, Len(outBio)})
<1>1. n \in 0..Len(outBio)
  <2>1. BufSize \in Nat /\ Len(outBio) \in Nat
    BY SslAssumption DEF SslAssumption, Buffers
  <2>2. n = IF BufSize =< Len(outBio) THEN BufSize ELSE Len(outBio)
    BY <2>1, MinOfTwo
  <2> QED
    BY <2>1, <2>2
<1>2. outBuf' = SubSeq(outBio, 1, n) /\ outBio' = Drop(outBio, n)
  BY DEF GetOutput
<1> HIDE DEF n
<1> QED
  BY <1>1, <1>2, Dropped, TakenApart DEF Buffers

(* Nothing under way.                                                       *)
LEMMA EmptyTransit ==
  ASSUME NEW s \in Seq(Units), NEW t \in Seq(Units)
  PROVE  (s \o <<>>) \o t = s \o t /\ (s \o t) \o <<>> = s \o t
BY ConcatEmptySeq, ConcatProperties

(* The steps of the sending lane, one by one.                               *)
LEMMA SenderSends ==
  ASSUME SslInv, OutInv, Working("send")
  PROVE  OutInv'
<1> DEFINE O == op["send"]
<1>1. /\ "send" \in Lanes /\ op = [l \in Lanes |-> op[l]]
      /\ Fields \subseteq DOMAIN O /\ "ec" \in DOMAIN O
      /\ {"written", "sentClose", "wpos", "hs"} \subseteq DOMAIN engine
      /\ outBio \in Seq(Units) /\ outBuf \in Seq(Units) /\ peerGot \in Seq(Units)
  BY DEF SslInv, Operations, Lanes, Engine, EngineOf, OutInv, Sealed, Buffers
<1>2. QuietAt(O, outBio)
  BY DEF OutInv
<1>3. ASSUME PendingBefore("send") PROVE OutInv'
  <2> DEFINE o == [O EXCEPT !.pc = "perform", !.before = Len(outBio)]
  <2>1. op' = [op EXCEPT !["send"] = o] /\ O.pc = "engine"
        /\ UNCHANGED <<engine, sends, peer, outBuf, peerGot, outBio>>
    BY <1>1, <1>3 DEF PendingBefore
  <2>2. outBio = <<>> /\ Len(outBio) = 0
    BY <1>1, <1>2, <2>1, EmptySeq DEF QuietAt
  <2>3. o.kind = O.kind /\ "ec" \in DOMAIN o /\ o.pc = "perform" /\ o.before = 0
    BY <1>1, <2>2 DEF Fields
  <2> HIDE DEF o
  <2>4. QuietAt(o, outBio') /\ Transit(o, outBuf') = <<>> /\ Transit(O, outBuf) = <<>>
    BY <2>1, <2>2, <2>3 DEF QuietAt, Transit
  <2> QED
    BY <1>1, <2>1, <2>3, <2>4, OutMoves
<1>4. ASSUME PendingAfter("send") PROVE OutInv'
  <2> DEFINE w == Want(O)
             o == [O EXCEPT !.pc = "branch", !.want = w.want, !.ec = w.ec]
  <2>1. op' = [op EXCEPT !["send"] = o] /\ O.pc = "after"
        /\ UNCHANGED <<engine, sends, peer, outBuf, peerGot, outBio>>
    BY <1>1, <1>4 DEF PendingAfter
  <2>2. o.kind = O.kind /\ "ec" \in DOMAIN o /\ o.pc = "branch" /\ o.want = w.want /\ o.ec = w.ec
    BY <1>1 DEF Fields
  <2>3. O.before = 0 /\ O.kind \in {"handshake", "send", "shutdown"} /\ O.error \in Errors[O.kind]
    BY <1>1, <1>2, <2>1 DEF QuietAt, SslInv, Operations, Kinds
  <2>4. Len(outBio) \in Nat /\ (Len(outBio) =< 0 => outBio = <<>>)
    BY <1>1
  <2>5. O.error \in {"none", "want_read", "want_write", "ssl"}
    BY <2>3 DEF Errors
  <2>6. w.ec = "ssl" => w.want = "nothing"
    BY <2>3, <2>5 DEF Want
  <2>7. w.want \notin Outputs => outBio = <<>> \/ w.ec = "ssl"
    <3>1. CASE O.error = "ssl"
      BY <3>1 DEF Want
    <3>2. CASE O.error = "want_write"
      BY <3>2 DEF Want, Outputs
    <3>3. CASE O.error \in {"none", "want_read"} /\ Len(outBio) > 0
      <4>1. w.want \in Outputs
        BY <2>3, <3>3 DEF Want, Outputs
      <4> QED
        BY <4>1
    <3>4. CASE ~(Len(outBio) > 0)
      BY <2>4, <3>4
    <3> QED
      BY <2>5, <3>1, <3>2, <3>3, <3>4
  <2> HIDE DEF o, w
  <2>8. QuietAt(o, outBio') /\ Transit(o, outBuf') = <<>> /\ Transit(O, outBuf) = <<>>
    BY <2>1, <2>2, <2>6, <2>7 DEF QuietAt, Transit
  <2> QED
    BY <1>1, <2>1, <2>2, <2>8, OutMoves
<1>5. ASSUME WantInput("send") PROVE OutInv'
  <2> DEFINE o1 == [O EXCEPT !.pc = "engine"]
             o2 == [O EXCEPT !.pc = "receiving"]
  <2>1. op' \in {[op EXCEPT !["send"] = o1], [op EXCEPT !["send"] = o2]}
        /\ O.pc = "branch" /\ O.want = "input_and_retry"
        /\ UNCHANGED <<engine, sends, peer, outBuf, peerGot, outBio>>
    BY <1>1, <1>5 DEF WantInput
  <2>2. /\ o1.kind = O.kind /\ "ec" \in DOMAIN o1 /\ o1.pc = "engine"
        /\ o2.kind = O.kind /\ "ec" \in DOMAIN o2 /\ o2.pc = "receiving"
    BY <1>1 DEF Fields
  <2> HIDE DEF o1, o2
  <2>3. PICK o : /\ op' = [op EXCEPT !["send"] = o] /\ o.kind = O.kind /\ "ec" \in DOMAIN o
                 /\ o.pc \in {"engine", "receiving"}
    BY <2>1, <2>2
  <2>4. outBio = <<>>
    BY <1>2, <2>1 DEF QuietAt, Outputs
  <2>5. QuietAt(o, outBio') /\ Transit(o, outBuf') = <<>> /\ Transit(O, outBuf) = <<>>
    BY <2>1, <2>3, <2>4 DEF QuietAt, Transit
  <2> QED
    BY <1>1, <2>1, <2>3, <2>5, OutMoves
<1>6. ASSUME WantOutput("send") \/ (SendCallback("send") /\ outBio # <<>>) PROVE OutInv'
  <2> DEFINE o1 == [O EXCEPT !.pc = "sending"]
             o2 == [[O EXCEPT !.start = FALSE] EXCEPT !.pc = "sending"]
  <2>1. /\ op' \in {[op EXCEPT !["send"] = o1], [op EXCEPT !["send"] = o2]}
        /\ O.pc \in {"branch", "sent"} /\ GetOutput
        /\ UNCHANGED <<engine, sends, peer, peerGot>>
    <3>1. CASE WantOutput("send")
      <4>1. outBio # <<>>
        BY <1>1, <3>1 DEF WantOutput, SslInv, Wanted
      <4> QED
        BY <1>1, <3>1, <4>1 DEF WantOutput
    <3>2. CASE SendCallback("send") /\ outBio # <<>>
      BY <1>1, <3>2 DEF SendCallback
    <3> QED
      BY <1>6, <3>1, <3>2
  <2>2. /\ o1.kind = O.kind /\ "ec" \in DOMAIN o1 /\ o1.pc = "sending"
        /\ o2.kind = O.kind /\ "ec" \in DOMAIN o2 /\ o2.pc = "sending"
    BY <1>1 DEF Fields
  <2> HIDE DEF o1, o2
  <2>3. PICK o : /\ op' = [op EXCEPT !["send"] = o] /\ o.kind = O.kind /\ "ec" \in DOMAIN o
                 /\ o.pc = "sending"
    BY <2>1, <2>2
  <2>4. outBuf' \in Seq(Units) /\ outBio' \in Seq(Units) /\ outBuf' \o outBio' = outBio
    BY <2>1, OutputTaken DEF SslInv
  <2>5. QuietAt(o, outBio') /\ Transit(o, outBuf') = outBuf' /\ Transit(O, outBuf) = <<>>
    BY <2>1, <2>3 DEF QuietAt, Transit
  <2>6. (peerGot \o outBuf') \o outBio' = peerGot \o (outBuf' \o outBio')
    <3>1. \A s, t, u \in Seq(Units) : (s \o t) \o u = s \o (t \o u)
      BY ConcatAssociative
    <3> QED
      BY <1>1, <2>4, <3>1
  <2>7. (peerGot \o <<>>) \o outBio = peerGot \o outBio
    BY <1>1, EmptyTransit
  <2>8. (peerGot' \o Transit(o, outBuf')) \o outBio' = (peerGot \o Transit(O, outBuf)) \o outBio
    BY <2>1, <2>4, <2>5, <2>6, <2>7
  <2> QED
    BY <1>1, <2>1, <2>3, <2>4, <2>5, <2>8, OutMoves
<1>7. ASSUME NEW ec, NEW o, o = Completed("send", ec)
      PROVE  /\ o.kind = O.kind /\ "ec" \in DOMAIN o /\ o.pc \in {"engine", "idle", "failed"}
             /\ o.pc # "failed" => ec \in {"ok", "short_read"}
  BY <1>1, <1>7 DEF Completed, Fields
<1>8. ASSUME WantNothing("send") \/ PostCallback("send") PROVE OutInv'
  <2> DEFINE o1 == [O EXCEPT !.pc = "posted"]
             o2 == Completed("send", MapErrorCode(O.ec))
             o3 == Completed("send", O.ec)
  <2>1. /\ op' \in {[op EXCEPT !["send"] = o1], [op EXCEPT !["send"] = o2],
                    [op EXCEPT !["send"] = o3]}
        /\ \/ O.pc = "branch" /\ O.want = "nothing"
           \/ O.pc = "posted"
        /\ UNCHANGED <<engine, sends, peer, outBuf, peerGot, outBio>>
    BY <1>1, <1>8 DEF WantNothing, PostCallback
  <2>2. outBio = <<>> \/ O.ec = "ssl"
    BY <1>2, <2>1 DEF QuietAt, Outputs
  <2>3. o1.kind = O.kind /\ "ec" \in DOMAIN o1 /\ o1.pc = "posted" /\ o1.ec = O.ec
    BY <1>1 DEF Fields
  <2>4. /\ o2.kind = O.kind /\ "ec" \in DOMAIN o2 /\ o2.pc \in {"engine", "idle", "failed"}
        /\ o2.pc # "failed" => outBio = <<>>
    <3>1. o2.pc # "failed" => MapErrorCode(O.ec) \in {"ok", "short_read"}
      BY <1>7
    <3>2. MapErrorCode("ssl") = "ssl"
      BY DEF MapErrorCode
    <3> QED
      BY <1>7, <2>2, <3>1, <3>2
  <2>5. /\ o3.kind = O.kind /\ "ec" \in DOMAIN o3 /\ o3.pc \in {"engine", "idle", "failed"}
        /\ o3.pc # "failed" => outBio = <<>>
    BY <1>7, <2>2
  <2> HIDE DEF o1, o2, o3
  <2>6. PICK o : /\ op' = [op EXCEPT !["send"] = o] /\ o.kind = O.kind /\ "ec" \in DOMAIN o
                 /\ \/ o.pc = "posted" /\ o.ec = O.ec
                    \/ o.pc \in {"engine", "idle"} /\ outBio = <<>>
                    \/ o.pc = "failed"
    BY <2>1, <2>3, <2>4, <2>5
  <2>7. QuietAt(o, outBio') /\ Transit(o, outBuf') = <<>> /\ Transit(O, outBuf) = <<>>
    BY <2>1, <2>2, <2>6 DEF QuietAt, Transit
  <2> QED
    BY <1>1, <2>1, <2>6, <2>7, OutMoves
<1>9. ASSUME ReceiveCallback("send") PROVE OutInv'
  <2> DEFINE o1 == [O EXCEPT !.pc = "engine", !.start = FALSE]
             o2 == Completed("send", MapErrorCode("eof"))
  <2>1. /\ op' \in {[op EXCEPT !["send"] = o1], [op EXCEPT !["send"] = o2]}
        /\ O.pc = "receiving"
        /\ UNCHANGED <<engine, sends, peer, outBuf, peerGot, outBio>>
    BY <1>1, <1>9 DEF ReceiveCallback
  <2>2. /\ o1.kind = O.kind /\ "ec" \in DOMAIN o1 /\ o1.pc = "engine"
        /\ o2.kind = O.kind /\ "ec" \in DOMAIN o2 /\ o2.pc \in {"engine", "idle", "failed"}
    BY <1>1, <1>7 DEF Fields
  <2> HIDE DEF o1, o2
  <2>3. PICK o : /\ op' = [op EXCEPT !["send"] = o] /\ o.kind = O.kind /\ "ec" \in DOMAIN o
                 /\ o.pc \in {"engine", "idle", "failed"}
    BY <2>1, <2>2
  <2>4. outBio = <<>>
    BY <1>2, <2>1 DEF QuietAt
  <2>5. QuietAt(o, outBio') /\ Transit(o, outBuf') = <<>> /\ Transit(O, outBuf) = <<>>
    BY <2>1, <2>3, <2>4 DEF QuietAt, Transit
  <2> QED
    BY <1>1, <2>1, <2>3, <2>5, OutMoves
<1>10. ASSUME Transmit("send") PROVE OutInv'
  <2> DEFINE o1 == [O EXCEPT !.pc = "sent"]
             o2 == [O EXCEPT !.pc = "sent", !.ec = "reset"]
  <2>1. /\ op' \in {[op EXCEPT !["send"] = o1], [op EXCEPT !["send"] = o2]}
        /\ O.pc = "sending"
        /\ UNCHANGED <<engine, sends, peer, outBuf, outBio>>
        /\ \/ peerGot' = peerGot \o outBuf
           \/ peerGot' = peerGot /\ peer.end = "reset"
    BY <1>1, <1>10 DEF Transmit
  <2>2. /\ o1.kind = O.kind /\ "ec" \in DOMAIN o1 /\ o1.pc = "sent"
        /\ o2.kind = O.kind /\ "ec" \in DOMAIN o2 /\ o2.pc = "sent"
    BY <1>1 DEF Fields
  <2> HIDE DEF o1, o2
  <2>3. PICK o : /\ op' = [op EXCEPT !["send"] = o] /\ o.kind = O.kind /\ "ec" \in DOMAIN o
                 /\ o.pc = "sent"
    BY <2>1, <2>2
  <2>4. QuietAt(o, outBio') /\ Transit(o, outBuf') = <<>> /\ Transit(O, outBuf) = outBuf
    BY <2>1, <2>3 DEF QuietAt, Transit
  <2>5. peerGot \o outBuf \in Seq(Units) /\ ((peerGot \o outBuf) \o <<>> = peerGot \o outBuf)
    BY <1>1, ConcatProperties, EmptyTransit
  <2>6. peer.end # "reset" => (peerGot' \o Transit(o, outBuf')) \o outBio' =
                                (peerGot \o Transit(O, outBuf)) \o outBio
    BY <2>1, <2>4, <2>5
  <2>7. peerGot' \in Seq(Units)
    BY <1>1, <2>1, <2>5
  <2> QED
    BY <1>1, <2>1, <2>3, <2>4, <2>6, <2>7, OutMoves
<1>11. ASSUME SendCallback("send"), outBio = <<>> PROVE OutInv'
  <2> DEFINE o0 == [O EXCEPT !.start = FALSE]
             o1 == [o0 EXCEPT !.pc = "engine"]
             o2 == Completed("send", MapErrorCode(o0.ec))
  <2>1. /\ op' \in {[op EXCEPT !["send"] = o1], [op EXCEPT !["send"] = o2]}
        /\ O.pc = "sent"
        /\ UNCHANGED <<engine, sends, peer, outBuf, peerGot, outBio>>
    BY <1>1, <1>11 DEF SendCallback
  <2>2. /\ o1.kind = O.kind /\ "ec" \in DOMAIN o1 /\ o1.pc = "engine"
        /\ o2.kind = O.kind /\ "ec" \in DOMAIN o2 /\ o2.pc \in {"engine", "idle", "failed"}
    BY <1>1, <1>7 DEF Fields
  <2> HIDE DEF o1, o2
  <2>3. PICK o : /\ op' = [op EXCEPT !["send"] = o] /\ o.kind = O.kind /\ "ec" \in DOMAIN o
                 /\ o.pc \in {"engine", "idle", "failed"}
    BY <2>1, <2>2
  <2>4. QuietAt(o, outBio') /\ Transit(o, outBuf') = <<>> /\ Transit(O, outBuf) = <<>>
    BY <1>11, <2>1, <2>3 DEF QuietAt, Transit
  <2> QED
    BY <1>1, <2>1, <2>3, <2>4, OutMoves
<1>12. ASSUME Perform("send") PROVE OutInv'
  <2>1. PICK c \in Calls(O.kind) :
          /\ engine' = c.engine /\ outBio' = c.out
          /\ op' = [op EXCEPT !["send"] = [O EXCEPT !.pc = "after", !.error = c.error,
                              !.done = c.done, !.left = IF c.done THEN @ - 1 ELSE @]]
    BY <1>12 DEF Perform
  <2>2. O.pc = "perform" /\ UNCHANGED <<sends, peer, outBuf, peerGot>>
    BY <1>12 DEF Perform
  <2>3. O.kind \in {"handshake", "send", "shutdown"} /\ outBio = <<>> /\ O.before = 0
    BY <1>1, <1>2, <2>2 DEF QuietAt, SslInv, Operations, Kinds
  <2> DEFINE o == [O EXCEPT !.pc = "after", !.error = c.error,
                            !.done = c.done, !.left = IF c.done THEN @ - 1 ELSE @]
  <2>4. o.kind = O.kind /\ "ec" \in DOMAIN o /\ o.pc = "after" /\ o.before = O.before
    BY <1>1 DEF Fields
  <2>5. op' = [op EXCEPT !["send"] = o]
    BY <2>1
  <2> HIDE DEF o
  <2>6. op'["send"] = o /\ op'["recv"] = op["recv"]
    BY <1>1, <2>5 DEF Lanes
  <2>7. engine.wpos = 0 /\ Buffers /\ Engine
    BY DEF OutInv, Stages, SslInv
  <2>8. CallSends(c)
        /\ (O.kind = "handshake" => c.engine.written = 0)
        /\ (O.kind # "shutdown" => c.engine.sentClose = engine.sentClose)
        /\ (O.kind # "handshake" => c.engine.hs = engine.hs)
        /\ (engine.hs = Len(Script) => c.engine.hs = Len(Script))
    <3>1. CASE O.kind = "handshake"
      <4>1. c \in DoHandshake /\ engine.written = 0 /\ ~engine.sentClose
        BY <2>1, <3>1 DEF Calls, OutInv, Stages
      <4>2. CallSends(c) /\ c.engine.written = 0 /\ c.engine.sentClose = engine.sentClose
            /\ c.engine.hs >= engine.hs
        BY <1>1, <2>3, <2>7, <4>1, HandshakeSends
      <4>3. c.engine.hs \in 0..Len(Script) /\ Len(Script) \in Nat
        BY <2>7, <4>1, HandshakeAnswers, SslAssumption DEF Answers, EngineOf, SslAssumption
      <4> QED
        BY <3>1, <4>2, <4>3
    <3>2. CASE O.kind = "send"
      <4>1. c \in DoWrite /\ ~engine.sentClose
        BY <2>1, <3>2 DEF Calls, OutInv, Stages
      <4> QED
        BY <1>1, <2>3, <2>7, <3>2, <4>1, WriteSends
    <3>3. CASE O.kind = "shutdown"
      <4>1. c \in DoShutdown
        BY <2>1, <3>3 DEF Calls
      <4> QED
        BY <1>1, <2>3, <2>7, <3>3, <4>1, ShutdownSends
    <3> QED
      BY <2>3, <3>1, <3>2, <3>3
  <2>9. Sealed' /\ QuietAt(op["send"], outBio)'
    BY <2>1, <2>2, <2>3, <2>4, <2>6, <2>8 DEF Sealed, OutInv, QuietAt, CallSends
  <2>10. Stages'
    <3>1. c.engine.wpos = 0
      BY <2>8 DEF CallSends
    <3>2. O.kind = "handshake" => ~c.engine.sentClose
      BY <2>8 DEF OutInv, Stages
    <3> QED
      BY <2>1, <2>2, <2>3, <2>4, <2>6, <2>8, <3>1, <3>2 DEF OutInv, Stages
  <2>11. OutLine'
    <3>1. SUFFICES ASSUME peer.end # "reset"
                   PROVE  (peerGot \o <<>>) \o c.out = Sent(c.engine)
      <4>1. peer' = peer /\ peerGot' = peerGot /\ outBio' = c.out /\ engine' = c.engine
            /\ op'["send"].pc = "after"
        BY <2>1, <2>2, <2>4, <2>6
      <4>2. Sent(engine)' = Sent(c.engine)
        BY <4>1 DEF Sent, Tip
      <4>3. Transit(op["send"], outBuf)' = <<>>
        BY <4>1 DEF Transit
      <4> QED
        BY <3>1, <4>1, <4>2, <4>3 DEF OutLine
    <3>2. (peerGot \o <<>>) \o <<>> = Sent(engine)
      BY <2>2, <2>3, <3>1 DEF OutInv, OutLine, Transit
    <3>3. peerGot \o <<>> = peerGot
      BY <1>1, ConcatEmptySeq
    <3> QED
      BY <2>8, <3>2, <3>3 DEF CallSends
  <2> QED
    BY <2>9, <2>10, <2>11 DEF OutInv
<1> QED
  BY <1>3, <1>4, <1>5, <1>6, <1>8, <1>9, <1>10, <1>11, <1>12 DEF Working

(* The program and the peer.                                                *)
LEMMA OutStarts ==
  ASSUME SslInv, OutInv, NEW kind, NEW left, NEW some, Start("send", kind, left, some),
         op["send"].pc = "idle", op["send"].kind # "shutdown", kind # "none",
         kind = "handshake" => op["send"].kind = "none",
         kind # "handshake" => engine.hs = Len(Script), kind = "shutdown" => sends' = Len(Sends),
         UNCHANGED <<engine, outBio, outBuf, peerGot, peer>>
  PROVE  OutInv'
<1> DEFINE o == [NoOp EXCEPT !.pc = "engine", !.kind = kind, !.start = TRUE,
                             !.left = left, !.some = some]
<1>1. o.kind = kind /\ "ec" \in DOMAIN o /\ o.pc = "engine"
  BY DEF NoOp
<1>2. op' = [op EXCEPT !["send"] = o]
  BY DEF Start
<1> HIDE DEF o
<1>3. op'["send"] = o /\ op'["recv"] = op["recv"]
  BY <1>2 DEF SslInv, Operations, Lanes
<1>4. Sealed' /\ QuietAt(op["send"], outBio)'
  BY <1>1, <1>3 DEF OutInv, Sealed, QuietAt
<1>5. Stages'
  BY <1>1, <1>3 DEF OutInv, Stages
<1>6. OutLine'
  <2>1. Sent(engine)' = Sent(engine)
    BY DEF Sent, Tip
  <2> QED
    BY <1>1, <1>3, <2>1 DEF OutInv, OutLine, Transit
<1> QED
  BY <1>4, <1>5, <1>6 DEF OutInv

(* The program sends nothing behind its shutdown.                           *)
LEMMA ProgramSends ==
  ASSUME SslInv, OutInv, AsynHandshake \/ AsynSend \/ AsynRecv \/ AsynShutdown
  PROVE  OutInv'
<1>1. UNCHANGED <<engine, outBio, outBuf, peerGot, peer>>
  BY DEF AsynHandshake, AsynSend, AsynRecv, AsynShutdown, Unmoved
<1>2. CASE AsynHandshake
  BY <1>1, <1>2, OutStarts DEF AsynHandshake
<1>3. CASE AsynSend
  <2>1. op["send"].kind # "shutdown"
    <3>1. sends # Len(Sends)
      BY <1>3, SslAssumption DEF AsynSend, SslAssumption
    <3> QED
      BY <3>1 DEF OutInv, Stages
  <2>2. engine.hs = Len(Script)
    BY <1>3 DEF AsynSend, HandshakeDone, Secured
  <2> QED
    BY <1>1, <1>3, <2>1, <2>2, OutStarts DEF AsynSend
<1>4. CASE AsynRecv
  <2>1. /\ engine.hs = Len(Script) /\ sends' = sends
        /\ \E left, some : Start("recv", "recv", left, some)
    BY <1>4 DEF AsynRecv, HandshakeDone, Secured
  <2>2. op'["send"] = op["send"]
    BY <2>1 DEF Start, SslInv, Operations, Lanes
  <2> QED
    BY <1>1, <2>1, <2>2, OutStays
<1>5. CASE AsynShutdown
  <2>1. engine.hs = Len(Script)
    BY <1>5 DEF AsynShutdown, HandshakeDone, Secured
  <2> QED
    BY <1>1, <1>5, <2>1, OutStarts DEF AsynShutdown
<1> QED
  BY <1>2, <1>3, <1>4, <1>5

(* The peer does not touch the output.                                      *)
LEMMA PeerLeavesOutput ==
  ASSUME SslInv, OutInv, PeerHandshake \/ PeerSend \/ PeerEnd
  PROVE  OutInv'
<1>1. UNCHANGED <<engine, outBio, outBuf, op, sends, peerGot>> /\ peer.end = "open"
  BY DEF PeerHandshake, PeerSend, PeerEnd, Ours
<1>2. op["recv"].kind = "recv" => engine.hs = Len(Script)
  BY DEF OutInv, Stages
<1> QED
  BY <1>1, <1>2, OutStays

(* At first nothing is sent.                                                *)
LEMMA OutInit == Init => OutInv
<1> SUFFICES ASSUME Init PROVE OutInv
  OBVIOUS
<1>1. /\ {"read", "sentClose", "gotClose"} \subseteq DOMAIN engine /\ ~engine.sentClose
      /\ engine.hs = 0 /\ engine.wpos = 0 /\ engine.written = 0
  BY DEF Init
<1>2. op["send"] = NoOp /\ op["recv"] = NoOp /\ NoOp.pc = "idle" /\ NoOp.kind = "none"
      /\ "ec" \in DOMAIN NoOp
  BY DEF Init, Lanes, NoOp
<1>3. outBio = <<>> /\ outBuf = <<>> /\ peerGot = <<>> /\ <<>> \in Seq(Units)
  BY EmptySeq DEF Init
<1>4. Sent(engine) = <<>>
  <2>1. Hs(0) = <<>>
    <3>1. Count("w", 0) = 0
      BY FS_EmptySet DEF Count
    <3> QED
      BY <3>1 DEF Hs
  <2>2. FlattenSeq(Recs(0)) = <<>> /\ Tip(engine) = <<>>
    BY <1>1, RecordsJoined DEF Tip
  <2> QED
    BY <1>1, <1>3, <2>1, <2>2, ConcatEmptySeq DEF Sent
<1>5. Sealed /\ QuietAt(op["send"], outBio) /\ Stages
  BY <1>1, <1>2, <1>3 DEF Sealed, QuietAt, Stages
<1>6. OutLine
  BY <1>2, <1>3, <1>4, ConcatEmptySeq DEF OutLine, Transit
<1> QED
  BY <1>5, <1>6 DEF OutInv

(* Every step keeps the order of what is sent.                              *)
LEMMA OutStep == SslInv /\ OutInv /\ [Next]_vars => OutInv'
<1> SUFFICES ASSUME SslInv, OutInv, [Next]_vars PROVE OutInv'
  OBVIOUS
<1>1. ASSUME NEW l \in Lanes, Working(l) PROVE OutInv'
  BY <1>1, ReceiverSends, SenderSends DEF Lanes
<1>2. CASE UNCHANGED vars
  <2>1. op["recv"].kind = "recv" => engine.hs = Len(Script)
    BY DEF OutInv, Stages
  <2> QED
    BY <1>2, <2>1, OutStays DEF vars
<1> QED
  BY <1>1, <1>2, ProgramSends, PeerLeavesOutput DEF Next

(* What the peer got is a prefix of the whole stream.                       *)
LEMMA OutLinePrefix ==
  ASSUME SslInv, OutInv, peer.end # "reset"
  PROVE  IsPrefix(peerGot, Stream)
<1> DEFINE rest == Transit(op["send"], outBuf) \o outBio
<1>1. /\ outBio \in Seq(Units) /\ peerGot \in Seq(Units) /\ EngineOf(engine)
      /\ Transit(op["send"], outBuf) \in Seq(Units)
  BY EmptySeq DEF SslInv, Buffers, Engine, OutInv, Sealed, Transit
<1>2. rest \in Seq(Units) /\ peerGot \o rest = Sent(engine)
  BY <1>1, ConcatProperties, ConcatAssociative, SMTT(30) DEF OutInv, OutLine
<1> HIDE DEF rest
<1>3. PICK more \in Seq(Units) : Stream = Sent(engine) \o more
  <2>1. Stream = (Hs(Len(Script)) \o FlattenSeq(Recs(engine.written))) \o Tip(engine)
    BY DEF Stream, Hs, Recs, Rec, Tip
  <2>2. CASE engine.hs = Len(Script)
    <3>1. Stream = Sent(engine)
      BY <2>1, <2>2 DEF Sent
    <3> QED
      BY <1>1, <3>1, SentParts, ConcatEmptySeq, EmptySeq
  <2>3. CASE engine.hs # Len(Script)
    <3>1. engine.written = 0 /\ ~engine.sentClose
      <4>1. op["send"].kind \in {"none", "handshake"}
        BY <2>3 DEF OutInv, Stages, SslInv, Operations, Kinds, Lanes
      <4> QED
        BY <4>1 DEF OutInv, Stages
    <3>2. FlattenSeq(Recs(engine.written)) = <<>> /\ Tip(engine) = <<>>
      BY <3>1, RecordsJoined DEF Tip
    <3> DEFINE i == engine.hs
               m == Count("w", i)
               n == Count("w", Len(Script)) - m
               more == [k \in 1..n |-> Unit("hs", m + k, 1)]
    <3>3. i \in Nat /\ Len(Script) \in Nat /\ i =< Len(Script)
      BY <1>1, SslAssumption DEF EngineOf, SslAssumption
    <3>4. n \in Nat /\ m \in Nat /\ Count("w", Len(Script)) = m + n
      <4>1. m \in Nat /\ Count("w", Len(Script)) \in Nat /\ m =< Count("w", Len(Script))
        BY <3>3, CountType, CountGrows
      <4> HIDE DEF m
      <4> QED
        BY <4>1
    <3>5. Hs(Len(Script)) = Hs(i) \o more /\ more \in Seq(Units) /\ Hs(i) \in Seq(Units)
          /\ Hs(Len(Script)) \in Seq(Units)
      BY <3>3, <3>4, HandshakeJoined
    <3> HIDE DEF more
    <3>6. Stream = Hs(Len(Script)) /\ Sent(engine) = Hs(i)
      BY <2>1, <3>2, <3>5, ConcatEmptySeq DEF Sent
    <3> QED
      BY <3>5, <3>6
  <2> QED
    BY <2>2, <2>3
<1>4. Stream = peerGot \o (rest \o more)
  <2>1. (peerGot \o rest) \o more = peerGot \o (rest \o more)
    <3>1. \A s, t, u \in Seq(Units) : (s \o t) \o u = s \o (t \o u)
      BY ConcatAssociative
    <3>2. peerGot \in Seq(Units) /\ rest \in Seq(Units) /\ more \in Seq(Units)
      BY <1>1, <1>2
    <3> QED
      BY <3>1, <3>2
  <2> QED
    BY <1>2, <1>3, <2>1
<1>5. rest \o more \in Seq(Units)
  BY <1>2, <1>3, ConcatProperties
<1> QED
  BY <1>1, <1>4, <1>5, PrefixOfJoin

----------------------------------------------------------------------------
(* Records of one size: the next one begins behind the end of this one.     *)
LEMMA Product ==
  ASSUME NEW a \in Nat, NEW b \in Nat, NEW R \in Nat
  PROVE  a * R \in Nat /\ (a < b => a * R + R =< b * R)
<1>1. \A d \in Nat : d * R \in Nat
  OBVIOUS
<1>2. ASSUME a < b PROVE a * R + R =< b * R
  <2> DEFINE d == b - (a + 1)
  <2>1. d \in Nat /\ b = (a + 1) + d
    BY <1>2
  <2>2. \A x, y, z \in Nat : (x + y) * z = x * z + y * z
    OBVIOUS
  <2>3. ((a + 1) + d) * R = (a + 1) * R + d * R
    <3> HIDE DEF d
    <3> QED
      BY <2>1, <2>2
  <2>4. (a + 1) * R = a * R + R
    OBVIOUS
  <2> HIDE DEF d
  <2>5. a * R \in Nat /\ d * R \in Nat
    BY <1>1, <2>1
  <2>6. b * R = (a * R + R) + d * R
    BY <2>1, <2>3, <2>4
  <2> QED
    BY <2>5, <2>6
<1> QED
  BY <1>1, <1>2

(* The last unit of a record closes that record and no other.               *)
LEMMA LastOfRecord ==
  ASSUME NEW R \in Nat \ {0}, NEW a \in Nat, NEW b \in Nat, NEW q \in 1..R,
         a * R + q = b * R + R
  PROVE  a = b
<1>1. a * R \in Nat /\ b * R \in Nat
  BY Product
<1>2. CASE a < b
  <2>1. a * R + R =< b * R
    BY <1>2, Product
  <2> QED
    BY <1>1, <2>1
<1>3. CASE b < a
  <2>1. b * R + R =< a * R
    BY <1>3, Product
  <2> QED
    BY <1>1, <2>1
<1> QED
  BY <1>2, <1>3

(* Dropping the first units.                                                *)
LEMMA DropsElement ==
  ASSUME NEW S, NEW s \in Seq(S), NEW n \in 0..Len(s), NEW k \in 1..Len(s) - n
  PROVE  Drop(s, n)[k] = s[n + k]
BY DEF Drop

(* Dropping from the first of two sequences.                                *)
LEMMA DropOfJoin ==
  ASSUME NEW S, NEW s \in Seq(S), NEW t \in Seq(S), NEW n \in 0..Len(s)
  PROVE  Drop(s \o t, n) = Drop(s, n) \o t
<1>1. /\ s \o t \in Seq(S) /\ Len(s \o t) = Len(s) + Len(t)
      /\ \A i \in 1..Len(s) + Len(t) : (s \o t)[i] = IF i =< Len(s) THEN s[i] ELSE t[i - Len(s)]
  BY ConcatProperties
<1>2. Len(s) \in Nat /\ Len(t) \in Nat
  OBVIOUS
<1> DEFINE u == s \o t
           d == Drop(s, n)
           l == Drop(u, n)
           r == d \o t
<1>3. u \in Seq(S) /\ n \in 0..Len(u) /\ Len(u) = Len(s) + Len(t)
  BY <1>1, <1>2
<1>4. d \in Seq(S) /\ Len(d) = Len(s) - n /\ \A k \in 1..Len(s) - n : d[k] = s[n + k]
  BY Dropped, DropsElement
<1> HIDE DEF u
<1>5. l \in Seq(S) /\ Len(l) = Len(u) - n /\ \A k \in 1..Len(u) - n : l[k] = u[n + k]
  BY <1>3, Dropped, DropsElement
<1> HIDE DEF d, l
<1>6. /\ r \in Seq(S) /\ Len(r) = Len(d) + Len(t)
      /\ \A i \in 1..Len(d) + Len(t) : r[i] = IF i =< Len(d) THEN d[i] ELSE t[i - Len(d)]
  BY <1>4, ConcatProperties
<1> HIDE DEF r
<1>7. ASSUME NEW k \in 1..Len(l) PROVE l[k] = r[k]
  <2>1. n + k \in 1..Len(s) + Len(t) /\ n \in Nat /\ k \in Nat /\ k \in 1..Len(u) - n
    BY <1>2, <1>3, <1>5
  <2>2. l[k] = IF n + k =< Len(s) THEN s[n + k] ELSE t[(n + k) - Len(s)]
    BY <1>1, <1>5, <2>1 DEF u
  <2>3. r[k] = IF k =< Len(d) THEN d[k] ELSE t[k - Len(d)]
    BY <1>2, <1>3, <1>4, <1>6, <2>1
  <2>4. CASE n + k =< Len(s)
    BY <1>2, <1>4, <2>1, <2>2, <2>3, <2>4, SMTT(30)
  <2>5. CASE ~(n + k =< Len(s))
    <3>1. ~(k =< Len(d)) /\ k - Len(d) = (n + k) - Len(s)
      BY <1>2, <1>4, <2>1, <2>5
    <3> QED
      BY <2>2, <2>3, <2>5, <3>1
  <2> QED
    BY <2>4, <2>5
<1>8. Len(l) = Len(r)
  BY <1>2, <1>3, <1>4, <1>5, <1>6
<1>9. l = r
  BY <1>5, <1>6, <1>7, <1>8, SeqEqual
<1> QED
  BY <1>9 DEF l, r, u, d

(* Units keep their positions when those before them are consumed.          *)
LEMMA LineDropped ==
  ASSUME NEW s \in Seq(Units), NEW n \in 0..Len(s), NEW base \in Nat, NEW p, Line(s, base, p)
  PROVE  Line(Drop(s, n), base + n, p)
<1> DEFINE d == Drop(s, n)
<1>1. Len(d) = Len(s) - n /\ \A k \in 1..Len(s) - n : d[k] = s[n + k]
  BY Dropped, DropsElement
<1>2. Len(s) \in Nat /\ n \in Nat /\ n =< Len(s)
  OBVIOUS
<1> HIDE DEF d
<1>3. (base + n) + Len(d) = base + Len(s)
  BY <1>1, <1>2
<1>4. ASSUME NEW k \in 1..Len(d) PROVE Right(d[k], (base + n) + k, k = Len(d), p)
  <2>1. n + k \in 1..Len(s) /\ (n + k = Len(s) <=> k = Len(d)) /\ base + (n + k) = (base + n) + k
        /\ k \in 1..Len(s) - n
    BY <1>1, <1>2
  <2>2. Right(s[n + k], base + (n + k), n + k = Len(s), p)
    BY <2>1 DEF Line
  <2>3. d[k] = s[n + k]
    BY <1>1, <2>1
  <2> QED
    BY <2>1, <2>2, <2>3 DEF Right
<1> QED
  BY <1>3, <1>4 DEF Line, d

(* The units that come are sequences, and those in the BIO come first.      *)
LEMMA IncomingType ==
  ASSUME SslInv
  PROVE  /\ inBio \in Seq(Units) /\ inBuf \in Seq(Units) /\ fromPeer \in Seq(Units)
         /\ inBio \o inBuf \in Seq(Units) /\ Incoming \in Seq(Units)
         /\ Len(Incoming) = Len(inBio) + Len(inBuf) + Len(fromPeer)
         /\ \A k \in 1..Len(inBio) : Incoming[k] = inBio[k] /\ k \in 1..Len(Incoming)
<1>1. inBio \in Seq(Units) /\ inBuf \in Seq(Units) /\ fromPeer \in Seq(Units)
  BY DEF SslInv, Buffers
<1>2. inBio \o inBuf \in Seq(Units) /\ Len(inBio \o inBuf) = Len(inBio) + Len(inBuf)
      /\ \A k \in 1..Len(inBio) + Len(inBuf) :
           (inBio \o inBuf)[k] = IF k =< Len(inBio) THEN inBio[k] ELSE inBuf[k - Len(inBio)]
  BY <1>1, ConcatProperties
<1> DEFINE s == inBio \o inBuf
<1> HIDE DEF s
<1>3. s \o fromPeer \in Seq(Units) /\ Len(s \o fromPeer) = Len(s) + Len(fromPeer)
      /\ \A k \in 1..Len(s) + Len(fromPeer) :
           (s \o fromPeer)[k] = IF k =< Len(s) THEN s[k] ELSE fromPeer[k - Len(s)]
  BY <1>1, <1>2, ConcatProperties DEF s
<1>4. Len(inBio) \in Nat /\ Len(inBuf) \in Nat /\ Len(fromPeer) \in Nat
  BY <1>1
<1>5. Len(s) = Len(inBio) + Len(inBuf)
  BY <1>2 DEF s
<1>6. ASSUME NEW k \in 1..Len(inBio)
      PROVE  (s \o fromPeer)[k] = inBio[k] /\ k \in 1..Len(s \o fromPeer)
  <2>1. k =< Len(s) /\ k \in 1..Len(s) + Len(fromPeer) /\ k \in 1..Len(inBio) + Len(inBuf)
        /\ k =< Len(inBio)
    BY <1>4, <1>5
  <2>2. s[k] = inBio[k]
    BY <1>2, <2>1 DEF s
  <2> QED
    BY <1>3, <2>1, <2>2
<1> QED
  BY <1>1, <1>2, <1>3, <1>4, <1>5, <1>6 DEF Incoming, s

(* The positions are natural numbers.                                       *)
LEMMA ConsumedType ==
  ASSUME SslInv, InInv
  PROVE  Consumed \in Nat /\ Promised \in Nat /\ Len(got) * Record \in Nat /\ Len(got) \in Nat
         /\ Count("r", engine.hs) \in Nat /\ engine.rpos \in Nat
<1>1. engine.hs \in Nat /\ engine.rpos \in Nat /\ Record \in Nat /\ Len(Script) \in Nat
      /\ Len(got) \in Nat
  BY SslAssumption DEF SslInv, Engine, EngineOf, InInv, SslAssumption
<1>2. Count("r", engine.hs) \in Nat /\ Promised \in Nat
  BY <1>1, CountType DEF Promised
<1>3. Len(got) * Record \in Nat
  BY <1>1, Product
<1> QED
  BY <1>1, <1>2, <1>3 DEF Consumed

(* An alert or a broken unit is the last that comes.                        *)
LEMMA LastUnit ==
  ASSUME SslInv, InInv, NEW k \in 1..Len(inBio), inBio[k] \in {Bad, CloseUnit}
  PROVE  /\ k = Len(inBio) /\ inBuf = <<>> /\ fromPeer = <<>> /\ peer.end # "open"
         /\ Consumed + k = peer.hs + peer.sent * Record + 1
<1>1. Incoming[k] = inBio[k] /\ k \in 1..Len(Incoming)
  BY IncomingType
<1>2. Right(inBio[k], Consumed + k, k = Len(Incoming), peer)
  BY <1>1 DEF InInv, Line
<1>3. inBio[k].type \notin {"hs", "data"} /\ \A r, q : Unit("data", r, q).type = "data"
  BY DEF Bad, CloseUnit, Unit
<1>4. k = Len(Incoming) /\ peer.end # "open" /\ Consumed + k = peer.hs + peer.sent * Record + 1
  BY <1>2, <1>3 DEF Right
<1>5. Len(inBio) \in Nat /\ Len(inBuf) \in Nat /\ Len(fromPeer) \in Nat
      /\ Len(Incoming) = Len(inBio) + Len(inBuf) + Len(fromPeer)
  BY IncomingType
<1>6. k = Len(inBio) /\ Len(inBuf) = 0 /\ Len(fromPeer) = 0
  BY <1>4, <1>5
<1>7. inBuf = <<>> /\ fromPeer = <<>>
  BY <1>6, IncomingType, EmptySeq
<1> QED
  BY <1>4, <1>6, <1>7

(* What leaves the incoming units where they are.                           *)
LEMMA InStays ==
  ASSUME InInv, (inBio' \o inBuf') \o fromPeer' = Incoming, UNCHANGED <<got, peer>>,
         engine'.hs = engine.hs, engine'.rpos = engine.rpos
  PROVE  InInv'
<1>1. Incoming' = Incoming /\ Consumed' = Consumed
  BY DEF Incoming, Consumed
<1>2. Line(Incoming, Consumed, peer)'
  BY <1>1 DEF InInv, Line, Right
<1> QED
  BY <1>2 DEF InInv

(* The engine takes units of the BIO.                                       *)
LEMMA InTakes ==
  ASSUME SslInv, InInv, NEW n \in 0..Len(inBio), inBio' = Drop(inBio, n),
         UNCHANGED <<inBuf, fromPeer, peer>>, Consumed' = Consumed + n,
         got' \in Seq(Nat), got' = [r \in 1..Len(got') |-> r],
         got' # <<>> \/ engine'.rpos > 0 => engine'.hs = Len(Script)
  PROVE  InInv'
<1>1. Incoming' = Drop(Incoming, n)
  <2>1. n \in 0..Len(inBio \o inBuf)
    <3>1. Len(inBio \o inBuf) = Len(inBio) + Len(inBuf) /\ Len(inBio) \in Nat /\ Len(inBuf) \in Nat
      BY IncomingType, ConcatProperties
    <3> QED
      BY <3>1
  <2>2. Drop(inBio \o inBuf, n) = Drop(inBio, n) \o inBuf
    BY IncomingType, DropOfJoin
  <2>3. Drop((inBio \o inBuf) \o fromPeer, n) = Drop(inBio \o inBuf, n) \o fromPeer
    BY <2>1, IncomingType, DropOfJoin
  <2> QED
    BY <2>2, <2>3 DEF Incoming
<1>2. n \in 0..Len(Incoming)
  <2>1. Len(inBio) \in Nat /\ Len(inBuf) \in Nat /\ Len(fromPeer) \in Nat
        /\ Len(Incoming) = Len(inBio) + Len(inBuf) + Len(fromPeer)
    BY IncomingType
  <2> QED
    BY <2>1
<1>3. Line(Drop(Incoming, n), Consumed + n, peer)
  BY <1>2, IncomingType, ConsumedType, LineDropped DEF InInv
<1>4. Line(Incoming, Consumed, peer)'
  BY <1>1, <1>3 DEF Line, Right
<1> QED
  BY <1>4 DEF InInv

(* Or it has seen the last one.                                             *)
LEMMA InEnds ==
  ASSUME SslInv, InInv, peer.end # "open", inBio' = <<>>, inBuf = <<>>, fromPeer = <<>>,
         UNCHANGED <<inBuf, fromPeer, peer, got>>,
         engine'.hs = engine.hs, engine'.rpos = engine.rpos
  PROVE  InInv'
<1>1. Incoming' = <<>>
  BY DEF Incoming
<1>2. Line(Incoming, Consumed, peer)'
  BY <1>1 DEF Line
<1> QED
  BY <1>2 DEF InInv

(* What the handshake consumes,                                             *)
LEMMA HandshakeReads ==
  ASSUME SslInv, InInv, NEW c \in DoHandshake, engine' = c.engine, inBio' = c.in,
         UNCHANGED <<inBuf, fromPeer, peer, got>>
  PROVE  InInv'
<1>1. /\ Buffers /\ Engine /\ {"hs", "rpos"} \subseteq DOMAIN engine
      /\ engine.hs \in 0..Len(Script) /\ Len(Script) \in Nat
  BY SslAssumption DEF SslInv, Engine, EngineOf, SslAssumption
<1>2. ASSUME c = Call("ssl", FALSE, engine, <<>>, outBio), NEW k \in 1..Len(inBio), inBio[k] = Bad
      PROVE  InInv'
  <2>1. inBuf = <<>> /\ fromPeer = <<>> /\ peer.end # "open"
    BY <1>2, LastUnit
  <2>2. inBio' = <<>> /\ engine' = engine
    BY <1>2 DEF Call
  <2> QED
    BY <2>1, <2>2, InEnds
<1>3. ASSUME NEW to \in engine.hs..Len(Script),
             Count("r", to) - Count("r", engine.hs) \in 0..Len(inBio),
             c.engine = [engine EXCEPT !.hs = to],
             c.in = Drop(inBio, Count("r", to) - Count("r", engine.hs))
      PROVE  InInv'
  <2> DEFINE m == Count("r", engine.hs)
             n == Count("r", to) - m
  <2>1. engine'.hs = to /\ engine'.rpos = engine.rpos /\ to \in Nat
        /\ (engine.hs = Len(Script) => to = Len(Script))
    BY <1>1, <1>3
  <2>2. m \in Nat /\ Count("r", to) \in Nat
    BY <1>1, <2>1, CountType
  <2>3. m + n = Count("r", to) /\ n \in Nat
    <3> HIDE DEF m
    <3> QED
      BY <1>3, <2>2 DEF m
  <2>4. Consumed' = Consumed + n
    <3>1. Consumed' = (m + n) + Len(got) * Record + engine.rpos
      BY <2>1, <2>3 DEF Consumed
    <3>2. Len(got) * Record \in Nat /\ engine.rpos \in Nat
      BY ConsumedType
    <3>3. \A a, b, d, r \in Nat : (a + b) + d + r = (a + d + r) + b
      OBVIOUS
    <3> HIDE DEF m, n
    <3> QED
      BY <2>2, <2>3, <3>1, <3>2, <3>3 DEF Consumed, m
  <2>5. inBio' = Drop(inBio, n) /\ n \in 0..Len(inBio)
    BY <1>3
  <2>6. got' # <<>> \/ engine'.rpos > 0 => engine'.hs = Len(Script)
    BY <2>1 DEF InInv
  <2> HIDE DEF n
  <2> QED
    BY <2>4, <2>5, <2>6, InTakes DEF InInv
<1> QED
  BY <1>1, <1>2, <1>3, HandshakeGoes

(* what SSL_write does not,                                                 *)
LEMMA WriteReads ==
  ASSUME SslInv, NEW c \in DoWrite
  PROVE  c.in = inBio /\ c.engine.hs = engine.hs /\ c.engine.rpos = engine.rpos
<1> DEFINE n == Min({Room, Record - engine.wpos})
           units == [k \in 1..n |-> Unit("data", engine.written + 1, engine.wpos + k)]
           done == [engine EXCEPT !.wpos = 0, !.written = @ + 1]
           part == [engine EXCEPT !.wpos = @ + n]
           out == outBio \o units
<1>1. {"hs", "rpos"} \subseteq DOMAIN engine
  BY DEF SslInv, Engine, EngineOf
<1>2. /\ done.hs = engine.hs /\ done.rpos = engine.rpos
      /\ part.hs = engine.hs /\ part.rpos = engine.rpos
  BY <1>1
<1>3. \/ c = Call("none", TRUE, done, inBio, out)
      \/ c = Call("want_write", FALSE, part, inBio, out)
  BY Zenon DEF DoWrite
<1> HIDE DEF done, part, out
<1> QED
  BY <1>2, <1>3 DEF Call

(* what SSL_shutdown takes of the input, the peer's alert,                  *)
LEMMA ShutdownReads ==
  ASSUME SslInv, InInv, NEW c \in DoShutdown, engine' = c.engine, inBio' = c.in,
         UNCHANGED <<inBuf, fromPeer, peer, got>>
  PROVE  InInv'
<1> DEFINE e == [engine EXCEPT !.sentClose = TRUE]
           closed == [e EXCEPT !.gotClose = TRUE]
           out == IF engine.sentClose THEN outBio ELSE Append(outBio, CloseUnit)
<1>1. {"hs", "rpos"} \subseteq DOMAIN engine /\ inBio \in Seq(Units)
  BY DEF SslInv, Engine, EngineOf, Buffers
<1>2. /\ e.hs = engine.hs /\ e.rpos = engine.rpos
      /\ closed.hs = engine.hs /\ closed.rpos = engine.rpos
  BY <1>1
<1>3. /\ c.engine \in {engine, e, closed}
      /\ \/ c.in = inBio
         \/ inBio # <<>> /\ Head(inBio) = CloseUnit /\ c.in = Tail(inBio)
  <2> HIDE DEF e, out
  <2>1. CASE ~engine.sentClose /\ Room = 0
    BY <2>1 DEF DoShutdown, Call
  <2>2. CASE engine.sentClose \/ Room # 0
    <3>1. CASE engine.gotClose
      BY <2>2, <3>1 DEF DoShutdown, Call, e, out
    <3>2. CASE ~engine.gotClose /\ inBio # <<>> /\ Head(inBio) = CloseUnit
      <4>1. c = Call("none", TRUE, closed, Tail(inBio), out)
        BY <2>2, <3>2 DEF DoShutdown, e, out
      <4> HIDE DEF closed
      <4> QED
        BY <3>2, <4>1 DEF Call
    <3>3. CASE ~engine.gotClose /\ ~(inBio # <<>> /\ Head(inBio) = CloseUnit)
      <4> DEFINE Errs == IF inBio = <<>> THEN {"want_read"} ELSE {"want_read", "ssl"}
      <4>1. c \in {Call(err, FALSE, e, inBio, out) : err \in Errs}
        BY Zenon, <2>2, <3>3 DEF DoShutdown, e, out
      <4> QED
        BY <4>1 DEF Call
    <3> QED
      BY <3>1, <3>2, <3>3
  <2> QED
    BY <2>1, <2>2
<1>4. engine'.hs = engine.hs /\ engine'.rpos = engine.rpos
  <2> HIDE DEF e, closed
  <2> QED
    BY <1>2, <1>3
<1>5. CASE c.in = inBio
  <2>1. (inBio' \o inBuf') \o fromPeer' = Incoming
    BY <1>5 DEF Incoming
  <2> QED
    BY <1>4, <2>1, InStays
<1>6. CASE inBio # <<>> /\ Head(inBio) = CloseUnit /\ c.in = Tail(inBio)
  <2>1. 1 \in 1..Len(inBio) /\ inBio[1] = CloseUnit
    BY <1>1, <1>6
  <2>2. inBuf = <<>> /\ fromPeer = <<>> /\ peer.end # "open" /\ Len(inBio) = 1
    BY <2>1, LastUnit
  <2>3. Tail(inBio) = <<>>
    <3>1. Tail(inBio) \in Seq(Units) /\ Len(Tail(inBio)) = 0
      BY <1>1, <1>6, <2>2
    <3> QED
      BY <3>1, EmptySeq
  <2> QED
    BY <1>4, <1>6, <2>2, <2>3, InEnds
<1> QED
  BY <1>3, <1>5, <1>6

(* The unit that completes a record names the record that is due.           *)
LEMMA RecordDue ==
  ASSUME SslInv, InInv, engine.hs = Len(Script), inBio # <<>>,
         Head(inBio) \notin {Bad, CloseUnit}, Record - engine.rpos =< Len(inBio)
  PROVE  inBio[Record - engine.rpos].n = Len(got) + 1
<1> DEFINE need == Record - engine.rpos
           u == inBio[need]
<1>1. /\ Record \in Nat \ {0} /\ engine.rpos \in 0..Record - 1 /\ engine.rpos \in Nat
      /\ inBio \in Seq(Units) /\ Len(inBio) \in Nat
      /\ Len(got) \in Nat /\ peer.hs \in Nat /\ peer.sent \in Nat
  BY SslAssumption, SMTT(30) DEF SslInv, Engine, EngineOf, Buffers, SslAssumption, InInv
<1>2. need \in 1..Len(inBio) /\ need \in Nat /\ engine.rpos + need = Record
  BY <1>1
<1>3. Len(got) * Record \in Nat /\ Promised \in Nat /\ Consumed \in Nat
      /\ peer.sent * Record \in Nat
  BY <1>1, ConsumedType, Product
<1>4. Consumed + need = Promised + Len(got) * Record + Record
  <2>1. Consumed = Promised + Len(got) * Record + engine.rpos
    BY DEF Consumed, Promised
  <2> DEFINE g == Len(got) * Record
  <2>2. g \in Nat
    BY <1>3
  <2>3. Consumed = Promised + g + engine.rpos
    BY <2>1
  <2> HIDE DEF g, need
  <2>4. Promised \in Nat
    BY <1>3
  <2>5. Consumed + need = Promised + g + Record
    BY <1>1, <1>2, <2>2, <2>3, <2>4
  <2> QED
    BY <2>5 DEF g
<1>5. Right(u, Consumed + need, need = Len(Incoming), peer)
  <2>1. Incoming[need] = u /\ need \in 1..Len(Incoming)
    BY <1>2, IncomingType
  <2> QED
    BY <2>1 DEF InInv, Line
<1> DEFINE at == Consumed + need
           g == Len(got) * Record
<1>6. at = Promised + g + Record /\ g \in Nat /\ at \in Nat
  BY <1>2, <1>3, <1>4
<1> HIDE DEF at, g, need, u
<1>7. ~(at =< peer.hs)
  <2>1. peer.hs =< Promised
    BY DEF InInv
  <2> QED
    BY <1>1, <1>3, <1>6, <2>1
<1>8. ASSUME NEW r \in 1..peer.sent, NEW q \in 1..Record,
             u = Unit("data", r, q), at = Promised + (r - 1) * Record + q
      PROVE  u.n = Len(got) + 1
  <2>1. r - 1 \in Nat /\ r \in Nat /\ q \in Nat
    BY <1>1
  <2>2. (r - 1) * Record \in Nat
    BY <1>1, <2>1, Product
  <2>3. (r - 1) * Record + q = g + Record
    <3> DEFINE a == (r - 1) * Record
    <3> HIDE DEF a
    <3> QED
      BY <1>1, <1>3, <1>6, <1>8, <2>1, <2>2 DEF a
  <2>4. r - 1 = Len(got)
    BY <1>1, <2>1, <2>3, LastOfRecord DEF g
  <2>5. r = Len(got) + 1
    BY <1>1, <2>1, <2>4
  <2> QED
    BY <1>8, <2>5 DEF Unit
<1>9. u \notin {CloseUnit, Bad}
  <2> SUFFICES ASSUME u \in {CloseUnit, Bad} PROVE FALSE
    OBVIOUS
  <2>1. at = peer.hs + peer.sent * Record + 1
    BY <1>2, LastUnit DEF u, at
  <2>2. need # 1
    BY <1>1 DEF u
  <2>3. Record > 1
    BY <1>1, <1>2, <2>2
  <2> DEFINE s == peer.sent * Record
  <2>4. s \in Nat
    BY <1>3
  <2>5. CASE peer.sent = 0
    <3>1. s = 0
      BY <1>1, <2>5
    <3>2. peer.hs =< Promised
      BY DEF InInv
    <3> HIDE DEF s
    <3> QED
      BY <1>1, <1>3, <1>6, <2>1, <2>3, <3>1, <3>2 DEF s
  <2>6. CASE peer.sent # 0
    <3>1. peer.hs = Promised
      BY <1>1, <2>6 DEF InInv
    <3>2. s + 1 = g + Record
      <4>1. at = peer.hs + s + 1
        BY <2>1
      <4> HIDE DEF s
      <4> QED
        BY <1>1, <1>3, <1>6, <2>4, <3>1, <4>1
    <3>3. Len(got) < peer.sent => g + Record =< s
      BY <1>1, Product DEF g
    <3>4. peer.sent < Len(got) => s + Record =< g
      BY <1>1, Product DEF g
    <3>5. peer.sent = Len(got) => s = g
      BY DEF g
    <3>6. Len(got) < peer.sent \/ peer.sent < Len(got) \/ peer.sent = Len(got)
      BY <1>1
    <3> HIDE DEF s
    <3> QED
      BY <1>1, <1>6, <2>3, <2>4, <3>2, <3>3, <3>4, <3>5, <3>6
  <2> QED
    BY <2>5, <2>6
<1>10. Right(u, at, need = Len(Incoming), peer)
  BY <1>5 DEF at
<1>11. u.n = Len(got) + 1
  BY <1>7, <1>8, <1>9, <1>10 DEF Right
<1> QED
  BY <1>11 DEF u, need

(* and what SSL_read does: a record, a part of one, or an alert.            *)
LEMMA ReadReads ==
  ASSUME SslInv, OutInv, InInv, engine.hs = Len(Script), NEW c \in DoRead,
         engine' = c.engine, inBio' = c.in, UNCHANGED <<inBuf, fromPeer, peer>>,
         got' = IF c.done THEN Append(got, c.engine.read) ELSE got
  PROVE  InInv'
<1> DEFINE need == Record - engine.rpos
           whole == [engine EXCEPT !.rpos = 0, !.read = inBio[need].n]
           part == [engine EXCEPT !.rpos = @ + Len(inBio)]
           closed == [engine EXCEPT !.gotClose = TRUE]
           rest == Drop(inBio, need)
<1>1. /\ {"hs", "rpos", "read"} \subseteq DOMAIN engine /\ inBio \in Seq(Units)
      /\ Record \in Nat \ {0} /\ engine.rpos \in 0..Record - 1 /\ engine.rpos \in Nat
      /\ Len(inBio) \in Nat
  BY SslAssumption DEF SslInv, Engine, EngineOf, Buffers, OutInv, Sealed, SslAssumption
<1>2. /\ closed.hs = engine.hs /\ closed.rpos = engine.rpos
      /\ part.hs = engine.hs /\ part.rpos = engine.rpos + Len(inBio)
      /\ whole.hs = engine.hs /\ whole.rpos = 0 /\ whole.read = inBio[need].n
  BY <1>1
<1>3. \/ c = Call("zero_return", FALSE, engine, inBio, outBio)
      \/ /\ inBio # <<>> /\ Head(inBio) = Bad
         /\ c = Call("ssl", FALSE, engine, <<>>, outBio)
      \/ /\ inBio # <<>> /\ Head(inBio) = CloseUnit
         /\ c = Call("zero_return", FALSE, closed, Tail(inBio), outBio)
      \/ /\ ~(inBio # <<>> /\ Head(inBio) = Bad) /\ ~(inBio # <<>> /\ Head(inBio) = CloseUnit)
         /\ Len(inBio) >= need /\ c = Call("none", TRUE, whole, rest, outBio)
      \/ c = Call("want_read", FALSE, part, <<>>, outBio)
  BY Zenon DEF DoRead
<1> HIDE DEF closed, part, whole
<1>4. CASE c = Call("zero_return", FALSE, engine, inBio, outBio)
  <2>1. engine' = engine /\ inBio' = inBio /\ got' = got
    BY <1>4 DEF Call
  <2>2. (inBio' \o inBuf') \o fromPeer' = Incoming
    BY <2>1 DEF Incoming
  <2> QED
    BY <2>1, <2>2, InStays
<1>5. CASE /\ inBio # <<>> /\ Head(inBio) = Bad
           /\ c = Call("ssl", FALSE, engine, <<>>, outBio)
  <2>1. 1 \in 1..Len(inBio) /\ inBio[1] = Bad
    BY <1>1, <1>5
  <2>2. inBuf = <<>> /\ fromPeer = <<>> /\ peer.end # "open"
    BY <2>1, LastUnit
  <2>3. engine' = engine /\ inBio' = <<>> /\ got' = got
    BY <1>5 DEF Call
  <2> QED
    BY <2>2, <2>3, InEnds
<1>6. CASE /\ inBio # <<>> /\ Head(inBio) = CloseUnit
           /\ c = Call("zero_return", FALSE, closed, Tail(inBio), outBio)
  <2>1. 1 \in 1..Len(inBio) /\ inBio[1] = CloseUnit
    BY <1>1, <1>6
  <2>2. inBuf = <<>> /\ fromPeer = <<>> /\ peer.end # "open" /\ Len(inBio) = 1
    BY <2>1, LastUnit
  <2>3. Tail(inBio) = <<>>
    <3>1. Tail(inBio) \in Seq(Units) /\ Len(Tail(inBio)) = 0
      BY <1>1, <1>6, <2>2
    <3> QED
      BY <3>1, EmptySeq
  <2>4. engine' = closed /\ inBio' = <<>> /\ got' = got
    BY <1>6, <2>3 DEF Call
  <2> QED
    BY <1>2, <2>2, <2>4, InEnds
<1>7. CASE /\ ~(inBio # <<>> /\ Head(inBio) = Bad) /\ ~(inBio # <<>> /\ Head(inBio) = CloseUnit)
           /\ Len(inBio) >= need /\ c = Call("none", TRUE, whole, rest, outBio)
  <2>1. engine' = whole /\ inBio' = Drop(inBio, need) /\ got' = Append(got, whole.read)
    BY <1>7 DEF Call
  <2>2. need \in 0..Len(inBio) /\ inBio # <<>> /\ need \in Nat /\ engine.rpos + need = Record
    <3>1. need \in Nat \ {0} /\ engine.rpos + need = Record /\ need =< Len(inBio)
      BY <1>1, <1>7
    <3> HIDE DEF need
    <3>2. Len(inBio) # 0
      BY <1>1, <3>1
    <3> QED
      BY <1>1, <3>1, <3>2, EmptySeq
  <2>3. whole.read = Len(got) + 1
    <3>1. Record - engine.rpos =< Len(inBio) /\ Head(inBio) \notin {Bad, CloseUnit}
      BY <1>1, <1>7, <2>2
    <3> QED
      BY <1>2, <2>2, <3>1, RecordDue
  <2>4. Len(got) \in Nat /\ got \in Seq(Nat) /\ got = [r \in 1..Len(got) |-> r]
    BY DEF InInv
  <2> DEFINE v == Len(got) + 1
  <2>5. got' = Append(got, v) /\ v \in Nat
    BY <2>1, <2>3, <2>4
  <2>6. got' \in Seq(Nat) /\ Len(got') = v /\ got' = [r \in 1..Len(got') |-> r]
    <3>1. Append(got, v) \in Seq(Nat) /\ Len(Append(got, v)) = v
          /\ \A i \in 1..Len(got) : Append(got, v)[i] = got[i]
          /\ Append(got, v)[Len(got) + 1] = v
      BY <2>4, <2>5, AppendProperties
    <3>2. \A i \in 1..v : Append(got, v)[i] = i
      <4>1. \A i \in 1..Len(got) : got[i] = i
        BY <2>4
      <4>2. \A i \in 1..v : i \in 1..Len(got) \/ i = Len(got) + 1
        BY <2>4
      <4> QED
        BY <3>1, <4>1, <4>2
    <3>3. Append(got, v) = [i \in 1..v |-> Append(got, v)[i]]
      BY <3>1, LenProperties
    <3> HIDE DEF v
    <3> QED
      BY <2>5, <3>1, <3>2, <3>3
  <2>7. Consumed' = Consumed + need
    <3>1. Consumed' = Count("r", engine.hs) + v * Record + 0
      BY <1>2, <2>1, <2>6 DEF Consumed
    <3>2. v * Record = Len(got) * Record + Record
      BY <1>1, <2>4
    <3> DEFINE a == Count("r", engine.hs)
               b == Len(got) * Record
    <3>3. a \in Nat /\ b \in Nat
      BY ConsumedType
    <3>4. Consumed' = a + (b + Record) + 0 /\ Consumed = a + b + engine.rpos
      BY <3>1, <3>2 DEF Consumed
    <3> HIDE DEF a, b, need
    <3>5. \A x, y, r, k \in Nat : x + (y + (r + k)) + 0 = (x + y + r) + k
      OBVIOUS
    <3>6. a + (b + (engine.rpos + need)) + 0 = (a + b + engine.rpos) + need
      BY <1>1, <2>2, <3>3, <3>5
    <3> QED
      BY <2>2, <3>4, <3>6
  <2>8. engine'.hs = Len(Script)
    BY <1>2, <2>1
  <2> HIDE DEF need
  <2> QED
    BY <2>1, <2>2, <2>6, <2>7, <2>8, InTakes
<1>8. CASE c = Call("want_read", FALSE, part, <<>>, outBio)
  <2>1. engine' = part /\ inBio' = <<>> /\ got' = got
    BY <1>8 DEF Call
  <2>2. Drop(inBio, Len(inBio)) = <<>>
    <3>1. Drop(inBio, Len(inBio)) \in Seq(Units) /\ Len(Drop(inBio, Len(inBio))) = 0
      BY <1>1, Dropped
    <3> QED
      BY <3>1, EmptySeq
  <2>3. Consumed' = Consumed + Len(inBio)
    <3> DEFINE a == Count("r", engine.hs) + Len(got) * Record
    <3>1. a \in Nat
      BY ConsumedType
    <3>2. Consumed' = a + (engine.rpos + Len(inBio)) /\ Consumed = a + engine.rpos
      BY <1>2, <2>1 DEF Consumed
    <3> HIDE DEF a
    <3> QED
      BY <1>1, <3>1, <3>2
  <2>4. got' \in Seq(Nat) /\ got' = [r \in 1..Len(got') |-> r] /\ engine'.hs = Len(Script)
    BY <1>2, <2>1 DEF InInv
  <2>5. Len(inBio) \in 0..Len(inBio) /\ inBio' = Drop(inBio, Len(inBio))
    BY <1>1, <2>1, <2>2
  <2> QED
    BY <2>3, <2>4, <2>5, InTakes
<1> QED
  BY <1>3, <1>4, <1>5, <1>6, <1>7, <1>8

(* The input buffer only passes on what it gets.                            *)
LEMMA InputPasses ==
  ASSUME Buffers, NEW buf \in Seq(Units), PutInput(buf)
  PROVE  /\ inBio' \in Seq(Units) /\ inBuf' \in Seq(Units)
         /\ inBio' \o inBuf' = inBio \o buf
<1> DEFINE room == BioSize - Len(inBio)
           n == Min({Len(buf), room})
<1>1. room \in Nat
  BY SslAssumption DEF SslAssumption, Buffers
<1>2. n \in 0..Len(buf)
  <2> HIDE DEF room
  <2> QED
    BY <1>1, MinOfTwo
<1>3. inBio' = inBio \o SubSeq(buf, 1, n) /\ inBuf' = Drop(buf, n)
  BY DEF PutInput
<1> HIDE DEF n
<1>4. /\ SubSeq(buf, 1, n) \in Seq(Units) /\ Drop(buf, n) \in Seq(Units)
      /\ SubSeq(buf, 1, n) \o Drop(buf, n) = buf
  BY <1>2, Dropped, TakenApart
<1>5. (inBio \o SubSeq(buf, 1, n)) \o Drop(buf, n) = inBio \o (SubSeq(buf, 1, n) \o Drop(buf, n))
  <2>1. \A s, t, u \in Seq(Units) : (s \o t) \o u = s \o (t \o u)
    BY ConcatAssociative
  <2> QED
    BY <1>4, <2>1, ZenonT(40) DEF Buffers
<1>6. inBio \o SubSeq(buf, 1, n) \in Seq(Units)
  BY <1>4, ConcatProperties DEF Buffers
<1> QED
  BY <1>3, <1>4, <1>5, <1>6

(* The steps of an operation keep the order of what comes,                  *)
LEMMA WorkingReads ==
  ASSUME SslInv, OutInv, InInv, NEW l \in Lanes, Working(l)
  PROVE  InInv'
<1>1. CASE Perform(l)
  <2>1. PICK c \in Calls(op[l].kind) :
          /\ engine' = c.engine /\ inBio' = c.in
          /\ got' = IF op[l].kind = "recv" /\ c.done THEN Append(got, c.engine.read) ELSE got
    BY <1>1 DEF Perform
  <2>2. op[l].pc = "perform" /\ UNCHANGED <<inBuf, fromPeer, peer>>
    BY <1>1 DEF Perform
  <2>3. /\ op[l].kind \in {"handshake", "recv", "send", "shutdown"}
        /\ op[l].kind = "recv" => l = "recv"
    BY <2>2 DEF SslInv, Operations, Kinds, Lanes
  <2>4. CASE op[l].kind = "handshake"
    BY <2>1, <2>2, <2>4, HandshakeReads DEF Calls
  <2>5. CASE op[l].kind = "send"
    <3>1. inBio' = inBio /\ engine'.hs = engine.hs /\ engine'.rpos = engine.rpos /\ got' = got
      BY <2>1, <2>5, WriteReads DEF Calls
    <3>2. (inBio' \o inBuf') \o fromPeer' = Incoming
      BY <2>2, <3>1 DEF Incoming
    <3> QED
      BY <2>2, <3>1, <3>2, InStays
  <2>6. CASE op[l].kind = "shutdown"
    BY <2>1, <2>2, <2>6, ShutdownReads DEF Calls
  <2>7. CASE op[l].kind = "recv"
    <3>1. engine.hs = Len(Script)
      BY <2>3, <2>7 DEF OutInv, Stages
    <3> QED
      BY <2>1, <2>2, <2>7, <3>1, ReadReads DEF Calls
  <2> QED
    BY <2>3, <2>4, <2>5, <2>6, <2>7
<1>2. CASE WantInput(l) /\ inBuf # <<>>
  <2>1. PutInput(inBuf) /\ UNCHANGED <<engine, fromPeer, peer, got>>
    BY <1>2 DEF WantInput
  <2>2. inBio' \o inBuf' = inBio \o inBuf
    BY <2>1, InputPasses DEF SslInv, Buffers
  <2>3. (inBio' \o inBuf') \o fromPeer' = Incoming
    BY <2>1, <2>2 DEF Incoming
  <2> QED
    BY <2>1, <2>3, InStays
<1>3. ASSUME NEW n \in 1..Min({BufSize - Len(inBuf), Len(fromPeer)}),
             PutInput(inBuf \o SubSeq(fromPeer, 1, n)), fromPeer' = Drop(fromPeer, n),
             UNCHANGED <<engine, peer, got>>
      PROVE  InInv'
  <2>1. n \in 0..Len(fromPeer)
    <3>1. Len(fromPeer) \in Nat /\ BufSize - Len(inBuf) \in Int
      BY SslAssumption DEF SslAssumption, SslInv, Buffers
    <3> DEFINE m == Min({BufSize - Len(inBuf), Len(fromPeer)})
    <3>2. m \in Int /\ m =< Len(fromPeer)
      BY <3>1, MinOfTwo
    <3> HIDE DEF m
    <3>3. n \in 1..m
      BY <1>3 DEF m
    <3> QED
      BY <3>1, <3>2, <3>3
  <2> DEFINE first == SubSeq(fromPeer, 1, n)
             last == Drop(fromPeer, n)
  <2>2. first \in Seq(Units) /\ last \in Seq(Units) /\ first \o last = fromPeer
    BY <2>1, Dropped, TakenApart, IncomingType
  <2> HIDE DEF first, last
  <2>3. inBuf \o first \in Seq(Units) /\ inBio \in Seq(Units) /\ inBuf \in Seq(Units)
        /\ inBio \o inBuf \in Seq(Units)
    BY <2>2, ConcatProperties, IncomingType
  <2>4. inBio' \o inBuf' = inBio \o (inBuf \o first)
    BY <1>3, <2>3, InputPasses DEF SslInv, first
  <2>5. \A s, t, u \in Seq(Units) : (s \o t) \o u = s \o (t \o u)
    BY ConcatAssociative, SMTT(30)
  <2>6. inBio \o (inBuf \o first) = (inBio \o inBuf) \o first
    BY <2>2, <2>3, <2>5, SMTT(30)
  <2>7. ((inBio \o inBuf) \o first) \o last = (inBio \o inBuf) \o (first \o last)
    BY <2>2, <2>3, <2>5, ZenonT(40)
  <2>8. fromPeer' = last
    BY <1>3 DEF last
  <2>9. (inBio' \o inBuf') \o fromPeer' = Incoming
    BY <2>2, <2>4, <2>6, <2>7, <2>8 DEF Incoming
  <2> QED
    BY <1>3, <2>9, InStays
<1>4. ASSUME UNCHANGED <<engine, inBio, inBuf, fromPeer, peer, got>> PROVE InInv'
  <2>1. (inBio' \o inBuf') \o fromPeer' = Incoming
    BY <1>4 DEF Incoming
  <2> QED
    BY <1>4, <2>1, InStays
<1>5. CASE ReceiveCallback(l)
  BY <1>3, <1>4, <1>5 DEF ReceiveCallback
<1>6. CASE WantInput(l) /\ inBuf = <<>>
  BY <1>4, <1>6 DEF WantInput
<1>7. CASE \/ PendingBefore(l) \/ PendingAfter(l) \/ WantOutput(l) \/ WantNothing(l)
           \/ PostCallback(l) \/ Transmit(l) \/ SendCallback(l)
  BY <1>4, <1>7 DEF PendingBefore, PendingAfter, WantOutput, WantNothing, PostCallback, Transmit,
                    SendCallback
<1> QED
  BY <1>1, <1>2, <1>5, <1>6, <1>7 DEF Working

(* The peer's next units are in line behind the others.                     *)
LEMMA LineContinued ==
  ASSUME NEW s \in Seq(Units), NEW more \in Seq(Units), NEW base \in Nat, NEW p, NEW q,
         Line(s, base, p), p.end = "open", p.hs \in Nat, p.sent \in Nat, q.hs \in Nat, q.sent \in Nat,
         p.hs =< q.hs, p.sent =< q.sent,
         q.end = "open" => (base + Len(s)) + Len(more) = q.hs + q.sent * Record,
         \A k \in 1..Len(more) : Right(more[k], (base + Len(s)) + k, k = Len(more), q)
  PROVE  Line(s \o more, base, q)
<1>1. /\ s \o more \in Seq(Units) /\ Len(s \o more) = Len(s) + Len(more)
      /\ \A i \in 1..Len(s) + Len(more) :
           (s \o more)[i] = IF i =< Len(s) THEN s[i] ELSE more[i - Len(s)]
  BY ConcatProperties
<1>2. Len(s) \in Nat /\ Len(more) \in Nat
  OBVIOUS
<1> DEFINE t == s \o more
<1> HIDE DEF t
<1>3. t \in Seq(Units) /\ Len(t) = Len(s) + Len(more)
      /\ \A i \in 1..Len(t) : t[i] = IF i =< Len(s) THEN s[i] ELSE more[i - Len(s)]
  BY <1>1 DEF t
<1>4. ASSUME NEW k \in 1..Len(t) PROVE Right(t[k], base + k, k = Len(t), q)
  <2>1. k \in Nat
    BY <1>2, <1>3
  <2>2. CASE k =< Len(s)
    <3>1. k \in 1..Len(s) /\ t[k] = s[k]
      BY <1>2, <1>3, <2>1, <2>2
    <3>2. Right(s[k], base + k, k = Len(s), p)
      BY <3>1 DEF Line
    <3>3. CASE s[k].type = "hs" /\ base + k =< p.hs
      <4>1. base + k =< q.hs
        BY <2>1, <3>3
      <4> QED
        BY <3>1, <3>3, <4>1 DEF Right
    <3>4. CASE \E r \in 1..p.sent : \E i \in 1..Record :
                 s[k] = Unit("data", r, i) /\ base + k = Promised + (r - 1) * Record + i
      <4>1. 1..p.sent \subseteq 1..q.sent
        OBVIOUS
      <4> QED
        BY <3>1, <3>4, <4>1 DEF Right
    <3> QED
      BY <3>2, <3>3, <3>4 DEF Right
  <2>3. CASE ~(k =< Len(s))
    <3> DEFINE j == k - Len(s)
    <3>1. j \in 1..Len(more) /\ (base + Len(s)) + j = base + k /\ (j = Len(more) <=> k = Len(t))
      <4>1. k =< Len(t) /\ Len(t) = Len(s) + Len(more)
        BY <1>2, <1>3
      <4> QED
        BY <1>2, <2>1, <2>3, <4>1
    <3>2. t[k] = more[j]
      BY <1>3, <2>3
    <3> HIDE DEF j
    <3> QED
      BY <3>1, <3>2 DEF Right
  <2> QED
    BY <2>2, <2>3
<1>5. q.end = "open" => base + Len(t) = q.hs + q.sent * Record
  <2>1. (base + Len(s)) + Len(more) = base + Len(t)
    BY <1>2, <1>3
  <2> QED
    BY <2>1
<1> QED
  BY <1>4, <1>5 DEF Line, t

(* What the peer may send.                                                  *)
LEMMA PeerReads ==
  ASSUME SslInv, InInv, NEW more \in Seq(Units), fromPeer' = fromPeer \o more,
         peer.end = "open", UNCHANGED <<engine, inBio, inBuf, got>>,
         "end" \in DOMAIN peer', peer'.hs \in Nat, peer'.sent \in Nat,
         peer.hs =< peer'.hs, peer.sent =< peer'.sent,
         peer'.hs =< Promised, peer'.sent > 0 => peer'.hs = Promised,
         peer'.end = "open" => peer.hs + peer.sent * Record + Len(more)
                                 = peer'.hs + peer'.sent * Record,
         \A k \in 1..Len(more) :
           Right(more[k], peer.hs + peer.sent * Record + k, k = Len(more), peer')
  PROVE  InInv'
<1>1. Incoming' = Incoming \o more
  <2>2. ((inBio \o inBuf) \o fromPeer) \o more = (inBio \o inBuf) \o (fromPeer \o more)
    BY UnitsJoin, IncomingType
  <2> QED
    BY <2>2 DEF Incoming
<1>2. Consumed' = Consumed
  BY DEF Consumed
<1>3. Incoming \in Seq(Units) /\ Consumed \in Nat /\ peer.hs \in Nat /\ peer.sent \in Nat
  BY IncomingType, ConsumedType DEF SslInv, Engine
<1>4. Line(Incoming, Consumed, peer) /\ Consumed + Len(Incoming) = peer.hs + peer.sent * Record
  BY DEF InInv, Line
<1> DEFINE q == peer'
<1>5. Line(Incoming \o more, Consumed, q)
  <2>1. /\ q.end = "open" => (Consumed + Len(Incoming)) + Len(more) = q.hs + q.sent * Record
        /\ \A k \in 1..Len(more) : Right(more[k], (Consumed + Len(Incoming)) + k, k = Len(more), q)
    BY <1>4
  <2>2. q.hs \in Nat /\ q.sent \in Nat /\ peer.hs =< q.hs /\ peer.sent =< q.sent
    OBVIOUS
  <2> HIDE DEF q
  <2> QED
    BY <1>3, <1>4, <2>1, <2>2, LineContinued
<1>6. Line(Incoming, Consumed, peer)'
  BY <1>1, <1>2, <1>5 DEF Line, Right
<1> QED
  BY <1>6 DEF InInv

(* and so do the handshake, the records and the end of the peer.            *)
LEMMA PeerInLine ==
  ASSUME SslInv, InInv, PeerHandshake \/ PeerSend \/ PeerEnd
  PROVE  InInv'
<1>1. UNCHANGED <<engine, inBio, inBuf, got>> /\ peer.end = "open"
  BY DEF PeerHandshake, PeerSend, PeerEnd, Ours
<1>2. /\ {"hs", "sent", "end"} \subseteq DOMAIN peer /\ peer.hs \in Nat /\ peer.sent \in Nat
      /\ Record \in Nat \ {0} /\ Len(Script) \in Nat /\ Promised \in Nat /\ fromPeer \in Seq(Units)
      /\ peer.hs =< Promised /\ (peer.sent > 0 => peer.hs = Promised)
  BY SslAssumption, CountType DEF SslInv, Engine, Buffers, InInv, Promised, SslAssumption
<1>3. CASE PeerHandshake
  <2> DEFINE u == Unit("hs", peer.hs + 1, 1)
             more == <<u>>
  <2>1. peer' = [peer EXCEPT !.hs = peer.hs + 1] /\ fromPeer' = Append(fromPeer, u)
    BY <1>3 DEF PeerHandshake
  <2>2. /\ peer'.hs = peer.hs + 1 /\ peer'.sent = peer.sent /\ peer'.end = "open"
        /\ "end" \in DOMAIN peer'
    BY <1>1, <1>2, <2>1
  <2>3. peer.hs + 1 =< Promised
    <3>1. PICK i \in DOMAIN Script : Count("r", i) = peer.hs + 1
      BY <1>3 DEF PeerHandshake
    <3>2. i \in Nat /\ i =< Len(Script)
      BY SslAssumption DEF SslAssumption
    <3> QED
      BY <1>2, <3>1, <3>2, CountGrows DEF Promised
  <2>4. peer.sent = 0 /\ peer.sent * Record = 0
    BY <1>2, <2>3
  <2>5. u \in Units /\ u.type = "hs"
    BY <1>2 DEF Unit, Units
  <2> HIDE DEF u
  <2>6. more \in Seq(Units) /\ Len(more) = 1 /\ more[1] = u /\ fromPeer' = fromPeer \o more
    BY <1>2, <2>1, <2>5, AppendIsConcat
  <2> HIDE DEF more
  <2>7. ASSUME NEW k \in 1..Len(more)
        PROVE  Right(more[k], peer.hs + peer.sent * Record + k, k = Len(more), peer')
    <3>1. k = 1 /\ more[k] = u
      BY <2>6
    <3>2. peer.hs + peer.sent * Record + k =< peer'.hs
      BY <1>2, <2>2, <2>4, <3>1
    <3> QED
      BY <2>5, <3>1, <3>2 DEF Right
  <2>8. peer.hs + peer.sent * Record + Len(more) = peer'.hs + peer'.sent * Record
    BY <1>2, <2>2, <2>4, <2>6
  <2>9. /\ peer'.hs \in Nat /\ peer'.sent \in Nat /\ peer.hs =< peer'.hs
        /\ peer.sent =< peer'.sent /\ peer'.hs =< Promised /\ ~(peer'.sent > 0)
    BY <1>2, <2>2, <2>3, <2>4
  <2> QED
    BY <1>1, <2>2, <2>6, <2>7, <2>8, <2>9, PeerReads
<1>4. CASE PeerSend
  <2> DEFINE r == peer.sent + 1
             more == Rec(r)
  <2>1. /\ peer' = [peer EXCEPT !.sent = r] /\ fromPeer' = fromPeer \o more
        /\ peer.hs = Promised
    BY <1>4 DEF PeerSend, PeerSecured, Rec, Promised
  <2>2. /\ peer'.hs = peer.hs /\ peer'.sent = r /\ peer'.end = "open"
        /\ "end" \in DOMAIN peer'
    BY <1>1, <1>2, <2>1
  <2>3. r \in Nat /\ r - 1 = peer.sent /\ r * Record = peer.sent * Record + Record /\ peer.sent =< r
    BY <1>2
  <2>4. more \in Seq(Units) /\ Len(more) = Record /\ \A k \in 1..Record : more[k] = Unit("data", r, k)
    BY <2>3, RecordType
  <2>5. peer.sent * Record \in Nat
    BY <1>2, Product
  <2> HIDE DEF more, r
  <2>6. ASSUME NEW k \in 1..Len(more)
        PROVE  Right(more[k], peer.hs + peer.sent * Record + k, k = Len(more), peer')
    <3>1. k \in 1..Record /\ more[k] = Unit("data", r, k)
      BY <2>4
    <3>2. r \in 1..peer'.sent
      BY <1>2, <2>2, <2>3
    <3>3. peer.hs + peer.sent * Record + k = Promised + (r - 1) * Record + k
      BY <2>1, <2>3
    <3> QED
      BY <3>1, <3>2, <3>3 DEF Right
  <2>7. peer.hs + peer.sent * Record + Len(more) = peer'.hs + peer'.sent * Record
    <3> DEFINE s == peer.sent * Record
    <3>1. s \in Nat /\ peer'.sent * Record = s + Record
      BY <2>2, <2>3, <2>5
    <3> HIDE DEF s
    <3>2. peer.hs + s + Record = peer.hs + (s + Record)
      BY <1>2, <3>1
    <3> QED
      BY <2>2, <2>4, <3>1, <3>2 DEF s
  <2> QED
    BY <1>1, <1>2, <2>1, <2>2, <2>3, <2>4, <2>6, <2>7, PeerReads
<1>5. CASE PeerEnd
  <2>1. CloseUnit \in Units /\ Bad \in Units /\ \A u \in Units : <<u>> \in Seq(Units)
    BY DEF CloseUnit, Bad, Unit, Units
  <2>2. PICK e \in {"eof", "reset"} : peer' = [peer EXCEPT !.end = e]
    BY <1>5 DEF PeerEnd
  <2>3. /\ peer'.hs = peer.hs /\ peer'.sent = peer.sent /\ peer'.end # "open"
        /\ "end" \in DOMAIN peer'
    BY <1>2, <2>2
  <2> DEFINE Kept == /\ peer'.hs \in Nat /\ peer'.sent \in Nat /\ peer.hs =< peer'.hs
                     /\ peer.sent =< peer'.sent /\ peer'.hs =< Promised
                     /\ (peer'.sent > 0 => peer'.hs = Promised)
  <2>k. Kept
    BY <1>2, <2>3
  <2>4. CASE fromPeer' = fromPeer
    <3>1. fromPeer' = fromPeer \o <<>> /\ <<>> \in Seq(Units) /\ Len(<<>>) = 0
      BY <1>2, <2>4, ConcatEmptySeq, EmptySeq
    <3>2. \A k \in 1..Len(<<>>) :
            Right(<<>>[k], peer.hs + peer.sent * Record + k, k = Len(<<>>), peer')
      BY <3>1
    <3> QED
      BY <1>1, <2>3, <2>k, <3>1, <3>2, PeerReads
  <2>5. ASSUME NEW u \in {CloseUnit, Bad}, fromPeer' = Append(fromPeer, u) PROVE InInv'
    <3> DEFINE more == <<u>>
    <3>1. more \in Seq(Units) /\ Len(more) = 1 /\ more[1] = u /\ fromPeer' = fromPeer \o more
      BY <1>2, <2>1, <2>5, AppendIsConcat
    <3> HIDE DEF more
    <3>2. ASSUME NEW k \in 1..Len(more)
          PROVE  Right(more[k], peer.hs + peer.sent * Record + k, k = Len(more), peer')
      <4>1. k = 1 /\ more[k] = u
        BY <3>1
      <4> QED
        BY <2>3, <3>1, <4>1 DEF Right
    <3> QED
      BY <1>1, <2>3, <2>k, <3>1, <3>2, PeerReads
  <2> QED
    BY <1>5, <2>4, <2>5 DEF PeerEnd
<1> QED
  BY <1>3, <1>4, <1>5

(* At first nothing comes.                                                  *)
LEMMA InInit == Init => InInv
<1> SUFFICES ASSUME Init PROVE InInv
  OBVIOUS
<1>1. /\ engine.hs = 0 /\ engine.rpos = 0 /\ got = <<>> /\ inBio = <<>> /\ inBuf = <<>>
      /\ fromPeer = <<>> /\ peer.hs = 0 /\ peer.sent = 0 /\ "end" \in DOMAIN peer
  BY DEF Init
<1>2. Record \in Nat /\ Len(Script) \in Nat /\ Promised \in Nat
  BY SslAssumption, CountType DEF Promised, SslAssumption
<1>3. Count("r", 0) = 0
  BY FS_EmptySet DEF Count
<1>4. Incoming = <<>> /\ Len(Incoming) = 0
  BY <1>1 DEF Incoming
<1>5. Len(got) = 0 /\ got \in Seq(Nat) /\ got = [r \in 1..Len(got) |-> r]
  BY <1>1, EmptySeq
<1>6. Consumed = 0
  BY <1>1, <1>2, <1>3, <1>5 DEF Consumed
<1>7. Line(Incoming, Consumed, peer)
  BY <1>1, <1>2, <1>4, <1>6 DEF Line
<1> QED
  BY <1>1, <1>2, <1>5, <1>7 DEF InInv

(* Every step keeps the order of what comes.                                *)
LEMMA InStep == SslInv /\ OutInv /\ InInv /\ [Next]_vars => InInv'
<1> SUFFICES ASSUME SslInv, OutInv, InInv, [Next]_vars PROVE InInv'
  OBVIOUS
<1>1. ASSUME UNCHANGED <<engine, inBio, inBuf, fromPeer, peer, got>> PROVE InInv'
  <2>1. (inBio' \o inBuf') \o fromPeer' = Incoming
    BY <1>1 DEF Incoming
  <2> QED
    BY <1>1, <2>1, InStays
<1>2. CASE AsynHandshake \/ AsynSend \/ AsynRecv \/ AsynShutdown
  BY <1>1, <1>2 DEF AsynHandshake, AsynSend, AsynRecv, AsynShutdown, Unmoved
<1>3. CASE UNCHANGED vars
  BY <1>1, <1>3 DEF vars
<1> QED
  BY <1>2, <1>3, WorkingReads, PeerInLine DEF Next

(* The peer gets what the engine made, in order and each unit once, until   *)
(* it resets the connection; and the program gets the peer's records, in    *)
(* order and each once, through BIOs and buffers of any sizes.              *)
THEOREM InOrderCorrect == Spec => []InOrder
<1>1. ASSUME SslInv, OutInv, InInv PROVE InOrder
  BY <1>1, OutLinePrefix DEF InOrder, InInv
<1>2. Init => SslInv /\ OutInv /\ InInv
  BY SslInit, OutInit, InInit
<1>3. SslInv /\ OutInv /\ InInv /\ [Next]_vars => (SslInv /\ OutInv /\ InInv)'
  BY SslStep, OutStep, InStep
<1> QED
  BY <1>1, <1>2, <1>3, PTL DEF Spec
=============================================================================
