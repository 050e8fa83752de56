-------------------------- MODULE HttpRequestProofs --------------------------
(***************************************************************************)
(* The assertions of http_parser.c, for any bytes, cut in any way, in      *)
(* either mode: what the states of http_parser_execute say of the marks,   *)
(* of the content length, of the counted bytes and of the header.          *)
(* Then the URL: each request carries a whole one, and no byte is read     *)
(* twice or left out between two buffers.                                  *)
(***************************************************************************)
EXTENDS HttpRequest, FiniteSetTheorems, SequenceTheorems, TLAPS

----------------------------------------------------------------------------
(* The inductive invariant.                                                 *)
States == HeaderStates \cup {"body_identity", "message_done", "chunk_data",
                             "chunk_data_almost_done", "chunk_data_done"}

Shape ==
  /\ pc \in {"idle", "recv", "loop", "byte", "returned", "over"}
  /\ {"state", "errno", "length", "hstate", "nread"} \subseteq DOMAIN parser
  /\ parser.state \in States
  /\ parser.length \in 0..NoLength /\ parser.nread \in Nat
  /\ mark \in [Marks -> Int]
  /\ sent \in Nat /\ data \in Seq(STRING) /\ p \in Nat
  /\ pc \in {"loop", "byte", "returned"} => p =< Len(data)
  /\ pc = "byte" => p < Len(data)

(* The states in which a piece of a buffer is being marked.                 *)
Marked == [url |-> UrlStates, header_field |-> {"header_field"},
           header_value |-> {"header_value"},
           body |-> {"body_identity", "chunk_data", "chunk_data_almost_done"}]
MarksFit ==
  pc \in {"loop", "byte"} => \A m \in Marks : mark[m] # NULL => parser.state \in Marked[m]

(* A body has a length, and a chunk size on its way to one is not the value *)
(* that stands for none.                                                    *)
LengthKnown ==
  /\ parser.state \in {"body_identity", "chunk_data"} => parser.length \notin {0, NoLength}
  /\ parser.state \in {"chunk_size", "chunk_parameters", "chunk_size_almost_done"} =>
       parser.length # NoLength

(* The bytes of a chunk size are counted from its first one on.             *)
Counted ==
  parser.state = "chunk_size_start" =>
    /\ pc = "byte" => parser.nread = 1
    /\ pc \in {"idle", "recv", "loop"} \/ (pc = "returned" /\ parser.errno \in {"OK", "PAUSED"})
         => parser.nread = 0

HeaderKnown == parser.state = "header_value" => parser.hstate \notin DOMAIN Values

Running == pc \in {"loop", "byte"} => parser.errno = "OK"

ParserInv == Shape /\ MarksFit /\ LengthKnown /\ Counted /\ HeaderKnown /\ Running

----------------------------------------------------------------------------
(* What one byte may do.                                                    *)

(* The part of the invariant that is about the parser's fields alone.       *)
Fields(q) ==
  /\ {"state", "errno", "length", "hstate", "nread"} \subseteq DOMAIN q
  /\ q.state \in States /\ q.length \in 0..NoLength /\ q.nread \in Nat
Sound(q) ==
  /\ Fields(q)
  /\ q.state \in {"body_identity", "chunk_data"} => q.length \notin {0, NoLength}
  /\ q.state \in {"chunk_size", "chunk_parameters", "chunk_size_almost_done"} =>
       q.length # NoLength
  /\ q.state = "header_value" => q.hstate \notin DOMAIN Values

(* States that are neither a marked piece nor checked for anything.         *)
Plain == States \ ({"body_identity", "chunk_data", "chunk_size", "chunk_parameters",
                    "chunk_size_almost_done", "header_value", "chunk_size_start"})
Unmarked(s) == \A m \in Marks : s \notin Marked[m]

(* ULLONG_MAX is the largest length.                                        *)
LEMMA NoLengthIs == NoLength \in Nat /\ NoLength >= 16 /\ NoLength = LengthMod - 1
BY SizesAssumption DEF NoLength

(* The invariant says of the parser what a step must say of the next one.   *)
LEMMA Now == ParserInv => Sound(parser)
BY DEF ParserInv, Shape, LengthKnown, HeaderKnown, Sound, Fields

(* A state without obligations of its own.                                  *)
LEMMA PlainSound ==
  ASSUME NEW q, Fields(q), q.state \in Plain
  PROVE  Sound(q)
BY DEF Sound, Plain

(* Going to a state changes nothing else.                                   *)
LEMMA GotoFields ==
  ASSUME ParserInv, NEW s \in States
  PROVE  /\ Fields(Goto(s)) /\ Goto(s).state = s /\ Goto(s).errno = parser.errno
         /\ Goto(s).length = parser.length /\ Goto(s).hstate = parser.hstate
         /\ Goto(s).nread = parser.nread
BY DEF ParserInv, Shape, Goto, Fields

(* Where a byte leaves the parser, and what has to hold there.              *)
LEMMA Lands ==
  ASSUME ParserInv, Fixed, Sound(parser'),
         pc' \in {"loop", "byte", "returned"}, p' \in Nat, p' =< Len(data),
         pc' = "byte" => p' < Len(data), mark' \in [Marks -> Int],
         pc' \in {"loop", "byte"} =>
           parser'.errno = "OK" /\ \A m \in Marks : mark'[m] # NULL => parser'.state \in Marked[m],
         parser'.state = "chunk_size_start" =>
           \/ pc' = "loop" /\ parser'.nread = 0
           \/ pc' = "returned" /\ parser'.errno \notin {"OK", "PAUSED"}
  PROVE  ParserInv'
<1>1. Shape'
  BY DEF ParserInv, Shape, Sound, Fields, Fixed
<1>2. MarksFit' /\ Running'
  BY DEF MarksFit, Running
<1>3. LengthKnown' /\ HeaderKnown'
  BY DEF LengthKnown, HeaderKnown, Sound
<1>4. Counted'
  BY DEF Counted
<1> QED
  BY <1>1, <1>2, <1>3, <1>4 DEF ParserInv

(* An error ends the run.                                                   *)
LEMMA Fails ==
  ASSUME ParserInv, pc = "byte", NEW e, e \notin {"OK", "PAUSED"}, Error(e), Fixed
  PROVE  ParserInv'
<1>1. /\ parser' = [parser EXCEPT !.errno = e] /\ pc' = "returned" /\ p' = p /\ mark' = mark
  BY DEF Error
<1>2. Sound(parser') /\ parser'.errno = e
  BY <1>1, Now DEF Sound, Fields
<1>3. p \in Nat /\ p =< Len(data) /\ mark \in [Marks -> Int]
  BY DEF ParserInv, Shape
<1> QED
  BY <1>1, <1>2, <1>3, Lands

(* The byte is taken, and a mark in the state it leaves is one in the next. *)
LEMMA Steps ==
  ASSUME ParserInv, pc = "byte", NEW q, Step(q), Fixed, Sound(q), q.errno = parser.errno,
         q.state = "chunk_size_start" => q.nread = 0,
         \A m \in Marks : parser.state \in Marked[m] => q.state \in Marked[m]
  PROVE  ParserInv'
<1>1. parser' = q /\ p' = p + 1 /\ pc' = "loop" /\ mark' = mark
  BY DEF Step, Consume
<1>2. /\ p + 1 \in Nat /\ p + 1 =< Len(data) /\ mark \in [Marks -> Int] /\ parser.errno = "OK"
      /\ \A m \in Marks : mark[m] # NULL => parser.state \in Marked[m]
  BY DEF ParserInv, Shape, MarksFit, Running
<1> QED
  BY <1>1, <1>2, Lands

(* The message is complete: the parser is paused between two messages.      *)
LEMMA Completes ==
  ASSUME ParserInv, pc = "byte", NEW q, Fields(q), MessageComplete(q), Fixed
  PROVE  ParserInv'
<1>1. /\ parser' = [q EXCEPT !.state = NewMessage(q), !.errno = "PAUSED"]
      /\ pc' = "returned" /\ p' = p + 1 /\ mark' = mark
  BY DEF MessageComplete
<1>2. NewMessage(q) \in Plain /\ NewMessage(q) \in States
  BY DEF NewMessage, Plain, States, HeaderStates
<1>3. Fields(parser') /\ parser'.state = NewMessage(q)
  BY <1>1, <1>2 DEF Fields
<1>4. Sound(parser') /\ parser'.state # "chunk_size_start"
  BY <1>2, <1>3, PlainSound DEF Plain
<1>5. p + 1 \in Nat /\ p + 1 =< Len(data) /\ mark \in [Marks -> Int]
  BY DEF ParserInv, Shape
<1> QED
  BY <1>1, <1>4, <1>5, Lands

(* A piece is reported: its mark is the only one there was.                 *)
LEMMA Reports ==
  ASSUME ParserInv, pc = "byte", Fixed, NEW what \in Marks, NEW from, NEW to, NEW q, NEW next, NEW then,
         CallbackData(what, from, to, q, next, then),
         Sound(q), q.errno = parser.errno, q.state # "chunk_size_start",
         \A m \in Marks \ {what} : parser.state \notin Marked[m],
         next \in Nat, next =< Len(data), then \in {"loop", "byte"},
         then = "byte" => next < Len(data)
  PROVE  ParserInv'
<1>1. /\ mark' = [mark EXCEPT ![what] = NULL]
      /\ \E e \in {q.errno, "PAUSED"} : parser' = [q EXCEPT !.errno = e]
      /\ p' = next /\ pc' \in {then, "returned"}
      /\ pc' # "returned" => parser' = [q EXCEPT !.errno = q.errno]
  BY DEF CallbackData
<1>2. /\ Sound(parser') /\ parser'.state = q.state
      /\ pc' # "returned" => parser'.errno = q.errno
  BY <1>1 DEF Sound, Fields
<1>3. /\ mark \in [Marks -> Int] /\ parser.errno = "OK"
      /\ \A m \in Marks : mark[m] # NULL => parser.state \in Marked[m]
  BY DEF ParserInv, Shape, MarksFit, Running
<1>4. mark' \in [Marks -> Int] /\ \A m \in Marks : mark'[m] = NULL
  BY <1>1, <1>3 DEF NULL
<1> QED
  BY <1>1, <1>2, <1>3, <1>4, Lands

(* The URL automaton stays in its states or dies.                           *)
LEMMA UrlNextState ==
  ASSUME NEW s \in UrlStates \cup {"req_spaces_before_url"}, NEW c, NEW connect
  PROVE  UrlNext(s, c, connect) \in UrlStates \cup {"dead"}
BY DEF UrlNext, UrlStates

(* Every state of the URL and each of these is plain.                       *)
LEMMA PlainStates ==
  /\ UrlStates \subseteq Plain /\ Plain \subseteq States
  /\ {"dead", "start_req", "req_method", "req_spaces_before_url", "req_http_start",
      "req_http_H", "req_first_http_major", "req_http_major", "req_first_http_minor",
      "req_http_minor", "req_line_almost_done", "header_field_start", "header_field",
      "header_value_start", "header_value_lws", "header_almost_done",
      "headers_almost_done", "headers_done", "message_done",
      "chunk_data_almost_done", "chunk_data_done"} \subseteq Plain
BY DEF Plain, States, HeaderStates, UrlStates

(* Most states have no mark.                                                *)
LEMMA UnmarkedStates ==
  ASSUME NEW s \in States, s \notin UrlStates \cup
           {"header_field", "header_value", "body_identity", "chunk_data", "chunk_data_almost_done"}
  PROVE  Unmarked(s)
BY DEF Unmarked, Marked, Marks

----------------------------------------------------------------------------
(* The actions of http_parser_execute, state by state.                      *)

(* A byte that only moves the parser from an unmarked state to a plain one. *)
LEMMA StepsPlain ==
  ASSUME ParserInv, pc = "byte", Unmarked(parser.state), NEW q, Step(q), Fixed,
         Fields(q), q.state \in Plain, q.errno = parser.errno
  PROVE  ParserInv'
<1>1. Sound(q) /\ q.state # "chunk_size_start"
  BY PlainSound DEF Plain
<1> QED
  BY <1>1, Steps DEF Unmarked

(* To a plain state, from one without a mark.                               *)
LEMMA StepsTo ==
  ASSUME ParserInv, pc = "byte", Unmarked(parser.state), NEW s \in Plain, Step(Goto(s)), Fixed
  PROVE  ParserInv'
BY StepsPlain, GotoFields, PlainStates

(* The parser as it is, in a plain state.                                   *)
LEMMA StepsStill ==
  ASSUME ParserInv, pc = "byte", parser.state # "chunk_size_start", Step(parser), Fixed
  PROVE  ParserInv'
BY Now, Steps

LEMMA DeadStep == ASSUME ParserInv, Dead PROVE ParserInv'
<1>1. pc = "byte" /\ parser.state = "dead" /\ Fixed
  BY DEF Dead, At
<1>2. Step(parser) \/ Error("CLOSED_CONNECTION")
  BY DEF Dead
<1> QED
  BY <1>1, <1>2, StepsStill, Fails

LEMMA StartReqStep == ASSUME ParserInv, StartReq PROVE ParserInv'
<1>1. pc = "byte" /\ parser.state = "start_req" /\ Fixed
  BY DEF StartReq, At
<1> DEFINE q == [parser EXCEPT !.flags = {}, !.length = NoLength, !.index = 1,
                               !.method = Initial[ch], !.state = "req_method"]
<1>2. Step(parser) \/ Consume(q) \/ Error("INVALID_METHOD")
  BY DEF StartReq
<1>3. CASE Consume(q)
  <2>1. Fields(q) /\ q.state = "req_method" /\ q.errno = parser.errno
    BY Now, NoLengthIs, PlainStates DEF Sound, Fields
  <2>2. Sound(q)
    BY <2>1, PlainSound, PlainStates
  <2>3. /\ parser' = q /\ p' = p + 1 /\ pc' = "loop" /\ mark' = mark
    BY <1>3 DEF Consume
  <2>4. /\ p + 1 \in Nat /\ p + 1 =< Len(data) /\ mark \in [Marks -> Int]
        /\ parser.errno = "OK" /\ \A m \in Marks : mark[m] # NULL => parser.state \in Marked[m]
    BY <1>1 DEF ParserInv, Shape, MarksFit, Running
  <2>5. Unmarked(parser.state)
    BY <1>1, UnmarkedStates, PlainStates DEF UrlStates
  <2> HIDE DEF q
  <2> QED
    BY <1>1, <2>1, <2>2, <2>3, <2>4, <2>5, Lands DEF Unmarked
<1> QED
  BY <1>1, <1>2, <1>3, StepsStill, Fails

LEMMA ReqMethodStep == ASSUME ParserInv, ReqMethod PROVE ParserInv'
<1>1. pc = "byte" /\ parser.state = "req_method" /\ Fixed
  BY DEF ReqMethod, At
<1>2. Unmarked(parser.state)
  BY <1>1, UnmarkedStates, PlainStates DEF UrlStates
<1>3. \/ Step(Goto("req_spaces_before_url"))
      \/ \E method : Step([parser EXCEPT !.index = 2, !.method = method])
      \/ \E e \in {"UNKNOWN", "INVALID_METHOD"} : Error(e)
  BY DEF ReqMethod
<1>4. ASSUME NEW method, Step([parser EXCEPT !.index = 2, !.method = method]) PROVE ParserInv'
  <2> DEFINE q == [parser EXCEPT !.index = 2, !.method = method]
  <2>1. Fields(q) /\ q.state = parser.state /\ q.errno = parser.errno
    BY Now DEF Sound, Fields
  <2>2. Step(q)
    BY <1>4
  <2> HIDE DEF q
  <2> QED
    BY <1>1, <1>2, <2>1, <2>2, StepsPlain, PlainStates
<1> QED
  BY <1>1, <1>2, <1>3, <1>4, StepsTo, PlainStates, Fails

(* UrlChars: the mark of the URL is set when its first byte is seen.        *)
LEMMA UrlCharsStep ==
  ASSUME ParserInv, pc = "byte", parser.state \in UrlStates \cup {"req_spaces_before_url"},
         NEW m \in [Marks -> Int], \A x \in Marks \ {"url"} : m[x] = mark[x], UrlChars(m), Fixed
  PROVE  ParserInv'
<1> DEFINE s == UrlNext(parser.state, ch, parser.method = "CONNECT")
<1>1. s \in UrlStates \cup {"dead"} /\ s \in Plain /\ s \in States
  <2>1. s \in UrlStates \cup {"dead"}
    BY UrlNextState, Zenon
  <2> HIDE DEF s
  <2> QED
    BY <2>1, PlainStates
<1>2. \A x \in Marks \ {"url"} : m[x] = NULL
  BY DEF ParserInv, MarksFit, Marked, Marks, UrlStates
<1>3. /\ p + 1 \in Nat /\ p \in Nat /\ p + 1 =< Len(data) /\ p =< Len(data) /\ parser.errno = "OK"
  BY DEF ParserInv, Shape, Running
<1>4. CASE s = "dead"
  <2>1. /\ parser' = [parser EXCEPT !.state = "dead", !.errno = "INVALID_URL"]
        /\ pc' = "returned" /\ p' = p /\ mark' = m
    BY <1>4 DEF UrlChars
  <2>2. Fields(parser') /\ parser'.state = "dead"
    BY <2>1, Now, PlainStates DEF Sound, Fields
  <2>3. Sound(parser')
    BY <2>2, PlainSound, PlainStates
  <2> QED
    BY <1>3, <2>1, <2>2, <2>3, Lands
<1>5. CASE s # "dead"
  <2>1. /\ parser' = Goto(s) /\ p' = p + 1 /\ pc' = "loop" /\ mark' = m
    BY <1>5 DEF UrlChars
  <2>2. /\ Sound(parser') /\ parser'.state = s /\ parser'.errno = "OK"
    BY <1>1, <1>3, <2>1, GotoFields, PlainSound
  <2>3. \A x \in Marks : m[x] # NULL => s \in Marked[x]
    BY <1>1, <1>2, <1>5 DEF Marked
  <2>4. s # "chunk_size_start"
    BY <1>1 DEF Plain
  <2> HIDE DEF s
  <2> QED
    BY <1>3, <2>1, <2>2, <2>3, <2>4, Lands
<1> QED
  BY <1>4, <1>5

(* A mark is set where it is not set yet.                                   *)
LEMMA MarkAtIs ==
  ASSUME ParserInv, NEW x \in Marks
  PROVE  MarkAt(x) \in [Marks -> Int] /\ \A m \in Marks \ {x} : MarkAt(x)[m] = mark[m]
BY DEF ParserInv, Shape, MarkAt

LEMMA SpacesBeforeUrlStep == ASSUME ParserInv, SpacesBeforeUrl PROVE ParserInv'
<1>1. pc = "byte" /\ parser.state = "req_spaces_before_url" /\ Fixed
  BY DEF SpacesBeforeUrl, At
<1>2. Step(parser) \/ UrlChars(MarkAt("url"))
  BY DEF SpacesBeforeUrl
<1>3. CASE UrlChars(MarkAt("url"))
  <2>1. "url" \in Marks
    BY DEF Marks
  <2>2. /\ MarkAt("url") \in [Marks -> Int]
        /\ \A m \in Marks \ {"url"} : MarkAt("url")[m] = mark[m]
    BY <2>1, MarkAtIs
  <2> QED
    BY <1>1, <1>3, <2>2, UrlCharsStep
<1> QED
  BY <1>1, <1>2, <1>3, StepsStill

LEMMA UrlStep == ASSUME ParserInv, Url PROVE ParserInv'
<1>1. pc = "byte" /\ parser.state \in UrlStates /\ Fixed
  BY DEF Url, At
<1>2. \/ Error("INVALID_URL") \/ UrlChars(mark)
      \/ \E q : /\ DataConsume("url", q)
                /\ \/ q = Goto("req_http_start")
                   \/ q = [Goto("req_line_almost_done") EXCEPT !.major = 0, !.minor = 9]
                   \/ q = [Goto("header_field_start") EXCEPT !.major = 0, !.minor = 9]
  <2> DEFINE q == CASE ch = " " -> Goto("req_http_start")
                    [] ch = "CR" -> [Goto("req_line_almost_done") EXCEPT !.major = 0, !.minor = 9]
                    [] ch = "LF" -> [Goto("header_field_start") EXCEPT !.major = 0, !.minor = 9]
  <2>1. Error("INVALID_URL") \/ UrlChars(mark) \/ (ch \in {" ", "CR", "LF"} /\ DataConsume("url", q))
    BY DEF Url
  <2>2. ch \in {" ", "CR", "LF"} =>
          \/ q = Goto("req_http_start")
          \/ q = [Goto("req_line_almost_done") EXCEPT !.major = 0, !.minor = 9]
          \/ q = [Goto("header_field_start") EXCEPT !.major = 0, !.minor = 9]
    OBVIOUS
  <2> HIDE DEF q
  <2> QED
    BY <2>1, <2>2
<1>3. ASSUME NEW q, DataConsume("url", q),
             \/ q = Goto("req_http_start")
             \/ q = [Goto("req_line_almost_done") EXCEPT !.major = 0, !.minor = 9]
             \/ q = [Goto("header_field_start") EXCEPT !.major = 0, !.minor = 9]
      PROVE  ParserInv'
  <2>1. /\ Fields(q) /\ q.state \in {"req_http_start", "req_line_almost_done", "header_field_start"}
        /\ q.errno = parser.errno
    BY <1>3, Now, PlainStates DEF Goto, Sound, Fields
  <2>2. Sound(q) /\ q.state # "chunk_size_start"
    BY <2>1, PlainSound, PlainStates
  <2>3. "url" \in Marks /\ \A m \in Marks \ {"url"} : parser.state \notin Marked[m]
    BY <1>1 DEF Marks, Marked, UrlStates
  <2>4. p + 1 \in Nat /\ p + 1 =< Len(data)
    BY <1>1 DEF ParserInv, Shape
  <2>5. CallbackData("url", mark["url"], p, q, p + 1, "loop")
    BY <1>3 DEF DataConsume
  <2> QED
    BY <1>1, <2>1, <2>2, <2>3, <2>4, <2>5, Reports
<1>4. CASE UrlChars(mark)
  BY <1>1, <1>4, UrlCharsStep DEF ParserInv, Shape
<1> QED
  BY <1>1, <1>2, <1>3, <1>4, Fails

LEMMA HttpStartStep == ASSUME ParserInv, HttpStart PROVE ParserInv'
<1>1. pc = "byte" /\ parser.state = "req_http_start" /\ Fixed
  BY DEF HttpStart, At
<1>2. Step(Goto("req_http_H")) \/ Step(parser) \/ Error("INVALID_CONSTANT")
  BY DEF HttpStart
<1>3. Unmarked(parser.state)
  BY <1>1, UnmarkedStates, PlainStates DEF UrlStates
<1> QED
  BY <1>1, <1>2, <1>3, StepsTo, StepsStill, PlainStates, Fails

LEMMA HttpStep == ASSUME ParserInv, Http PROVE ParserInv'
<1>1. pc = "byte" /\ parser.state = "req_http_H" /\ Fixed
  BY DEF Http, At
<1>2. Step(Goto("req_first_http_major")) \/ Error("STRICT")
  BY DEF Http
<1>3. Unmarked(parser.state)
  BY <1>1, UnmarkedStates, PlainStates DEF UrlStates
<1> QED
  BY <1>1, <1>2, <1>3, StepsTo, PlainStates, Fails

LEMMA MajorStep == ASSUME ParserInv, Major PROVE ParserInv'
<1>1. pc = "byte" /\ parser.state \in {"req_first_http_major", "req_http_major"} /\ Fixed
  BY DEF Major, At
<1>2. Unmarked(parser.state)
  BY <1>1, UnmarkedStates, PlainStates DEF UrlStates
<1>3. \/ Step(Goto("req_first_http_minor")) \/ Error("INVALID_VERSION")
      \/ \E n : Step([Goto("req_http_major") EXCEPT !.major = n])
      \/ \E n : Step([parser EXCEPT !.major = n])
  BY ZenonT(40) DEF Major
<1>4. ASSUME NEW n, NEW q \in {[Goto("req_http_major") EXCEPT !.major = n],
                               [parser EXCEPT !.major = n]}, Step(q)
      PROVE  ParserInv'
  <2>1. Fields(q) /\ q.state \in {"req_http_major", parser.state} /\ q.errno = parser.errno
    BY Now, PlainStates DEF Goto, Sound, Fields
  <2> QED
    BY <1>1, <1>2, <1>4, <2>1, StepsPlain, PlainStates
<1> QED
  BY <1>1, <1>2, <1>3, <1>4, StepsTo, PlainStates, Fails

LEMMA MinorStep == ASSUME ParserInv, Minor PROVE ParserInv'
<1>1. pc = "byte" /\ parser.state \in {"req_first_http_minor", "req_http_minor"} /\ Fixed
  BY DEF Minor, At
<1>2. Unmarked(parser.state)
  BY <1>1, UnmarkedStates, PlainStates DEF UrlStates
<1>3. \/ \E s \in {"req_line_almost_done", "header_field_start"} : Step(Goto(s))
      \/ Error("INVALID_VERSION")
      \/ \E n : Step([Goto("req_http_minor") EXCEPT !.minor = n])
      \/ \E n : Step([parser EXCEPT !.minor = n])
  BY ZenonT(40) DEF Minor
<1>4. ASSUME NEW n, NEW q \in {[Goto("req_http_minor") EXCEPT !.minor = n],
                               [parser EXCEPT !.minor = n]}, Step(q)
      PROVE  ParserInv'
  <2>1. Fields(q) /\ q.state \in {"req_http_minor", parser.state} /\ q.errno = parser.errno
    BY Now, PlainStates DEF Goto, Sound, Fields
  <2> QED
    BY <1>1, <1>2, <1>4, <2>1, StepsPlain, PlainStates
<1> QED
  BY <1>1, <1>2, <1>3, <1>4, StepsTo, PlainStates, Fails

LEMMA LineAlmostDoneStep == ASSUME ParserInv, LineAlmostDone PROVE ParserInv'
<1>1. pc = "byte" /\ parser.state = "req_line_almost_done" /\ Fixed
  BY DEF LineAlmostDone, At
<1>2. Step(Goto("header_field_start")) \/ Error("LF_EXPECTED")
  BY DEF LineAlmostDone
<1>3. Unmarked(parser.state)
  BY <1>1, UnmarkedStates, PlainStates DEF UrlStates
<1> QED
  BY <1>1, <1>2, <1>3, StepsTo, PlainStates, Fails

(* The byte is seen again in a plain state.                                 *)
LEMMA Reexecutes ==
  ASSUME ParserInv, pc = "byte", Unmarked(parser.state), NEW s \in Plain,
         Reexecute(Goto(s)), Fixed
  PROVE  ParserInv'
<1>1. /\ parser' = Goto(s) /\ p' = p /\ pc' = "byte" /\ mark' = mark
  BY DEF Reexecute
<1>2. /\ Sound(parser') /\ parser'.state = s /\ parser'.errno = parser.errno
  BY <1>1, GotoFields, PlainSound, PlainStates
<1>3. /\ p \in Nat /\ p < Len(data) /\ p =< Len(data) /\ mark \in [Marks -> Int]
      /\ parser.errno = "OK" /\ \A m \in Marks : mark[m] # NULL => parser.state \in Marked[m]
  BY DEF ParserInv, Shape, MarksFit, Running
<1>4. s # "chunk_size_start"
  BY DEF Plain
<1> QED
  BY <1>1, <1>2, <1>3, <1>4, Lands DEF Unmarked

(* A byte that marks the beginning of a piece and moves on.                 *)
LEMMA Begins ==
  ASSUME ParserInv, pc = "byte", NEW x \in Marks, NEW q,
         parser' = q, mark' = MarkAt(x), pc' = "loop", Fixed,
         p' \in Nat, p' =< Len(data),
         Sound(q), q.errno = parser.errno, q.state # "chunk_size_start", q.state \in Marked[x],
         \A m \in Marks \ {x} : parser.state \notin Marked[m]
  PROVE  ParserInv'
<1>1. /\ mark' \in [Marks -> Int] /\ \A m \in Marks \ {x} : mark'[m] = mark[m]
  BY MarkAtIs
<1>2. parser.errno = "OK" /\ \A m \in Marks : mark[m] # NULL => parser.state \in Marked[m]
  BY DEF ParserInv, MarksFit, Running
<1> QED
  BY <1>1, <1>2, Lands

LEMMA HeaderFieldStartStep == ASSUME ParserInv, HeaderFieldStart PROVE ParserInv'
<1>1. pc = "byte" /\ parser.state = "header_field_start" /\ Fixed
  BY DEF HeaderFieldStart, At
<1>2. Unmarked(parser.state)
  BY <1>1, UnmarkedStates, PlainStates DEF UrlStates
<1>3. \/ Step(Goto("headers_almost_done")) \/ Reexecute(Goto("headers_almost_done"))
      \/ Error("INVALID_HEADER_TOKEN")
      \/ \E h : /\ parser' = [Goto("header_field") EXCEPT !.hstate = h]
                /\ mark' = MarkAt("header_field") /\ p' = p + 1 /\ pc' = "loop"
  BY DEF HeaderFieldStart
<1>4. ASSUME NEW h, parser' = [Goto("header_field") EXCEPT !.hstate = h],
             mark' = MarkAt("header_field"), p' = p + 1, pc' = "loop"
      PROVE  ParserInv'
  <2>1. /\ Fields(parser') /\ parser'.state = "header_field" /\ parser'.errno = parser.errno
    BY <1>4, Now, PlainStates DEF Goto, Sound, Fields
  <2>2. /\ Sound(parser') /\ parser'.state # "chunk_size_start"
    BY <2>1, PlainSound, PlainStates
  <2>3. /\ "header_field" \in Marks /\ parser'.state \in Marked["header_field"]
        /\ p' \in Nat /\ p' =< Len(data)
    BY <1>1, <1>4, <2>1 DEF Marks, Marked, ParserInv, Shape
  <2> QED
    BY <1>1, <1>2, <1>4, <2>1, <2>2, <2>3, Begins DEF Unmarked
<1> QED
  BY <1>1, <1>2, <1>3, <1>4, StepsTo, Reexecutes, PlainStates, Fails

(* A marked piece ends with this byte.                                      *)
LEMMA Ends ==
  ASSUME ParserInv, pc = "byte", Fixed, NEW what \in Marks, NEW s \in Plain,
         parser.state \in Marked[what], DataConsume(what, Goto(s))
  PROVE  ParserInv'
<1>1. CallbackData(what, mark[what], p, Goto(s), p + 1, "loop")
  BY DEF DataConsume
<1>2. Sound(Goto(s)) /\ Goto(s).state # "chunk_size_start" /\ Goto(s).errno = parser.errno
  BY GotoFields, PlainSound, PlainStates DEF Plain
<1>3. \A m \in Marks \ {what} : parser.state \notin Marked[m]
  BY DEF Marks, Marked, UrlStates
<1>4. p + 1 \in Nat /\ p + 1 =< Len(data)
  BY DEF ParserInv, Shape
<1> QED
  BY <1>1, <1>2, <1>3, <1>4, Reports

LEMMA HeaderFieldStep == ASSUME ParserInv, HeaderField PROVE ParserInv'
<1>1. pc = "byte" /\ parser.state = "header_field" /\ Fixed
  BY DEF HeaderField, At
<1>2. \/ \E h : Step([parser EXCEPT !.hstate = h])
      \/ \E s \in {"header_value_start", "header_almost_done", "header_field_start"} :
           DataConsume("header_field", Goto(s))
      \/ Error("INVALID_HEADER_TOKEN")
  BY DEF HeaderField
<1>3. ASSUME NEW h, Step([parser EXCEPT !.hstate = h]) PROVE ParserInv'
  <2> DEFINE q == [parser EXCEPT !.hstate = h]
  <2>1. Fields(q) /\ q.state = parser.state /\ q.errno = parser.errno
    BY Now DEF Sound, Fields
  <2>2. Step(q)
    BY <1>3
  <2> HIDE DEF q
  <2>3. Sound(q) /\ q.state # "chunk_size_start"
    BY <1>1, <2>1, PlainSound, PlainStates
  <2> QED
    BY <1>1, <2>1, <2>2, <2>3, Steps
<1>4. "header_field" \in Marks /\ parser.state \in Marked["header_field"]
  BY <1>1 DEF Marks, Marked
<1> QED
  BY <1>1, <1>2, <1>3, <1>4, Ends, PlainStates, Fails

(* content_length stays in its 64 bits.                                     *)
LEMMA DigitsAreNumbers ==
  /\ \A c \in Num : Digit[c] \in Nat
  /\ \A c \in DOMAIN Unhex : Unhex[c] \in Nat /\ Unhex[c] =< 10
BY DEF Num, Digit, Unhex

(* The length keeps its width.                                              *)
LEMMA WidthKept == \A n \in Nat : n % LengthMod \in 0..NoLength
<1>1. LengthMod \in Nat /\ LengthMod > 0
  BY SizesAssumption
<1>2. ASSUME NEW b \in Nat, b > 0, NEW n \in Nat PROVE n % b \in 0..b - 1
  BY <1>2
<1> QED
  BY <1>1, <1>2 DEF NoLength

(* Also when it grows by a digit.                                           *)
LEMMA GrownWidth ==
  ASSUME ParserInv, NEW digit \in Nat, NEW base \in {10, 16}
  PROVE  Grown(base, digit) \in 0..NoLength
<1>1. base * parser.length + digit \in Nat
  BY NoLengthIs DEF ParserInv, Shape
<1> QED
  BY <1>1, WidthKept DEF Grown

LEMMA HeaderValueStartStep == ASSUME ParserInv, HeaderValueStart PROVE ParserInv'
<1>1. pc = "byte" /\ parser.state = "header_value_start" /\ Fixed
  BY DEF HeaderValueStart, At
<1>2. Unmarked(parser.state)
  BY <1>1, UnmarkedStates, PlainStates DEF UrlStates
<1>3. "header_value" \in Marks /\ p + 1 \in Nat /\ p + 1 =< Len(data)
  BY <1>1 DEF Marks, ParserInv, Shape
<1>4. ASSUME NEW q, Fields(q), q.state \in {"header_almost_done", "header_field_start"},
             q.errno = parser.errno, CallbackData("header_value", p, p, q, p + 1, "loop")
      PROVE  ParserInv'
  <2>1. Sound(q) /\ q.state # "chunk_size_start"
    BY <1>4, PlainSound, PlainStates
  <2> QED
    BY <1>1, <1>2, <1>3, <1>4, <2>1, Reports DEF Unmarked
<1>5. CASE ch = " "
  <2>1. Step(parser)
    BY <1>5 DEF HeaderValueStart
  <2> QED
    BY <1>1, <2>1, StepsStill
<1>6. CASE ch = "CR"
  <2> DEFINE q == [Goto("header_almost_done") EXCEPT !.hstate = "general"]
  <2>1. CallbackData("header_value", p, p, q, p + 1, "loop")
    BY <1>6 DEF HeaderValueStart
  <2>2. Fields(q) /\ q.state = "header_almost_done" /\ q.errno = parser.errno
    BY Now, PlainStates DEF Goto, Sound, Fields
  <2> HIDE DEF q
  <2> QED
    BY <1>4, <2>1, <2>2
<1>7. CASE ch = "LF"
  <2>1. CallbackData("header_value", p, p, Goto("header_field_start"), p + 1, "loop")
    BY <1>7 DEF HeaderValueStart
  <2> QED
    BY <1>4, <2>1, GotoFields, PlainStates
<1>8. CASE ch \notin {" ", "CR", "LF"}
  <2> DEFINE h == parser.hstate
             q == Goto("header_value")
             first == Digit[ch] % LengthMod
             next == CASE h = "upgrade" ->
                            [q EXCEPT !.flags = @ \cup {"upgrade"}, !.hstate = "general"]
                       [] h = "content_length" -> [q EXCEPT !.length = first]
                       [] h \in DOMAIN Values -> [q EXCEPT !.hstate = FirstHalf(Values[h], ch)]
                       [] OTHER -> [q EXCEPT !.hstate = "general"]
  <2>1. \/ Error("INVALID_CONTENT_LENGTH")
        \/ /\ h = "content_length" => ch \in Num
           /\ parser' = next /\ mark' = MarkAt("header_value") /\ p' = p + 1 /\ pc' = "loop"
    BY <1>8 DEF HeaderValueStart
  <2>2. ASSUME h = "content_length" => ch \in Num, parser' = next
        PROVE  Sound(parser') /\ parser'.state = "header_value" /\ parser'.errno = parser.errno
    <3>1. /\ Fields(q) /\ q.state = "header_value" /\ q.hstate = h /\ q.errno = parser.errno
      BY GotoFields DEF States, HeaderStates
    <3>2. DOMAIN Values = {"transfer_encoding", "connection"}
      BY DEF Values
    <3> HIDE DEF q, h
    <3>3. CASE h = "upgrade"
      BY <2>2, <3>1, <3>2, <3>3 DEF Fields, Sound
    <3>4. CASE h = "content_length"
      <4>1. first \in 0..NoLength
        BY <2>2, <3>4, DigitsAreNumbers, WidthKept
      <4>2. parser' = [q EXCEPT !.length = first]
        <5> HIDE DEF first
        <5> QED
          BY <2>2, <3>2, <3>4
      <4> HIDE DEF first
      <4> QED
        BY <3>1, <3>2, <3>4, <4>1, <4>2 DEF Fields, Sound
    <3>5. CASE h \in DOMAIN Values
      <4>1. FirstHalf(Values[h], ch) \notin DOMAIN Values
        BY <3>2, <3>5 DEF FirstHalf, Values
      <4>2. parser' = [q EXCEPT !.hstate = FirstHalf(Values[h], ch)]
        BY <2>2, <3>2, <3>5
      <4> HIDE DEF ch
      <4> QED
        BY <3>1, <3>2, <4>1, <4>2 DEF Fields, Sound
    <3>6. CASE h \notin {"upgrade", "content_length"} \cup DOMAIN Values
      <4>1. parser' = [q EXCEPT !.hstate = "general"]
        BY <2>2, <3>6
      <4> QED
        BY <3>1, <3>2, <4>1 DEF Fields, Sound
    <3> QED
      BY <3>3, <3>4, <3>5, <3>6
  <2>3. "header_value" \in Marked["header_value"]
    BY DEF Marked
  <2> HIDE DEF next, h
  <2> QED
    BY <1>1, <1>2, <1>3, <2>1, <2>2, <2>3, Begins, Fails DEF Unmarked
<1> QED
  BY <1>5, <1>6, <1>7, <1>8

(* A word that is recognised never is the name of a header.                 *)
LEMMA WordKnown ==
  ASSUME NEW h, NEW c
  PROVE  SecondHalf(AllValues, h, c) \in {"chunked", "keep_alive", "close", "general"}
<1>1. \A w \in AllValues : w[3] \in {"chunked", "keep_alive", "close"}
  BY DEF AllValues, Values
<1> DEFINE Fits(w) == w[1] = h /\ w[2] = c
<1>2. CASE \E w \in AllValues : Fits(w)
  <2>1. (CHOOSE w \in AllValues : Fits(w)) \in AllValues
    BY <1>2
  <2>2. SecondHalf(AllValues, h, c) = (CHOOSE w \in AllValues : Fits(w))[3]
    BY <1>2 DEF SecondHalf
  <2> QED
    BY <1>1, <2>1, <2>2
<1>3. CASE ~\E w \in AllValues : Fits(w)
  BY <1>3 DEF SecondHalf
<1> QED
  BY <1>2, <1>3

LEMMA HeaderValueStep == ASSUME ParserInv, HeaderValue PROVE ParserInv'
<1>1. pc = "byte" /\ parser.state = "header_value" /\ Fixed
  BY DEF HeaderValue, At
<1>2. "header_value" \in Marks /\ parser.state \in Marked["header_value"]
  BY <1>1 DEF Marks, Marked
<1>3. \/ DataConsume("header_value", Goto("header_almost_done"))
      \/ CallbackData("header_value", mark["header_value"], p, Goto("header_almost_done"), p, "byte")
      \/ Step(parser) \/ Error("INVALID_CONTENT_LENGTH")
      \/ ch \in Num /\ Step([parser EXCEPT !.length = Grown(10, Digit[ch])])
      \/ Step([parser EXCEPT !.hstate = SecondHalf(AllValues, parser.hstate, ch)])
  BY DEF HeaderValue
<1>4. CASE CallbackData("header_value", mark["header_value"], p, Goto("header_almost_done"), p, "byte")
  <2>1. Sound(Goto("header_almost_done")) /\ Goto("header_almost_done").state # "chunk_size_start"
        /\ Goto("header_almost_done").errno = parser.errno
    BY GotoFields, PlainSound, PlainStates
  <2>2. \A m \in Marks \ {"header_value"} : parser.state \notin Marked[m]
    BY <1>1 DEF Marks, Marked, UrlStates
  <2>3. p \in Nat /\ p =< Len(data) /\ p < Len(data)
    BY <1>1 DEF ParserInv, Shape
  <2> QED
    BY <1>1, <1>2, <1>4, <2>1, <2>2, <2>3, Reports
<1>5. CASE ch \in Num /\ Step([parser EXCEPT !.length = Grown(10, Digit[ch])])
  <2> DEFINE q == [parser EXCEPT !.length = Grown(10, Digit[ch])]
  <2>1. Grown(10, Digit[ch]) \in 0..NoLength
    BY <1>5, DigitsAreNumbers, GrownWidth
  <2>2. Sound(q) /\ q.state = parser.state /\ q.errno = parser.errno
    BY <1>1, <2>1, Now DEF Sound, Fields
  <2>3. Step(q)
    BY <1>5
  <2> HIDE DEF q
  <2> QED
    BY <1>1, <2>2, <2>3, Steps
<1>6. CASE Step([parser EXCEPT !.hstate = SecondHalf(AllValues, parser.hstate, ch)])
  <2> DEFINE q == [parser EXCEPT !.hstate = SecondHalf(AllValues, parser.hstate, ch)]
  <2>1. SecondHalf(AllValues, parser.hstate, ch) \notin DOMAIN Values
    BY WordKnown DEF Values
  <2>2. Sound(q) /\ q.state = parser.state /\ q.errno = parser.errno
    BY <1>1, <2>1, Now DEF Sound, Fields
  <2>3. Step(q)
    BY <1>6
  <2> HIDE DEF q
  <2> QED
    BY <1>1, <2>2, <2>3, Steps
<1> QED
  BY <1>1, <1>2, <1>3, <1>4, <1>5, <1>6, Ends, StepsStill, Fails, PlainStates

LEMMA HeaderAlmostDoneStep == ASSUME ParserInv, HeaderAlmostDone PROVE ParserInv'
<1>1. pc = "byte" /\ parser.state = "header_almost_done" /\ Fixed
  BY DEF HeaderAlmostDone, At
<1>2. Unmarked(parser.state)
  BY <1>1, UnmarkedStates, PlainStates DEF UrlStates
<1>3. Error("STRICT") \/ \E f : Step([Goto("header_value_lws") EXCEPT !.flags = f])
  BY DEF HeaderAlmostDone
<1>4. ASSUME NEW f, Step([Goto("header_value_lws") EXCEPT !.flags = f]) PROVE ParserInv'
  <2> DEFINE q == [Goto("header_value_lws") EXCEPT !.flags = f]
  <2>1. Fields(q) /\ q.state = "header_value_lws" /\ q.errno = parser.errno
    BY Now, PlainStates DEF Goto, Sound, Fields
  <2>2. Step(q)
    BY <1>4
  <2> HIDE DEF q
  <2> QED
    BY <1>1, <1>2, <2>1, <2>2, StepsPlain, PlainStates
<1> QED
  BY <1>1, <1>3, <1>4, Fails

LEMMA HeaderValueLwsStep == ASSUME ParserInv, HeaderValueLws PROVE ParserInv'
<1>1. pc = "byte" /\ parser.state = "header_value_lws" /\ Fixed
  BY DEF HeaderValueLws, At
<1>2. Unmarked(parser.state)
  BY <1>1, UnmarkedStates, PlainStates DEF UrlStates
<1>3. Step(Goto("header_value_start")) \/ Reexecute(Goto("header_field_start"))
  BY DEF HeaderValueLws
<1> QED
  BY <1>1, <1>2, <1>3, StepsTo, Reexecutes, PlainStates

LEMMA HeadersAlmostDoneStep == ASSUME ParserInv, HeadersAlmostDone PROVE ParserInv'
<1>1. pc = "byte" /\ parser.state = "headers_almost_done" /\ Fixed
  BY DEF HeadersAlmostDone, At
<1>2. Unmarked(parser.state)
  BY <1>1, UnmarkedStates, PlainStates DEF UrlStates
<1> DEFINE Next1(u) == [Goto("headers_done") EXCEPT !.upgrade = u]
<1>3. \/ Error("STRICT") \/ MessageComplete(parser)
      \/ /\ p' = p /\ mark' = mark
         /\ \E u : \/ pc' = "byte" /\ \E f : parser' = [Next1(u) EXCEPT !.flags = f]
                   \/ pc' = "byte" /\ parser' = Next1(u)
                   \/ pc' = "returned" /\ parser' = [Next1(u) EXCEPT !.errno = "PAUSED"]
  <2> DEFINE u1 == "upgrade" \in parser.flags \/ parser.method = "CONNECT"
             q == [Goto("headers_done") EXCEPT !.upgrade = u1]
  <2>1. \/ Error("STRICT") \/ MessageComplete(parser)
        \/ /\ p' = p /\ mark' = mark
           /\ \/ pc' = "byte" /\ parser' = [q EXCEPT !.flags = @ \cup {"skipbody"}]
              \/ pc' = "byte" /\ parser' = q
              \/ pc' = "returned" /\ parser' = [q EXCEPT !.errno = "PAUSED"]
    BY DEF HeadersAlmostDone
  <2> DEFINE f1 == q.flags \cup {"skipbody"}
  <2>2. q = Next1(u1) /\ [q EXCEPT !.flags = @ \cup {"skipbody"}] = [Next1(u1) EXCEPT !.flags = f1]
    OBVIOUS
  <2> HIDE DEF q, Next1, u1, f1
  <2> QED
    BY <2>1, <2>2
<1>4. ASSUME NEW u PROVE /\ Fields(Next1(u)) /\ Next1(u).state = "headers_done"
                         /\ Next1(u).errno = parser.errno
  BY Now, PlainStates DEF Goto, Sound, Fields
<1>5. /\ p \in Nat /\ p < Len(data) /\ p =< Len(data) /\ mark \in [Marks -> Int]
      /\ parser.errno = "OK" /\ \A m \in Marks : mark[m] = NULL
  BY <1>1, <1>2 DEF ParserInv, Shape, MarksFit, Running, Unmarked
<1>6. ASSUME NEW u, p' = p, mark' = mark,
             \/ pc' = "byte" /\ \E f : parser' = [Next1(u) EXCEPT !.flags = f]
             \/ pc' = "byte" /\ parser' = Next1(u)
             \/ pc' = "returned" /\ parser' = [Next1(u) EXCEPT !.errno = "PAUSED"]
      PROVE  ParserInv'
  <2> HIDE DEF Next1
  <2>1. /\ Fields(parser') /\ parser'.state = "headers_done"
        /\ pc' = "byte" => parser'.errno = parser.errno
    BY <1>4, <1>6 DEF Fields
  <2>2. Sound(parser')
    BY <2>1, PlainSound, PlainStates
  <2> QED
    BY <1>1, <1>5, <1>6, <2>1, <2>2, Lands
<1>7. Fields(parser)
  BY Now DEF Sound
<1> QED
  BY <1>1, <1>3, <1>6, <1>7, Completes, Fails

LEMMA HeadersDoneStep == ASSUME ParserInv, HeadersDone PROVE ParserInv'
<1>1. pc = "byte" /\ parser.state = "headers_done" /\ Fixed
  BY DEF HeadersDone, At
<1>2. Unmarked(parser.state)
  BY <1>1, UnmarkedStates, PlainStates DEF UrlStates
<1> DEFINE q == [parser EXCEPT !.nread = 0]
<1>3. \/ Error("STRICT") \/ MessageComplete(q)
      \/ Step([q EXCEPT !.state = "chunk_size_start"])
      \/ q.length \notin {0, NoLength} /\ Step([q EXCEPT !.state = "body_identity"])
  BY DEF HeadersDone
<1>4. Fields(q) /\ q.errno = parser.errno /\ q.nread = 0
  BY Now DEF Sound, Fields
<1> HIDE DEF q
<1>5. ASSUME NEW s \in {"chunk_size_start", "body_identity"},
             s = "body_identity" => q.length \notin {0, NoLength}, Step([q EXCEPT !.state = s])
      PROVE  ParserInv'
  <2>1. PICK r : r = [q EXCEPT !.state = s]
    OBVIOUS
  <2>2. Sound(r) /\ r.errno = parser.errno /\ r.nread = 0
    BY <1>4, <1>5, <2>1 DEF Sound, Fields, States, HeaderStates
  <2> QED
    BY <1>1, <1>2, <1>5, <2>1, <2>2, Steps DEF Unmarked
<1> QED
  BY <1>1, <1>3, <1>4, <1>5, Completes, Fails

(* to_read: at least one symbol when there is one and a length.             *)
LEMMA ToReadIs ==
  ASSUME ParserInv, pc = "byte"
  PROVE  /\ ToRead \in Nat /\ ToRead =< parser.length /\ ToRead =< Len(data) - p
         /\ parser.length # 0 => ToRead # 0
<1>1. /\ parser.length \in Nat /\ Len(data) - p \in Nat /\ Len(data) - p # 0
  BY NoLengthIs DEF ParserInv, Shape
<1>2. ASSUME NEW a \in Nat, NEW b \in Nat
      PROVE  Min({a, b}) \in {a, b} /\ Min({a, b}) =< a /\ Min({a, b}) =< b
  <2>1. \E x \in {a, b} : \A y \in {a, b} : x =< y
    OBVIOUS
  <2> QED
    BY <2>1 DEF Min
<1>3. PICK a \in Nat, b \in Nat : a = parser.length /\ b = Len(data) - p
  BY <1>1
<1>4. ToRead = Min({a, b})
  BY <1>3 DEF ToRead
<1> QED
  BY <1>1, <1>2, <1>3, <1>4

(* A body, its end, and the chunks.                                         *)
LEMMA BodyIdentityStep == ASSUME ParserInv, BodyIdentity PROVE ParserInv'
<1>1. pc = "byte" /\ parser.state = "body_identity" /\ Fixed
  BY DEF BodyIdentity, At
<1>2. PICK n : n = ToRead
  OBVIOUS
<1>3. PICK q : q = [parser EXCEPT !.length = parser.length - n]
  OBVIOUS
<1>4. /\ n \in Nat /\ n # 0 /\ n =< parser.length /\ p + n =< Len(data) /\ p \in Nat
      /\ parser.length \in 0..NoLength /\ parser.length # NoLength
  BY <1>1, <1>2, ToReadIs, NoLengthIs DEF ParserInv, Shape, LengthKnown
<1>5. /\ q.length = parser.length - n /\ Fields(q) /\ q.state = "body_identity"
      /\ q.errno = parser.errno
  BY <1>1, <1>3, <1>4, Now, NoLengthIs DEF Sound, Fields
<1>6. \/ /\ q.length = 0
         /\ CallbackData("body", p, p + n, [q EXCEPT !.state = "message_done"], (p + n) - 1, "byte")
      \/ /\ q.length # 0
         /\ parser' = q /\ mark' = MarkAt("body") /\ p' = p + n /\ pc' = "loop"
  BY <1>2, <1>3 DEF BodyIdentity
<1>7. /\ "body" \in Marks /\ "body_identity" \in Marked["body"]
      /\ \A m \in Marks \ {"body"} : parser.state \notin Marked[m]
  BY <1>1 DEF Marks, Marked, UrlStates
<1>8. CASE q.length = 0
  <2>1. PICK r : r = [q EXCEPT !.state = "message_done"]
    OBVIOUS
  <2>2. Fields(r) /\ r.state = "message_done" /\ r.errno = parser.errno
    BY <1>5, <2>1, PlainStates DEF Fields
  <2>3. Sound(r)
    BY <2>2, PlainSound, PlainStates
  <2>4. (p + n) - 1 \in Nat /\ (p + n) - 1 < Len(data) /\ (p + n) - 1 =< Len(data)
    BY <1>1, <1>4 DEF ParserInv, Shape
  <2>5. CallbackData("body", p, p + n, r, (p + n) - 1, "byte")
    BY <1>6, <1>8, <2>1
  <2> QED
    BY <1>1, <1>7, <2>2, <2>3, <2>4, <2>5, Reports
<1>9. CASE q.length # 0
  <2>1. Sound(q)
    BY <1>4, <1>5, <1>9, NoLengthIs DEF Sound
  <2>2. p + n \in Nat /\ p' = p + n /\ parser' = q /\ mark' = MarkAt("body") /\ pc' = "loop"
    BY <1>4, <1>6, <1>9
  <2> QED
    BY <1>1, <1>4, <1>5, <1>7, <2>1, <2>2, Begins
<1> QED
  BY <1>8, <1>9

LEMMA MessageDoneStep == ASSUME ParserInv, MessageDone PROVE ParserInv'
<1>1. pc = "byte" /\ Fixed /\ MessageComplete(parser) /\ Fields(parser)
  BY Now DEF MessageDone, At, Sound
<1> QED
  BY <1>1, Completes

(* A chunk size may grow in these states, and is not the value for none.    *)
LEMMA ChunkSizeStartStep == ASSUME ParserInv, ChunkSizeStart PROVE ParserInv'
<1>1. pc = "byte" /\ parser.state = "chunk_size_start" /\ Fixed
  BY DEF ChunkSizeStart, At
<1>2. \/ Error("INVALID_CHUNK_SIZE")
      \/ ch \in DOMAIN Unhex /\ Step([Goto("chunk_size") EXCEPT !.length = Unhex[ch]])
  BY DEF ChunkSizeStart
<1>3. ASSUME ch \in DOMAIN Unhex, Step([Goto("chunk_size") EXCEPT !.length = Unhex[ch]])
      PROVE  ParserInv'
  <2>1. PICK n : n = Unhex[ch] /\ n \in Nat /\ n =< 10
    BY <1>3, DigitsAreNumbers
  <2>2. PICK q : q = [Goto("chunk_size") EXCEPT !.length = n]
    OBVIOUS
  <2>3. Sound(q) /\ q.state = "chunk_size" /\ q.errno = parser.errno
    BY <2>1, <2>2, Now, NoLengthIs DEF Goto, Sound, Fields, States, HeaderStates
  <2>4. Step(q)
    BY <1>3, <2>1, <2>2
  <2>5. Unmarked(parser.state)
    BY <1>1, UnmarkedStates DEF States, HeaderStates, UrlStates
  <2> QED
    BY <1>1, <2>3, <2>4, <2>5, Steps DEF Unmarked
<1> QED
  BY <1>1, <1>2, <1>3, Fails

(* The states of a chunk size have no mark.                                 *)
LEMMA ChunkUnmarked ==
  ASSUME parser.state \in {"chunk_size", "chunk_parameters", "chunk_size_almost_done",
                           "chunk_data_done"}
  PROVE  Unmarked(parser.state)
BY UnmarkedStates DEF States, HeaderStates, UrlStates

(* A step between the states of a chunk size that keeps the length.         *)
LEMMA StepsInSize ==
  ASSUME ParserInv, pc = "byte", Fixed,
         parser.state \in {"chunk_size", "chunk_parameters", "chunk_size_almost_done"},
         NEW s \in {"chunk_parameters", "chunk_size_almost_done"}, Step(Goto(s))
  PROVE  ParserInv'
<1>1. s \in States /\ s \notin {"body_identity", "chunk_data", "header_value", "chunk_size_start"}
  BY DEF States, HeaderStates
<1>2. /\ Fields(Goto(s)) /\ Goto(s).state = s /\ Goto(s).errno = parser.errno
      /\ Goto(s).length = parser.length
  BY <1>1, GotoFields
<1>3. parser.length # NoLength
  BY DEF ParserInv, LengthKnown
<1>4. Sound(Goto(s))
  BY <1>1, <1>2, <1>3 DEF Sound
<1> QED
  BY <1>1, <1>2, <1>4, ChunkUnmarked, Steps DEF Unmarked

LEMMA ChunkSizeStep == ASSUME ParserInv, ChunkSize PROVE ParserInv'
<1>1. pc = "byte" /\ parser.state = "chunk_size" /\ Fixed
  BY DEF ChunkSize, At
<1>2. \/ \E s \in {"chunk_parameters", "chunk_size_almost_done"} : Step(Goto(s))
      \/ \E e \in {"INVALID_CONTENT_LENGTH", "INVALID_CHUNK_SIZE"} : Error(e)
      \/ /\ ch \in DOMAIN Unhex /\ ~Overflowed(Grown(16, Unhex[ch]))
         /\ Step([parser EXCEPT !.length = Grown(16, Unhex[ch])])
  <2>1. CASE ch = "CR"
    BY <2>1 DEF ChunkSize
  <2>2. CASE ch \in {";", " "}
    BY <2>2 DEF ChunkSize
  <2>3. CASE ch \notin {"CR", ";", " "}
    BY <2>3 DEF ChunkSize
  <2> QED
    BY <2>1, <2>2, <2>3
<1>3. ASSUME ch \in DOMAIN Unhex, ~Overflowed(Grown(16, Unhex[ch])),
             Step([parser EXCEPT !.length = Grown(16, Unhex[ch])])
      PROVE  ParserInv'
  <2>1. PICK t : t = Grown(16, Unhex[ch]) /\ t \in 0..NoLength /\ t # NoLength
    BY <1>3, DigitsAreNumbers, GrownWidth DEF Overflowed
  <2>2. PICK q : q = [parser EXCEPT !.length = t]
    OBVIOUS
  <2>3. Sound(q) /\ q.state = "chunk_size" /\ q.errno = parser.errno
    BY <1>1, <2>1, <2>2, Now DEF Sound, Fields
  <2>4. Step(q)
    BY <1>3, <2>1, <2>2
  <2> QED
    BY <1>1, <2>3, <2>4, Steps
<1> QED
  BY <1>1, <1>2, <1>3, StepsInSize, Fails

LEMMA ChunkParametersStep == ASSUME ParserInv, ChunkParameters PROVE ParserInv'
<1>1. pc = "byte" /\ parser.state = "chunk_parameters" /\ Fixed
  BY DEF ChunkParameters, At
<1>2. Step(Goto("chunk_size_almost_done")) \/ Step(parser)
  BY DEF ChunkParameters
<1> QED
  BY <1>1, <1>2, StepsInSize, StepsStill

LEMMA ChunkSizeAlmostDoneStep == ASSUME ParserInv, ChunkSizeAlmostDone PROVE ParserInv'
<1>1. pc = "byte" /\ parser.state = "chunk_size_almost_done" /\ Fixed
  BY DEF ChunkSizeAlmostDone, At
<1>2. \/ Error("STRICT")
      \/ \E f : Step([Goto("header_field_start") EXCEPT !.nread = 0, !.flags = f])
      \/ parser.length # 0 /\ Step([Goto("chunk_data") EXCEPT !.nread = 0])
  <2>1. PICK f : f = Goto("header_field_start").flags \cup {"trailing"}
    OBVIOUS
  <2> QED
    BY <2>1 DEF ChunkSizeAlmostDone
<1>3. Unmarked(parser.state)
  BY <1>1, ChunkUnmarked
<1>4. ASSUME NEW f, Step([Goto("header_field_start") EXCEPT !.nread = 0, !.flags = f])
      PROVE  ParserInv'
  <2>1. PICK q : q = [Goto("header_field_start") EXCEPT !.nread = 0, !.flags = f]
    OBVIOUS
  <2>2. Fields(q) /\ q.state = "header_field_start" /\ q.errno = parser.errno
    BY <2>1, Now, PlainStates DEF Goto, Sound, Fields
  <2> QED
    BY <1>1, <1>3, <1>4, <2>1, <2>2, StepsPlain, PlainStates
<1>5. ASSUME parser.length # 0, Step([Goto("chunk_data") EXCEPT !.nread = 0])
      PROVE  ParserInv'
  <2>1. PICK q : q = [Goto("chunk_data") EXCEPT !.nread = 0]
    OBVIOUS
  <2>2. /\ Fields(q) /\ q.state = "chunk_data" /\ q.errno = parser.errno
        /\ q.length = parser.length
    BY <2>1, Now DEF Goto, Sound, Fields, States
  <2>3. parser.length # NoLength
    BY <1>1 DEF ParserInv, LengthKnown
  <2>4. Sound(q) /\ q.state # "chunk_size_start"
    BY <1>5, <2>2, <2>3 DEF Sound
  <2> QED
    BY <1>1, <1>3, <1>5, <2>1, <2>2, <2>4, Steps DEF Unmarked
<1> QED
  BY <1>1, <1>2, <1>4, <1>5, Fails

LEMMA ChunkDataStep == ASSUME ParserInv, ChunkData PROVE ParserInv'
<1>1. pc = "byte" /\ parser.state = "chunk_data" /\ Fixed
  BY DEF ChunkData, At
<1>2. PICK n : n = ToRead
  OBVIOUS
<1>3. /\ n \in Nat /\ n =< parser.length /\ p + n =< Len(data) /\ p \in Nat
      /\ parser.length \in 0..NoLength /\ parser.length # NoLength
  BY <1>1, <1>2, ToReadIs, NoLengthIs DEF ParserInv, Shape, LengthKnown
<1>4. PICK s : s = IF parser.length = n THEN "chunk_data_almost_done" ELSE parser.state
  OBVIOUS
<1>5. PICK q : q = [parser EXCEPT !.length = parser.length - n, !.state = s]
  OBVIOUS
<1>6. parser' = q /\ mark' = MarkAt("body") /\ p' = p + n /\ pc' = "loop"
  BY <1>2, <1>4, <1>5 DEF ChunkData
<1>7. /\ Fields(q) /\ q.state = s /\ q.errno = parser.errno /\ q.length = parser.length - n
      /\ s \in {"chunk_data", "chunk_data_almost_done"}
      /\ s = "chunk_data" => parser.length # n
  BY <1>1, <1>3, <1>4, <1>5, Now, NoLengthIs DEF Sound, Fields, States
<1>8. Sound(q)
  BY <1>3, <1>7, NoLengthIs DEF Sound
<1>9. /\ "body" \in Marks /\ {"chunk_data", "chunk_data_almost_done"} \subseteq Marked["body"]
      /\ \A m \in Marks \ {"body"} : parser.state \notin Marked[m]
  BY <1>1 DEF Marks, Marked, UrlStates
<1> QED
  BY <1>1, <1>3, <1>6, <1>7, <1>8, <1>9, Begins

LEMMA ChunkDataAlmostDoneStep == ASSUME ParserInv, ChunkDataAlmostDone PROVE ParserInv'
<1>1. pc = "byte" /\ parser.state = "chunk_data_almost_done" /\ Fixed
  BY DEF ChunkDataAlmostDone, At
<1>2. \/ Error("STRICT")
      \/ mark["body"] = NULL /\ Step(Goto("chunk_data_done"))
      \/ DataConsume("body", Goto("chunk_data_done"))
  BY DEF ChunkDataAlmostDone
<1>3. "body" \in Marks /\ parser.state \in Marked["body"]
  BY <1>1 DEF Marks, Marked
<1>4. CASE mark["body"] = NULL /\ Step(Goto("chunk_data_done"))
  <2>1. /\ parser' = Goto("chunk_data_done") /\ p' = p + 1 /\ pc' = "loop" /\ mark' = mark
    BY <1>4 DEF Step, Consume
  <2>2. /\ Sound(parser') /\ parser'.state # "chunk_size_start" /\ parser'.errno = parser.errno
    BY <2>1, GotoFields, PlainSound, PlainStates
  <2>3. /\ p + 1 \in Nat /\ p + 1 =< Len(data) /\ mark \in [Marks -> Int] /\ parser.errno = "OK"
        /\ \A m \in Marks : mark[m] # NULL => parser.state \in Marked[m]
    BY <1>1 DEF ParserInv, Shape, MarksFit, Running
  <2>4. \A m \in Marks : mark[m] = NULL
    BY <1>1, <1>4, <2>3 DEF Marks, Marked, UrlStates
  <2> QED
    BY <1>1, <2>1, <2>2, <2>3, <2>4, Lands
<1> QED
  BY <1>1, <1>2, <1>3, <1>4, Ends, PlainStates, Fails

LEMMA ChunkDataDoneStep == ASSUME ParserInv, ChunkDataDone PROVE ParserInv'
<1>1. pc = "byte" /\ parser.state = "chunk_data_done" /\ Fixed
  BY DEF ChunkDataDone, At
<1>2. Error("STRICT") \/ Step([Goto("chunk_size_start") EXCEPT !.nread = 0])
  BY DEF ChunkDataDone
<1>3. CASE Step([Goto("chunk_size_start") EXCEPT !.nread = 0])
  <2>1. PICK q : q = [Goto("chunk_size_start") EXCEPT !.nread = 0]
    OBVIOUS
  <2>2. /\ Fields(q) /\ q.state = "chunk_size_start" /\ q.errno = parser.errno /\ q.nread = 0
    BY <2>1, Now DEF Goto, Sound, Fields, States, HeaderStates
  <2>3. Sound(q)
    BY <2>2 DEF Sound
  <2>4. Unmarked(parser.state)
    BY <1>1, ChunkUnmarked
  <2> QED
    BY <1>1, <1>3, <2>1, <2>2, <2>3, <2>4, Steps DEF Unmarked
<1> QED
  BY <1>1, <1>2, <1>3, Fails

LEMMA ByteStep == ASSUME ParserInv, Byte PROVE ParserInv'
BY DeadStep, StartReqStep, ReqMethodStep, SpacesBeforeUrlStep, UrlStep, HttpStartStep, HttpStep,
   MajorStep, MinorStep, LineAlmostDoneStep, HeaderFieldStartStep, HeaderFieldStep,
   HeaderValueStartStep, HeaderValueStep, HeaderAlmostDoneStep, HeaderValueLwsStep,
   HeadersAlmostDoneStep, HeadersDoneStep, BodyIdentityStep, MessageDoneStep, ChunkSizeStartStep,
   ChunkSizeStep, ChunkParametersStep, ChunkSizeAlmostDoneStep, ChunkDataStep,
   ChunkDataAlmostDoneStep, ChunkDataDoneStep DEF Byte

----------------------------------------------------------------------------
(* The loop around the bytes.                                               *)

(* All states together.                                                     *)
LEMMA ExecuteStep ==
  ASSUME ParserInv, pc \in {"idle", "recv"}, NEW bytes \in Seq(STRING), Execute(bytes), sent' \in Nat
  PROVE  ParserInv'
<1>1. /\ parser' = [parser EXCEPT !.errno = "OK"] /\ data' = bytes /\ p' = 0 /\ pc' = "loop"
      /\ mark' = [m \in Marks |-> IF m = parser.state \/ (m = "url" /\ parser.state \in UrlStates)
                                  THEN 0 ELSE NULL]
  BY DEF Execute
<1>2. /\ Sound(parser') /\ parser'.state = parser.state /\ parser'.nread = parser.nread
      /\ parser'.errno = "OK"
  BY <1>1, Now DEF Sound, Fields
<1>3. Len(bytes) \in Nat
  OBVIOUS
<1>4. mark' \in [Marks -> Int]
  BY <1>1 DEF NULL
<1>5. Shape'
  BY <1>1, <1>2, <1>3, <1>4 DEF Shape, Sound, Fields
<1>6. ASSUME NEW m \in Marks, mark'[m] # NULL PROVE parser.state \in Marked[m]
  <2>1. m = parser.state \/ (m = "url" /\ parser.state \in UrlStates)
    BY <1>1, <1>6
  <2>2. parser.state \in States
    BY Now DEF Sound, Fields
  <2> QED
    BY <2>1, <2>2 DEF Marks, Marked, States, HeaderStates, UrlStates
<1>7. parser.state = "chunk_size_start" => parser.nread = 0
  BY DEF ParserInv, Counted
<1>8. MarksFit' /\ LengthKnown' /\ HeaderKnown' /\ Running' /\ Counted'
  BY <1>1, <1>2, <1>6, <1>7 DEF MarksFit, LengthKnown, HeaderKnown, Running, Counted, Sound
<1> QED
  BY <1>5, <1>8 DEF ParserInv

(* What the socket does around the parser.                                  *)
LEMMA AsynReceiveRequestStep == ASSUME ParserInv, AsynReceiveRequest PROVE ParserInv'
<1>1. pc = "idle" /\ sent' = sent /\ sent \in Nat /\ data \in Seq(STRING)
  BY DEF AsynReceiveRequest, ParserInv, Shape
<1>2. CASE Execute(data)
  BY <1>1, <1>2, ExecuteStep
<1>3. CASE pc' = "recv" /\ UNCHANGED <<data, p, mark, parser>>
  BY <1>1, <1>3 DEF ParserInv, Shape, MarksFit, LengthKnown, HeaderKnown, Running, Counted
<1> QED
  BY <1>2, <1>3 DEF AsynReceiveRequest

LEMMA ReceiveStep == ASSUME ParserInv, wire \in DOMAIN Wires, Receive PROVE ParserInv'
<1>1. PICK n \in Cuts : /\ sent + n =< Len(Wires[wire].bytes)
                        /\ Execute(SubSeq(Wires[wire].bytes, sent + 1, sent + n))
                        /\ sent' = sent + n
  BY DEF Receive
<1>2. n \in Nat /\ sent \in Nat /\ Wires[wire].bytes \in Seq(STRING)
  BY SizesAssumption, WiresAssumption DEF ParserInv, Shape
<1>3. PICK w \in Seq(STRING) : w = Wires[wire].bytes /\ sent + n =< Len(w)
  BY <1>1, <1>2
<1>4. SubSeq(w, sent + 1, sent + n) \in Seq(STRING)
  <2>1. \A i \in sent + 1..sent + n : w[i] \in STRING
    BY <1>2, <1>3
  <2> QED
    BY <1>2, <1>3, <2>1
<1>5. pc = "recv" /\ sent' \in Nat
  BY <1>1, <1>2 DEF Receive
<1> QED
  BY <1>1, <1>3, <1>4, <1>5, ExecuteStep

LEMMA ReceiveEofStep == ASSUME ParserInv, ReceiveEof PROVE ParserInv'
BY DEF ReceiveEof, ParserInv, Shape, MarksFit, LengthKnown, HeaderKnown, Running, Counted

LEMMA NextByteStep == ASSUME ParserInv, NextByte PROVE ParserInv'
<1>1. /\ pc = "loop" /\ p < Len(data) /\ UNCHANGED <<p, mark>> /\ UNCHANGED <<sent, data>>
  BY DEF NextByte, Fixed
<1>2. PICK n : n = parser.nread + (IF parser.state \in HeaderStates THEN 1 ELSE 0)
  OBVIOUS
<1>3. \/ /\ pc' = "returned" /\ parser' = [parser EXCEPT !.nread = n, !.errno = "HEADER_OVERFLOW"]
      \/ /\ pc' = "byte" /\ parser' = [parser EXCEPT !.nread = n]
  BY <1>2 DEF NextByte
<1>4. n \in Nat /\ (parser.state = "chunk_size_start" => n = 1)
  BY <1>1, <1>2 DEF ParserInv, Shape, Counted, HeaderStates
<1>5. /\ Sound(parser') /\ parser'.state = parser.state /\ parser'.nread = n
      /\ pc' = "byte" => parser'.errno = parser.errno
      /\ pc' = "returned" => parser'.errno = "HEADER_OVERFLOW"
  BY <1>3, <1>4, Now DEF Sound, Fields
<1>6. Shape'
  BY <1>1, <1>3, <1>5 DEF ParserInv, Shape, Sound, Fields
<1>7. MarksFit' /\ Running'
  BY <1>1, <1>3, <1>5 DEF ParserInv, MarksFit, Running
<1>8. LengthKnown' /\ HeaderKnown'
  BY <1>5 DEF LengthKnown, HeaderKnown, Sound
<1>9. Counted'
  BY <1>3, <1>4, <1>5 DEF Counted
<1> QED
  BY <1>6, <1>7, <1>8, <1>9 DEF ParserInv

LEMMA LeftoverStep == ASSUME ParserInv, Leftover PROVE ParserInv'
<1>1. /\ pc = "loop" /\ p = Len(data) /\ UNCHANGED <<sent, data>>
  BY DEF Leftover, Fixed
<1>2. /\ pc' = "returned" /\ p' = p
      /\ \/ mark' = mark \/ \E m \in Marks : mark' = [mark EXCEPT ![m] = NULL]
      /\ \/ parser' = parser \/ \E e \in {parser.errno, "PAUSED"} : parser' = [parser EXCEPT !.errno = e]
  BY DEF Leftover, CallbackData
<1>3. /\ Sound(parser') /\ parser'.state = parser.state /\ parser'.nread = parser.nread
  BY <1>2, Now DEF Sound, Fields
<1>4. mark' \in [Marks -> Int]
  BY <1>2 DEF ParserInv, Shape, NULL
<1>5. Shape'
  BY <1>1, <1>2, <1>3, <1>4 DEF ParserInv, Shape, Sound, Fields
<1>6. parser.state = "chunk_size_start" => parser.nread = 0
  BY <1>1 DEF ParserInv, Counted
<1>7. MarksFit' /\ LengthKnown' /\ HeaderKnown' /\ Running' /\ Counted'
  BY <1>2, <1>3, <1>6 DEF MarksFit, LengthKnown, HeaderKnown, Running, Counted, Sound
<1> QED
  BY <1>5, <1>7 DEF ParserInv

LEMMA ReturnedStep == ASSUME ParserInv, Returned PROVE ParserInv'
<1> DEFINE err == IF parser.upgrade THEN "UNKNOWN" ELSE parser.errno
<1>1. /\ pc = "returned" /\ UNCHANGED <<sent, p, mark, parser>>
      /\ \/ pc' = "over" /\ data' = data
         \/ err \in {"OK", "PAUSED"} /\ data' = Remain /\ pc' = "idle"
         \/ err \in {"OK", "PAUSED"} /\ data' = data /\ pc' = "recv"
  BY DEF Returned
<1>2. err \in {"OK", "PAUSED"} => parser.errno \in {"OK", "PAUSED"}
  OBVIOUS
<1>3. Remain \in Seq(STRING) /\ data \in Seq(STRING)
  <2>1. data \in Seq(STRING) /\ p \in Nat /\ p =< Len(data)
    BY <1>1 DEF ParserInv, Shape
  <2>2. PICK n \in Nat : n = Len(data)
    BY <2>1
  <2>3. \A i \in p + 1..n : data[i] \in STRING
    BY <2>1, <2>2
  <2> QED
    BY <2>1, <2>2, <2>3 DEF Remain
<1>4. Shape'
  BY <1>1, <1>3 DEF ParserInv, Shape
<1>5. Counted'
  BY <1>1, <1>2 DEF ParserInv, Counted
<1>6. MarksFit' /\ LengthKnown' /\ HeaderKnown' /\ Running'
  BY <1>1 DEF ParserInv, MarksFit, LengthKnown, HeaderKnown, Running
<1> QED
  BY <1>4, <1>5, <1>6 DEF ParserInv

(* The wire is chosen once.                                                 *)
LEMMA WireStays == wire \in DOMAIN Wires /\ [Next]_vars => wire' \in DOMAIN Wires
<1> SUFFICES ASSUME wire \in DOMAIN Wires, [Next]_vars PROVE wire' = wire
  OBVIOUS
<1>1. CASE AsynReceiveRequest \/ Receive \/ ReceiveEof \/ NextByte \/ Leftover \/ Returned \/ Over
  BY <1>1 DEF AsynReceiveRequest, Receive, ReceiveEof, NextByte, Leftover, Returned, Over, Fixed, vars
<1>2. CASE Byte
  <2>1. Fixed
    BY <1>2 DEF Byte, Dead, StartReq, ReqMethod, SpacesBeforeUrl, Url, HttpStart, Http, Major, Minor,
      LineAlmostDone, HeaderFieldStart, HeaderField, HeaderValueStart, HeaderValue,
      HeaderAlmostDone, HeaderValueLws, HeadersAlmostDone, HeadersDone, BodyIdentity,
      MessageDone, ChunkSizeStart, ChunkSize, ChunkParameters, ChunkSizeAlmostDone, ChunkData,
      ChunkDataAlmostDone, ChunkDataDone
  <2> QED
    BY <2>1 DEF Fixed
<1>3. CASE UNCHANGED vars
  BY <1>3 DEF vars
<1> QED
  BY <1>1, <1>2, <1>3 DEF Next

WireInv == wire \in DOMAIN Wires /\ ParserInv

(* Nothing else changes the parser.                                         *)
LEMMA ParserStutters == ASSUME ParserInv, UNCHANGED vars PROVE ParserInv'
<1>1. UNCHANGED <<sent, pc, data, p, mark, parser>>
  BY DEF vars
<1>2. Shape' /\ Counted'
  BY <1>1 DEF ParserInv, Shape, Counted
<1>3. MarksFit' /\ LengthKnown' /\ HeaderKnown' /\ Running'
  BY <1>1 DEF ParserInv, MarksFit, LengthKnown, HeaderKnown, Running
<1> QED
  BY <1>2, <1>3 DEF ParserInv

(* The wire is chosen once, and its bytes are read in order.                *)
LEMMA WireStep == WireInv /\ [Next]_vars => WireInv'
<1> SUFFICES ASSUME WireInv, [Next]_vars PROVE WireInv'
  OBVIOUS
<1>1. ParserInv /\ wire \in DOMAIN Wires
  BY DEF WireInv
<1>2. ParserInv'
  <2>1. CASE AsynReceiveRequest \/ Receive \/ ReceiveEof
    BY <1>1, <2>1, AsynReceiveRequestStep, ReceiveStep, ReceiveEofStep
  <2>2. CASE NextByte \/ Byte \/ Leftover \/ Returned
    BY <1>1, <2>2, NextByteStep, ByteStep, LeftoverStep, ReturnedStep
  <2>3. CASE Over \/ UNCHANGED vars
    BY <1>1, <2>3, ParserStutters DEF Over
  <2> QED
    BY <2>1, <2>2, <2>3 DEF Next
<1> QED
  BY <1>1, <1>2, WireStays DEF WireInv

LEMMA WireInit == Init => WireInv
<1> SUFFICES ASSUME Init PROVE WireInv
  OBVIOUS
<1>1. Shape
  BY SizesAssumption DEF Init, Shape, NewParser, States, HeaderStates, NoLength, NULL
<1>2. MarksFit /\ LengthKnown /\ Counted /\ HeaderKnown /\ Running
  BY DEF Init, MarksFit, LengthKnown, Counted, HeaderKnown, Running, NewParser
<1> QED
  BY <1>1, <1>2 DEF Init, ParserInv, WireInv

LEMMA WireInvariant == Spec => []WireInv
<1> QED
  BY WireInit, WireStep, PTL DEF Spec

(* The invariant implies each assertion.                                    *)
LEMMA InvAsserts == ParserInv => ParserAsserts
<1> SUFFICES ASSUME ParserInv PROVE ParserAsserts
  OBVIOUS
<1>1. ASSUME pc = "loop" PROVE Cardinality({m \in Marks : mark[m] # NULL}) =< 1
  <2> DEFINE S == {m \in Marks : mark[m] # NULL}
  <2>1. \A m, n \in S : m = n
    BY <1>1 DEF ParserInv, MarksFit, Marked, Marks, UrlStates
  <2>2. S = {} \/ \E x : S = {x}
    BY <2>1
  <2> HIDE DEF S
  <2>3. Cardinality(S) \in {0, 1}
    BY <2>2, FS_EmptySet, FS_Singleton
  <2> QED
    BY <2>3 DEF S
<1>2. ASSUME pc = "byte"
      PROVE  /\ parser.state \in {"body_identity", "chunk_data"} => parser.length \notin {0, NoLength}
             /\ parser.state = "chunk_size_start" => parser.nread = 1
             /\ parser.state = "header_value" => parser.hstate \notin DOMAIN Values
             /\ parser.errno = "OK"
  BY <1>2 DEF ParserInv, LengthKnown, Counted, HeaderKnown, Running
<1> QED
  BY <1>1, <1>2 DEF ParserAsserts

(* The assertions of http_parser.c (64, 85, 1446, 1651, 1696, 1780, 1829)   *)
(* hold for every input, well-formed or not, wherever the stream cuts it    *)
(* and however often the parser is paused and entered again.                *)
THEOREM ParserAssertsCorrect == Spec => []ParserAsserts
<1>1. WireInv => ParserAsserts
  BY InvAsserts DEF WireInv
<1> QED
  BY <1>1, WireInvariant, PTL

----------------------------------------------------------------------------
(* The URL of a request.                                                    *)
Bytes == Wires[wire].bytes
Blank == " "
UrlEnds == {Blank, "CR", "LF"}
Early == {"req_method", "req_spaces_before_url"}
Later == States \ ({"start_req", "dead"} \cup Early \cup UrlStates)

(* Behind a space, no end of a URL comes before position b.                 *)
Stretch(bytes, a, b) == bytes[a] = Blank /\ \A i \in a + 1..b : bytes[i] \notin UrlEnds
IsUrl(bytes, uri) ==
  \E a \in 1..Len(bytes) : \E b \in a..Len(bytes) - 1 :
    uri = SubSeq(bytes, a + 1, b) /\ Stretch(bytes, a, b) /\ bytes[b + 1] \in UrlEnds
AllUrls(bytes, events) ==
  \A i \in 1..Len(events) : events[i].type = "req" => IsUrl(bytes, events[i].uri)

(* How many bytes of the wire are read, and how many of them the URL holds. *)
Offset == sent - Len(data)
Read == Offset + (IF pc \in {"loop", "byte", "returned"} THEN p
                  ELSE IF pc = "recv" THEN Len(data) ELSE 0)
UrlRead == IF pc \in {"loop", "byte"} THEN Offset + mark["url"] ELSE Read

(* The buffer is the end of what was delivered, and no byte is left in it   *)
(* when the stream is asked for more.                                       *)
NothingSkipped ==
  /\ sent =< Len(Bytes) /\ Len(data) =< sent
  /\ data = SubSeq(Bytes, sent - Len(data) + 1, sent)
  /\ pc = "recv" => data = <<>> \/ p = Len(data)

Pausing ==
  /\ pc = "returned" /\ parser.errno = "OK" => p = Len(data)
  /\ pc \in {"idle", "recv"} => parser.errno \in {"OK", "PAUSED"}
  /\ pc \in {"loop", "byte"} => \A m \in Marks : mark[m] # NULL => mark[m] \in 0..p

Gathering ==
  /\ pc \in {"loop", "byte"} => mark["url"] # NULL
  /\ \E a \in 1..Read : /\ Stretch(Bytes, a, Read)
                        /\ UrlRead >= a /\ request.uri = SubSeq(Bytes, a + 1, UrlRead)

UrlKept ==
  pc # "over" /\ parser.errno \in {"OK", "PAUSED"} =>
    /\ parser.state \in Early => request.uri = <<>>
    /\ parser.state = "req_spaces_before_url" => Read >= 1 /\ Bytes[Read] = Blank
    /\ parser.state \in UrlStates => Gathering
    /\ parser.state \in Later => IsUrl(Bytes, request.uri)

(* Events, of which the requests have whole URLs.                           *)
Fine(bytes, events) == (\E S : events \in Seq(S)) /\ AllUrls(bytes, events)
UrlIsWhole == AllUrls(Bytes, got)

UrlInv ==
  /\ NothingSkipped /\ Pausing /\ UrlKept
  /\ "uri" \in DOMAIN request /\ "result" \in DOMAIN op
  /\ Fine(Bytes, got) /\ Fine(Bytes, op.result)

(* A part of a sequence of bytes.                                           *)
LEMMA Piece ==
  ASSUME NEW s \in Seq(STRING), NEW i \in Nat, NEW j \in Nat, i =< j, j =< Len(s)
  PROVE  /\ SubSeq(s, i + 1, j) \in Seq(STRING) /\ Len(SubSeq(s, i + 1, j)) = j - i
         /\ \A k \in 1..j - i : SubSeq(s, i + 1, j)[k] = s[i + k]
<1> DEFINE t == SubSeq(s, i + 1, j)
<1>1. t \in Seq(STRING)
  <2>1. \A k \in i + 1..j : s[k] \in STRING
    OBVIOUS
  <2> QED
    BY <2>1
<1>2. Len(t) = j - i
  OBVIOUS
<1>3. ASSUME NEW k \in 1..j - i PROVE t[k] = s[i + k]
  <2> DEFINE a == i + 1
  <2>1. a \in Nat \ {0} /\ k \in 1..j - a + 1 /\ k + a - 1 = i + k
    OBVIOUS
  <2> HIDE DEF a
  <2>2. SubSeq(s, a, j)[k] = s[k + a - 1]
    BY <2>1
  <2> QED
    BY <2>1, <2>2 DEF a
<1> QED
  BY <1>1, <1>2, <1>3

(* Sequences with the same elements are the same.                           *)
LEMMA SameBytes ==
  ASSUME NEW s \in Seq(STRING), NEW t \in Seq(STRING), Len(s) = Len(t),
         \A k \in 1..Len(s) : s[k] = t[k]
  PROVE  s = t
OBVIOUS

(* One part behind the other.                                               *)
LEMMA TwoPieces ==
  ASSUME NEW s \in Seq(STRING), NEW a \in Nat, NEW b \in Nat, NEW c \in Nat,
         a =< b, b =< c, c =< Len(s)
  PROVE  SubSeq(s, a + 1, b) \o SubSeq(s, b + 1, c) = SubSeq(s, a + 1, c)
<1> DEFINE l == SubSeq(s, a + 1, b)
           r == SubSeq(s, b + 1, c)
           t == SubSeq(s, a + 1, c)
<1>1. Len(s) \in Nat /\ b =< Len(s) /\ a =< c
  OBVIOUS
<1>2. /\ l \in Seq(STRING) /\ Len(l) = b - a /\ \A k \in 1..b - a : l[k] = s[a + k]
      /\ r \in Seq(STRING) /\ Len(r) = c - b /\ \A k \in 1..c - b : r[k] = s[b + k]
      /\ t \in Seq(STRING) /\ Len(t) = c - a /\ \A k \in 1..c - a : t[k] = s[a + k]
  BY <1>1, Piece
<1> HIDE DEF l, r, t
<1>3. l \in Seq(STRING) /\ r \in Seq(STRING)
  BY <1>2
<1>4. /\ l \o r \in Seq(STRING) /\ Len(l \o r) = Len(l) + Len(r)
      /\ \A k \in 1..Len(l) + Len(r) : (l \o r)[k] = IF k =< Len(l) THEN l[k] ELSE r[k - Len(l)]
  BY <1>3, ConcatProperties
<1>5. Len(l \o r) = c - a
  BY <1>2, <1>4
<1>6. ASSUME NEW k \in 1..c - a PROVE (l \o r)[k] = t[k]
  <2>1. (l \o r)[k] = IF k =< b - a THEN l[k] ELSE r[k - (b - a)]
    BY <1>2, <1>4, SMTT(30)
  <2>2. CASE k =< b - a
    BY <1>2, <2>1, <2>2
  <2>3. CASE ~(k =< b - a)
    <3>1. k - (b - a) \in 1..c - b /\ b + (k - (b - a)) = a + k
      BY <2>3
    <3> QED
      BY <1>2, <2>1, <2>3, <3>1
  <2> QED
    BY <2>2, <2>3
<1>7. l \o r = t
  BY <1>2, <1>4, <1>5, <1>6, SameBytes
<1> QED
  BY <1>7 DEF l, r, t

(* A part of a part.                                                        *)
LEMMA PieceOfPiece ==
  ASSUME NEW s \in Seq(STRING), NEW o \in Nat, NEW n \in Nat, o + n =< Len(s),
         NEW i \in Nat, NEW j \in Nat, i =< j, j =< n
  PROVE  SubSeq(SubSeq(s, o + 1, o + n), i + 1, j) = SubSeq(s, (o + i) + 1, o + j)
<1> DEFINE w == SubSeq(s, o + 1, o + n)
           l == SubSeq(w, i + 1, j)
           r == SubSeq(s, (o + i) + 1, o + j)
<1>1. /\ w \in Seq(STRING) /\ Len(w) = n /\ \A k \in 1..n : w[k] = s[o + k]
  BY Piece
<1>2. /\ r \in Seq(STRING) /\ Len(r) = j - i /\ \A k \in 1..j - i : r[k] = s[(o + i) + k]
  <2> DEFINE a == o + i
             b == o + j
  <2>1. a \in Nat /\ b \in Nat /\ a =< b /\ b =< Len(s) /\ b - a = j - i
    OBVIOUS
  <2> HIDE DEF a, b
  <2>2. /\ SubSeq(s, a + 1, b) \in Seq(STRING) /\ Len(SubSeq(s, a + 1, b)) = b - a
        /\ \A k \in 1..b - a : SubSeq(s, a + 1, b)[k] = s[a + k]
    BY <2>1, Piece
  <2> QED
    BY <2>1, <2>2 DEF a, b
<1> HIDE DEF w
<1>3. /\ l \in Seq(STRING) /\ Len(l) = j - i /\ \A k \in 1..j - i : l[k] = w[i + k]
  BY <1>1, Piece
<1> HIDE DEF l, r
<1>4. ASSUME NEW k \in 1..j - i PROVE l[k] = r[k]
  <2>1. i + k \in 1..n /\ o + (i + k) = (o + i) + k
    OBVIOUS
  <2> QED
    BY <1>1, <1>2, <1>3, <2>1
<1>5. l = r
  BY <1>2, <1>3, <1>4, SameBytes
<1> QED
  BY <1>5 DEF l, r, w

(* Where the buffer stands in the wire.                                     *)
LEMMA Places ==
  ASSUME WireInv, UrlInv
  PROVE  /\ Bytes \in Seq(STRING) /\ Len(Bytes) \in Nat /\ data \in Seq(STRING)
         /\ Len(data) \in Nat /\ sent \in Nat /\ p \in Nat /\ Offset \in Nat
         /\ sent = Offset + Len(data) /\ Offset + Len(data) =< Len(Bytes)
         /\ data = SubSeq(Bytes, Offset + 1, Offset + Len(data))
<1>1. Bytes \in Seq(STRING)
  BY WiresAssumption DEF WireInv, Bytes
<1>2. data \in Seq(STRING) /\ sent \in Nat /\ p \in Nat
  BY DEF WireInv, ParserInv, Shape
<1>3. Len(Bytes) \in Nat /\ Len(data) \in Nat
  BY <1>1, <1>2
<1>4. /\ sent =< Len(Bytes) /\ Len(data) =< sent
      /\ data = SubSeq(Bytes, sent - Len(data) + 1, sent)
  BY DEF UrlInv, NothingSkipped
<1>5. Offset \in Nat /\ sent = Offset + Len(data) /\ Offset + Len(data) =< Len(Bytes)
  BY <1>2, <1>3, <1>4 DEF Offset
<1>6. data = SubSeq(Bytes, Offset + 1, Offset + Len(data))
  BY <1>4, <1>5 DEF Offset
<1> QED
  BY <1>1, <1>2, <1>3, <1>5, <1>6

(* Events one behind the other.                                             *)
LEMMA FineJoined ==
  ASSUME NEW bytes, NEW s, NEW t, Fine(bytes, s), Fine(bytes, t)
  PROVE  Fine(bytes, s \o t)
<1>1. PICK S : s \in Seq(S)
  BY DEF Fine
<1>2. PICK T : t \in Seq(T)
  BY DEF Fine
<1> DEFINE U == S \cup T
<1>3. s \in Seq(U) /\ t \in Seq(U)
  BY <1>1, <1>2
<1> HIDE DEF U
<1>4. s \o t \in Seq(U) /\ Len(s) \in Nat /\ Len(t) \in Nat /\ Len(s \o t) = Len(s) + Len(t)
  BY <1>3
<1>5. ASSUME NEW i \in 1..Len(s \o t), (s \o t)[i].type = "req"
      PROVE  IsUrl(bytes, (s \o t)[i].uri)
  <2>1. CASE i =< Len(s)
    <3>1. (s \o t)[i] = s[i] /\ i \in 1..Len(s)
      BY <1>3, <1>4, <2>1
    <3> QED
      BY <1>5, <3>1 DEF Fine, AllUrls
  <2>2. CASE ~(i =< Len(s))
    <3>1. (s \o t)[i] = t[i - Len(s)] /\ i - Len(s) \in 1..Len(t)
      BY <1>3, <1>4, <2>2
    <3> QED
      BY <1>5, <3>1 DEF Fine, AllUrls
  <2> QED
    BY <2>1, <2>2
<1> QED
  BY <1>4, <1>5 DEF Fine, AllUrls

(* A single event.                                                          *)
LEMMA FineAlone ==
  ASSUME NEW bytes, NEW e, e.type = "req" => IsUrl(bytes, e.uri)
  PROVE  Fine(bytes, <<e>>)
<1>1. <<e>> \in Seq({e}) /\ Len(<<e>>) = 1 /\ <<e>>[1] = e
  OBVIOUS
<1>2. AllUrls(bytes, <<e>>)
  BY <1>1 DEF AllUrls
<1> QED
  BY <1>1, <1>2 DEF Fine

(* One event more.                                                          *)
LEMMA FineAdded ==
  ASSUME NEW bytes, NEW s, Fine(bytes, s), NEW e, e.type = "req" => IsUrl(bytes, e.uri)
  PROVE  Fine(bytes, Append(s, e))
<1>1. PICK S : s \in Seq(S)
  BY DEF Fine
<1>2. Append(s, e) = s \o <<e>>
  BY <1>1
<1> QED
  BY <1>2, FineJoined, FineAlone

(* The bytes of a body are no requests.                                     *)
LEMMA FineBody ==
  ASSUME NEW bytes, NEW text \in Seq(STRING)
  PROVE  Fine(bytes, DatEvents(text))
<1> DEFINE S == {[type |-> "dat", byte |-> b] : b \in STRING}
<1>1. DatEvents(text) \in Seq(S) /\ Len(DatEvents(text)) = Len(text)
  BY DEF DatEvents
<1>2. \A i \in 1..Len(text) : DatEvents(text)[i].type = "dat"
  BY DEF DatEvents
<1> QED
  BY <1>1, <1>2 DEF Fine, AllUrls

----------------------------------------------------------------------------
(* What one byte does to the URL.                                           *)

(* The states of a message, in four groups.                                 *)
LEMMA LaterStates ==
  /\ {"req_http_start", "req_http_H", "req_first_http_major", "req_http_major",
      "req_first_http_minor", "req_http_minor", "req_line_almost_done", "header_field_start",
      "header_field", "header_value_start", "header_value", "header_value_lws",
      "header_almost_done", "headers_almost_done", "headers_done", "body_identity",
      "message_done", "chunk_size_start", "chunk_size", "chunk_parameters",
      "chunk_size_almost_done", "chunk_data", "chunk_data_almost_done",
      "chunk_data_done"} \subseteq Later
  /\ \A s \in Later : s \notin {"start_req", "dead"} \cup Early \cup UrlStates
  /\ \A s \in {"start_req", "dead"} : s \notin Early \cup UrlStates
  /\ \A s \in UrlStates : s \notin Early
BY DEF Later, States, HeaderStates, Early, UrlStates

(* The program's side, when the URL is not touched.                         *)
Calm ==
  /\ "uri" \in DOMAIN request' /\ request'.uri = request.uri
  /\ "result" \in DOMAIN op' /\ Fine(Bytes, got') /\ Fine(Bytes, op'.result)

LEMMA NoCallbackCalm == UrlInv /\ NoCallback => Calm
BY DEF UrlInv, NoCallback, Calm

(* What is left to show when a byte has been taken.                         *)
LEMMA Taken ==
  ASSUME WireInv, UrlInv, Fixed, pc' \in {"loop", "byte", "returned"},
         pc' = "returned" /\ parser'.errno = "OK" => p' = Len(data),
         pc' \in {"loop", "byte"} => \A m \in Marks : mark'[m] # NULL => mark'[m] \in 0..p',
         "uri" \in DOMAIN request', "result" \in DOMAIN op',
         Fine(Bytes, got'), Fine(Bytes, op'.result), UrlKept'
  PROVE  UrlInv'
<1>1. /\ wire' = wire /\ sent' = sent /\ data' = data /\ Bytes' = Bytes
  BY DEF Fixed, Bytes
<1>2. NothingSkipped'
  <2>1. sent =< Len(Bytes) /\ Len(data) =< sent /\ data = SubSeq(Bytes, sent - Len(data) + 1, sent)
    BY DEF UrlInv, NothingSkipped
  <2> QED
    BY <1>1, <2>1 DEF NothingSkipped
<1>3. Pausing'
  BY <1>1 DEF Pausing
<1>4. Fine(Bytes, got)' /\ Fine(Bytes, op.result)'
  BY <1>1
<1> QED
  BY <1>2, <1>3, <1>4 DEF UrlInv

(* A byte that does not touch the URL.                                      *)
LEMMA Quiet ==
  ASSUME WireInv, UrlInv, Fixed, Calm, pc = "byte", pc' \in {"loop", "byte", "returned"},
         pc' = "returned" => parser'.errno # "OK",
         pc' \in {"loop", "byte"} => \A m \in Marks : mark'[m] # NULL => mark'[m] \in 0..p',
         \/ parser'.errno \notin {"OK", "PAUSED"}
         \/ parser'.state \in {"start_req", "dead"}
         \/ parser.state \in Later /\ parser'.state \in Later
  PROVE  UrlInv'
<1>1. /\ "uri" \in DOMAIN request' /\ request'.uri = request.uri
      /\ "result" \in DOMAIN op' /\ Fine(Bytes, got') /\ Fine(Bytes, op'.result)
  BY DEF Calm
<1>2. Bytes' = Bytes
  BY DEF Fixed, Bytes
<1>3. parser.state \in Later => IsUrl(Bytes, request.uri)
  <2>1. parser.errno = "OK"
    BY DEF WireInv, ParserInv, Running
  <2> QED
    BY <2>1 DEF UrlInv, UrlKept
<1>4. UrlKept'
  <2>1. CASE parser'.errno \notin {"OK", "PAUSED"}
    BY <2>1 DEF UrlKept
  <2>2. CASE parser'.state \in {"start_req", "dead"}
    <3>1. /\ parser'.state \notin Early /\ parser'.state # "req_spaces_before_url"
          /\ parser'.state \notin UrlStates /\ parser'.state \notin Later
      BY <2>2, LaterStates DEF Early
    <3> QED
      BY <3>1 DEF UrlKept
  <2>3. CASE parser.state \in Later /\ parser'.state \in Later
    <3>1. /\ parser'.state \notin Early /\ parser'.state # "req_spaces_before_url"
          /\ parser'.state \notin UrlStates
      BY <2>3, LaterStates DEF Early
    <3>2. IsUrl(Bytes', request'.uri)
      BY <1>1, <1>2, <1>3, <2>3
    <3> QED
      BY <3>1, <3>2 DEF UrlKept
  <2> QED
    BY <2>1, <2>2, <2>3
<1> QED
  BY <1>1, <1>4, Taken

(* Where the marks are.                                                     *)
LEMMA MarksBehind ==
  ASSUME WireInv, UrlInv, pc \in {"loop", "byte"}
  PROVE  /\ p \in Nat /\ Len(data) \in Nat /\ (pc = "byte" => p < Len(data)) /\ p =< Len(data)
         /\ mark \in [Marks -> Int] /\ \A m \in Marks : mark[m] # NULL => mark[m] \in 0..p
BY DEF WireInv, ParserInv, Shape, UrlInv, Pausing

(* An error.                                                                *)
LEMMA QuietError ==
  ASSUME WireInv, UrlInv, pc = "byte", Fixed, NEW e, e \notin {"OK", "PAUSED"}, Error(e)
  PROVE  UrlInv'
<1>1. pc' = "returned" /\ parser'.errno = e /\ NoCallback
  BY DEF Error, WireInv, ParserInv, Shape
<1> QED
  BY <1>1, NoCallbackCalm, Quiet

(* The end of a message.                                                    *)
LEMMA QuietComplete ==
  ASSUME WireInv, UrlInv, pc = "byte", Fixed,
         NEW q, {"state", "errno"} \subseteq DOMAIN q, MessageComplete(q)
  PROVE  UrlInv'
<1>1. /\ pc' = "returned" /\ request' = request /\ got' = got
      /\ op' = [op EXCEPT !.complete = TRUE, !.result = <<FinEvent>>]
      /\ parser' = [q EXCEPT !.state = NewMessage(q), !.errno = "PAUSED"]
  BY DEF MessageComplete
<1>2. parser'.errno = "PAUSED" /\ parser'.state \in {"start_req", "dead"}
  BY <1>1 DEF NewMessage
<1>3. "result" \in DOMAIN op' /\ op'.result = <<FinEvent>>
  BY <1>1 DEF UrlInv
<1>4. Fine(Bytes, <<FinEvent>>)
  <2>1. FinEvent.type # "req"
    BY DEF FinEvent
  <2> QED
    BY <2>1, FineAlone
<1>5. Calm
  BY <1>1, <1>3, <1>4 DEF Calm, UrlInv
<1> QED
  BY <1>1, <1>2, <1>5, Quiet

(* The byte is taken, or is seen again in another state.                    *)
LEMMA QuietStep ==
  ASSUME WireInv, UrlInv, pc = "byte", Fixed, NEW q, Step(q) \/ (Reexecute(q) /\ NoCallback),
         \/ q.state \in {"start_req", "dead"}
         \/ parser.state \in Later /\ q.state \in Later
  PROVE  UrlInv'
<1>1. parser' = q /\ p' \in {p, p + 1} /\ pc' \in {"loop", "byte"} /\ mark' = mark /\ NoCallback
  BY DEF Step, Consume, Reexecute
<1>2. \A m \in Marks : mark'[m] # NULL => mark'[m] \in 0..p'
  BY <1>1, MarksBehind
<1> QED
  BY <1>1, <1>2, NoCallbackCalm, Quiet

(* A piece is marked.                                                       *)
LEMMA QuietBegin ==
  ASSUME WireInv, UrlInv, pc = "byte", Fixed, NEW x \in Marks, mark' = MarkAt(x),
         p' \in Nat, p =< p', pc' = "loop", NoCallback, parser.state \in Later, parser'.state \in Later
  PROVE  UrlInv'
<1>1. \A m \in Marks : mark'[m] # NULL => mark'[m] \in 0..p'
  <2>1. /\ p \in Nat /\ mark \in [Marks -> Int] /\ \A m \in Marks : mark[m] # NULL => mark[m] \in 0..p
    BY MarksBehind
  <2>2. \A m \in Marks : mark'[m] \in {mark[m], p}
    BY <2>1 DEF MarkAt
  <2> QED
    BY <2>1, <2>2
<1> QED
  BY <1>1, NoCallbackCalm, Quiet

(* A piece other than the URL is reported.                                  *)
LEMMA OtherData ==
  ASSUME WireInv, UrlInv, NEW what \in Marks \ {"url"}, NEW text, OnData(what, text),
         what = "body" => text \in Seq(STRING)
  PROVE  Calm
<1>1. what \in {"header_field", "header_value", "body"}
  BY DEF Marks
<1>2. /\ "uri" \in DOMAIN request /\ "result" \in DOMAIN op
      /\ Fine(Bytes, got) /\ Fine(Bytes, op.result)
  BY DEF UrlInv
<1>3. CASE what = "header_field"
  <2>1. OnHeaderField(text)
    BY <1>3 DEF OnData
  <2>2. /\ \E h : request' = [request EXCEPT !.headers = h]
        /\ op' = [op EXCEPT !.last = "field"] /\ got' = got
    BY <2>1 DEF OnHeaderField
  <2> QED
    BY <1>2, <2>2 DEF Calm
<1>4. CASE what = "header_value"
  <2>1. OnHeaderValue(text)
    BY <1>4 DEF OnData
  <2>2. /\ \E h : request' = [request EXCEPT !.headers = h]
        /\ op' = [op EXCEPT !.last = "value"] /\ got' = got
    BY <2>1 DEF OnHeaderValue
  <2> QED
    BY <1>2, <2>2 DEF Calm
<1>5. CASE what = "body"
  <2>1. OnBody(text)
    BY <1>5 DEF OnData
  <2>2. Fine(Bytes, DatEvents(text))
    BY <1>5, FineBody
  <2>3. \/ got' = got \o DatEvents(text) /\ op' = op /\ request' = request
        \/ op' = [op EXCEPT !.result = DatEvents(text)] /\ got' = got /\ request' = request
    BY <2>1 DEF OnBody
  <2>4. Fine(Bytes, got \o DatEvents(text))
    BY <1>2, <2>2, FineJoined
  <2>5. CASE got' = got \o DatEvents(text) /\ op' = op /\ request' = request
    BY <1>2, <2>4, <2>5 DEF Calm
  <2>6. CASE op' = [op EXCEPT !.result = DatEvents(text)] /\ got' = got /\ request' = request
    <3>1. "result" \in DOMAIN op' /\ op'.result = DatEvents(text)
      BY <1>2, <2>6
    <3> QED
      BY <1>2, <2>2, <2>6, <3>1 DEF Calm
  <2> QED
    BY <2>3, <2>5, <2>6
<1> QED
  BY <1>1, <1>3, <1>4, <1>5

(* A part of the buffer.                                                    *)
LEMMA PartOfData ==
  ASSUME WireInv, NEW from \in Nat, NEW last \in Nat, from =< last, last =< Len(data)
  PROVE  SubSeq(data, from + 1, last) \in Seq(STRING)
<1>1. PICK s \in Seq(STRING) : s = data
  BY DEF WireInv, ParserInv, Shape
<1> QED
  BY <1>1, Piece

LEMMA QuietData ==
  ASSUME WireInv, UrlInv, pc = "byte", Fixed, NEW what \in Marks \ {"url"},
         NEW from, NEW last, NEW q, NEW next, NEW then,
         CallbackData(what, from, last, q, next, then), then \in {"loop", "byte"},
         next \in Nat, p =< next,
         what = "body" => from \in Nat /\ last \in Nat /\ from =< last /\ last =< Len(data),
         {"state", "errno"} \subseteq DOMAIN q, parser.state \in Later, q.state \in Later
  PROVE  UrlInv'
<1>1. /\ OnData(what, SubSeq(data, from + 1, last))
      /\ mark' = [mark EXCEPT ![what] = NULL] /\ p' = next
      /\ \/ pc' = then /\ \E e : parser' = [q EXCEPT !.errno = e]
         \/ pc' = "returned" /\ parser' = [q EXCEPT !.errno = "PAUSED"]
  BY DEF CallbackData
<1>2. Calm
  <2>1. what = "body" => SubSeq(data, from + 1, last) \in Seq(STRING)
    BY PartOfData
  <2> QED
    BY <1>1, <2>1, OtherData
<1>3. parser'.state \in Later /\ (pc' = "returned" => parser'.errno # "OK")
  BY <1>1
<1>4. \A m \in Marks : mark'[m] # NULL => mark'[m] \in 0..p'
  <2>1. /\ p \in Nat /\ mark \in [Marks -> Int] /\ \A m \in Marks : mark[m] # NULL => mark[m] \in 0..p
    BY MarksBehind
  <2>2. \A m \in Marks : mark'[m] \in {mark[m], NULL}
    BY <1>1, <2>1
  <2> QED
    BY <1>1, <2>1, <2>2
<1> QED
  BY <1>1, <1>2, <1>3, <1>4, Quiet

----------------------------------------------------------------------------
(* The states behind the URL, and those of the method before it.            *)

(* What the parser's record has.                                            *)
LEMMA ParserHas ==
  ASSUME WireInv
  PROVE  /\ {"state", "errno"} \subseteq DOMAIN parser
         /\ \A s : /\ {"state", "errno"} \subseteq DOMAIN Goto(s) /\ Goto(s).state = s
                  /\ Goto(s).errno = parser.errno
BY DEF WireInv, ParserInv, Shape, Goto

(* A step to another state, and one that stays.                             *)
LEMMA QuietGoto ==
  ASSUME WireInv, UrlInv, pc = "byte", Fixed, parser.state \in Later, NEW s \in Later,
         Step(Goto(s)) \/ (Reexecute(Goto(s)) /\ NoCallback)
  PROVE  UrlInv'
BY ParserHas, QuietStep

LEMMA QuietStay ==
  ASSUME WireInv, UrlInv, pc = "byte", Fixed, Step(parser),
         parser.state \in Later \cup {"start_req", "dead"}
  PROVE  UrlInv'
BY QuietStep

(* A step that changes other fields of the parser as well.                  *)
LEMMA QuietField ==
  ASSUME WireInv, UrlInv, pc = "byte", Fixed, parser.state \in Later, NEW q, Step(q),
         q.state \in Later
  PROVE  UrlInv'
BY QuietStep

(* The byte behind a piece.                                                 *)
LEMMA QuietEnd ==
  ASSUME WireInv, UrlInv, pc = "byte", Fixed, NEW what \in Marks \ {"url"}, NEW s \in Later,
         parser.state \in Later, DataConsume(what, Goto(s)),
         what = "body" => mark["body"] # NULL
  PROVE  UrlInv'
<1>1. CallbackData(what, mark[what], p, Goto(s), p + 1, "loop")
  BY DEF DataConsume
<1>2. p \in Nat /\ p + 1 \in Nat /\ p =< p + 1 /\ p =< Len(data)
  BY MarksBehind
<1>3. what = "body" => mark[what] \in Nat /\ mark[what] =< p
  BY MarksBehind DEF Marks
<1> QED
  BY <1>1, <1>2, <1>3, ParserHas, QuietData

LEMMA DeadUrl == ASSUME WireInv, UrlInv, Dead PROVE UrlInv'
<1>1. pc = "byte" /\ parser.state = "dead" /\ Fixed
  BY DEF Dead, At
<1>2. Step(parser) \/ Error("CLOSED_CONNECTION")
  BY DEF Dead
<1> QED
  BY <1>1, <1>2, QuietStay, QuietError

LEMMA HttpStartUrl == ASSUME WireInv, UrlInv, HttpStart PROVE UrlInv'
<1>1. pc = "byte" /\ parser.state = "req_http_start" /\ Fixed /\ parser.state \in Later
  BY LaterStates DEF HttpStart, At
<1>2. Step(Goto("req_http_H")) \/ Step(parser) \/ Error("INVALID_CONSTANT")
  BY DEF HttpStart
<1> QED
  BY <1>1, <1>2, LaterStates, QuietGoto, QuietStay, QuietError

LEMMA HttpUrl == ASSUME WireInv, UrlInv, Http PROVE UrlInv'
<1>1. pc = "byte" /\ parser.state = "req_http_H" /\ Fixed /\ parser.state \in Later
  BY LaterStates DEF Http, At
<1>2. Step(Goto("req_first_http_major")) \/ Error("STRICT")
  BY DEF Http
<1> QED
  BY <1>1, <1>2, LaterStates, QuietGoto, QuietError

LEMMA MajorUrl == ASSUME WireInv, UrlInv, Major PROVE UrlInv'
<1>1. pc = "byte" /\ parser.state \in {"req_first_http_major", "req_http_major"} /\ Fixed /\ parser.state \in Later
  BY LaterStates DEF Major, At
<1>2. \/ Step(Goto("req_first_http_minor")) \/ Error("INVALID_VERSION")
      \/ \E n : Step([Goto("req_http_major") EXCEPT !.major = n])
      \/ \E n : Step([parser EXCEPT !.major = n])
  BY DEF Major
<1>3. ASSUME NEW n, NEW q \in {[Goto("req_http_major") EXCEPT !.major = n],
                               [parser EXCEPT !.major = n]}, Step(q)
      PROVE  UrlInv'
  <2>1. q.state \in {"req_http_major", parser.state}
    BY ParserHas
  <2> QED
    BY <1>1, <1>3, <2>1, LaterStates, QuietField
<1> QED
  BY <1>1, <1>2, LaterStates, <1>3, QuietGoto, QuietError

LEMMA MinorUrl == ASSUME WireInv, UrlInv, Minor PROVE UrlInv'
<1>1. pc = "byte" /\ parser.state \in {"req_first_http_minor", "req_http_minor"} /\ Fixed /\ parser.state \in Later
  BY LaterStates DEF Minor, At
<1>2. \/ \E s \in {"req_line_almost_done", "header_field_start"} : Step(Goto(s)) \/ Error("INVALID_VERSION")
      \/ \E n : Step([Goto("req_http_minor") EXCEPT !.minor = n])
      \/ \E n : Step([parser EXCEPT !.minor = n])
  BY DEF Minor
<1>3. ASSUME NEW n, NEW q \in {[Goto("req_http_minor") EXCEPT !.minor = n],
                               [parser EXCEPT !.minor = n]}, Step(q)
      PROVE  UrlInv'
  <2>1. q.state \in {"req_http_minor", parser.state}
    BY ParserHas
  <2> QED
    BY <1>1, <1>3, <2>1, LaterStates, QuietField
<1> QED
  BY <1>1, <1>2, LaterStates, <1>3, QuietGoto, QuietError

LEMMA LineAlmostDoneUrl == ASSUME WireInv, UrlInv, LineAlmostDone PROVE UrlInv'
<1>1. pc = "byte" /\ parser.state = "req_line_almost_done" /\ Fixed /\ parser.state \in Later
  BY LaterStates DEF LineAlmostDone, At
<1>2. Step(Goto("header_field_start")) \/ Error("LF_EXPECTED")
  BY DEF LineAlmostDone
<1> QED
  BY <1>1, <1>2, LaterStates, QuietGoto, QuietError

LEMMA HeaderFieldStartUrl == ASSUME WireInv, UrlInv, HeaderFieldStart PROVE UrlInv'
<1>1. pc = "byte" /\ parser.state = "header_field_start" /\ Fixed /\ parser.state \in Later
  BY LaterStates DEF HeaderFieldStart, At
<1>2. \/ Step(Goto("headers_almost_done"))
      \/ Reexecute(Goto("headers_almost_done")) /\ NoCallback
      \/ Error("INVALID_HEADER_TOKEN")
      \/ \E h : /\ parser' = [Goto("header_field") EXCEPT !.hstate = h]
                /\ mark' = MarkAt("header_field") /\ p' = p + 1 /\ pc' = "loop" /\ NoCallback
  BY DEF HeaderFieldStart
<1>3. ASSUME NEW h, parser' = [Goto("header_field") EXCEPT !.hstate = h],
             mark' = MarkAt("header_field"), p' = p + 1, pc' = "loop", NoCallback
      PROVE  UrlInv'
  <2>1. parser'.state = "header_field"
    BY <1>3, ParserHas
  <2>2. "header_field" \in Marks /\ p' \in Nat /\ p =< p'
    BY <1>1, <1>3, MarksBehind DEF Marks
  <2> QED
    BY <1>1, <1>3, <2>1, <2>2, LaterStates, QuietBegin
<1> QED
  BY <1>1, <1>2, LaterStates, <1>3, QuietGoto, QuietError

LEMMA HeaderFieldUrl == ASSUME WireInv, UrlInv, HeaderField PROVE UrlInv'
<1>1. pc = "byte" /\ parser.state = "header_field" /\ Fixed /\ parser.state \in Later
  BY LaterStates DEF HeaderField, At
<1>2. \/ \E h : Step([parser EXCEPT !.hstate = h])
      \/ \E s \in {"header_value_start", "header_almost_done", "header_field_start"} :
           DataConsume("header_field", Goto(s))
      \/ Error("INVALID_HEADER_TOKEN")
  BY DEF HeaderField
<1>3. ASSUME NEW h, Step([parser EXCEPT !.hstate = h]) PROVE UrlInv'
  <2>1. [parser EXCEPT !.hstate = h].state = parser.state
    BY ParserHas
  <2> QED
    BY <1>1, <1>3, <2>1, QuietField
<1>4. "header_field" \in Marks \ {"url"}
  BY DEF Marks
<1> QED
  BY <1>1, <1>2, LaterStates, <1>3, <1>4, QuietEnd, QuietError

LEMMA HeaderValueStartUrl == ASSUME WireInv, UrlInv, HeaderValueStart PROVE UrlInv'
<1>1. pc = "byte" /\ parser.state = "header_value_start" /\ Fixed /\ parser.state \in Later
  BY LaterStates DEF HeaderValueStart, At
<1>2. \/ Step(parser) \/ Error("INVALID_CONTENT_LENGTH")
      \/ \E q : /\ CallbackData("header_value", p, p, q, p + 1, "loop")
                /\ \/ q = Goto("header_field_start")
                   \/ q = [Goto("header_almost_done") EXCEPT !.hstate = "general"]
      \/ /\ mark' = MarkAt("header_value") /\ p' = p + 1 /\ pc' = "loop" /\ NoCallback
         /\ \/ \E f, h : parser' = [Goto("header_value") EXCEPT !.flags = f, !.hstate = h]
            \/ \E l : parser' = [Goto("header_value") EXCEPT !.length = l]
            \/ \E h : parser' = [Goto("header_value") EXCEPT !.hstate = h]
  <2>1. CASE ch = " "
    BY <2>1 DEF HeaderValueStart
  <2>2. CASE ch \in {"CR", "LF"}
    BY <2>2 DEF HeaderValueStart
  <2>3. CASE ch \notin {" ", "CR", "LF"}
    <3> DEFINE h == parser.hstate
               q == Goto("header_value")
    <3>1. \/ Error("INVALID_CONTENT_LENGTH")
          \/ /\ parser' =
                   CASE h = "upgrade" ->
                          [q EXCEPT !.flags = @ \cup {"upgrade"}, !.hstate = "general"]
                     [] h = "content_length" -> [q EXCEPT !.length = Digit[ch] % LengthMod]
                     [] h \in DOMAIN Values -> [q EXCEPT !.hstate = FirstHalf(Values[h], ch)]
                     [] OTHER -> [q EXCEPT !.hstate = "general"]
             /\ mark' = MarkAt("header_value") /\ p' = p + 1 /\ pc' = "loop" /\ NoCallback
      BY <2>3 DEF HeaderValueStart
    <3>2. PICK f, l, g : /\ f = q.flags \cup {"upgrade"} /\ l = Digit[ch] % LengthMod
                         /\ g = FirstHalf(Values[h], ch)
      OBVIOUS
    <3>3. \/ Error("INVALID_CONTENT_LENGTH")
          \/ /\ \/ parser' = [q EXCEPT !.flags = f, !.hstate = "general"]
                \/ parser' = [q EXCEPT !.length = l]
                \/ parser' = [q EXCEPT !.hstate = g]
                \/ parser' = [q EXCEPT !.hstate = "general"]
             /\ mark' = MarkAt("header_value") /\ p' = p + 1 /\ pc' = "loop" /\ NoCallback
      BY <3>1, <3>2
    <3> HIDE DEF h, q
    <3> QED
      BY <3>3 DEF q
  <2> QED
    BY <2>1, <2>2, <2>3
<1>3. "header_value" \in Marks \ {"url"} /\ p + 1 \in Nat /\ p =< p + 1
  BY <1>1, MarksBehind DEF Marks
<1>4. ASSUME NEW q, CallbackData("header_value", p, p, q, p + 1, "loop"),
             \/ q = Goto("header_field_start")
             \/ q = [Goto("header_almost_done") EXCEPT !.hstate = "general"]
      PROVE  UrlInv'
  <2>1. /\ {"state", "errno"} \subseteq DOMAIN q
        /\ q.state \in {"header_field_start", "header_almost_done"}
    BY <1>4, ParserHas
  <2> QED
    BY <1>1, <1>3, <1>4, <2>1, LaterStates, QuietData
<1>5. ASSUME mark' = MarkAt("header_value"), p' = p + 1, pc' = "loop", NoCallback,
             \/ \E f, h : parser' = [Goto("header_value") EXCEPT !.flags = f, !.hstate = h]
             \/ \E l : parser' = [Goto("header_value") EXCEPT !.length = l]
             \/ \E h : parser' = [Goto("header_value") EXCEPT !.hstate = h]
      PROVE  UrlInv'
  <2>1. parser'.state = "header_value"
    BY <1>5, ParserHas
  <2> QED
    BY <1>1, <1>3, <1>5, <2>1, LaterStates, QuietBegin
<1> QED
  BY <1>1, <1>2, <1>4, <1>5, QuietStay, QuietError

LEMMA HeaderValueUrl == ASSUME WireInv, UrlInv, HeaderValue PROVE UrlInv'
<1>1. pc = "byte" /\ parser.state = "header_value" /\ Fixed /\ parser.state \in Later
  BY LaterStates DEF HeaderValue, At
<1>2. \/ DataConsume("header_value", Goto("header_almost_done"))
      \/ CallbackData("header_value", mark["header_value"], p, Goto("header_almost_done"), p, "byte")
      \/ Step(parser) \/ Error("INVALID_CONTENT_LENGTH")
      \/ Step([parser EXCEPT !.length = Grown(10, Digit[ch])])
      \/ Step([parser EXCEPT !.hstate = SecondHalf(AllValues, parser.hstate, ch)])
  BY DEF HeaderValue
<1>3. "header_value" \in Marks \ {"url"} /\ p \in Nat /\ p =< p
  BY <1>1, MarksBehind DEF Marks
<1>4. CASE CallbackData("header_value", mark["header_value"], p, Goto("header_almost_done"), p, "byte")
  BY <1>1, <1>3, <1>4, ParserHas, LaterStates, QuietData
<1>5. ASSUME NEW l, NEW h,
             NEW q \in {[parser EXCEPT !.length = l], [parser EXCEPT !.hstate = h]}, Step(q)
      PROVE  UrlInv'
  <2>1. q.state = parser.state
    BY ParserHas
  <2> QED
    BY <1>1, <1>5, <2>1, QuietField
<1>6. CASE Step([parser EXCEPT !.length = Grown(10, Digit[ch])])
  <2>1. PICK q : q = [parser EXCEPT !.length = Grown(10, Digit[ch])]
    OBVIOUS
  <2> QED
    BY <1>5, <1>6, <2>1
<1>7. CASE Step([parser EXCEPT !.hstate = SecondHalf(AllValues, parser.hstate, ch)])
  <2>1. PICK q : q = [parser EXCEPT !.hstate = SecondHalf(AllValues, parser.hstate, ch)]
    OBVIOUS
  <2> QED
    BY <1>5, <1>7, <2>1
<1> QED
  BY <1>1, <1>2, <1>3, <1>4, <1>6, <1>7, LaterStates, QuietEnd, QuietStay, QuietError

LEMMA HeaderAlmostDoneUrl == ASSUME WireInv, UrlInv, HeaderAlmostDone PROVE UrlInv'
<1>1. pc = "byte" /\ parser.state = "header_almost_done" /\ Fixed /\ parser.state \in Later
  BY LaterStates DEF HeaderAlmostDone, At
<1>2. Error("STRICT") \/ \E f : Step([Goto("header_value_lws") EXCEPT !.flags = f])
  BY DEF HeaderAlmostDone
<1>3. ASSUME NEW f, Step([Goto("header_value_lws") EXCEPT !.flags = f]) PROVE UrlInv'
  <2>1. [Goto("header_value_lws") EXCEPT !.flags = f].state = "header_value_lws"
    BY ParserHas
  <2> QED
    BY <1>1, <1>3, <2>1, LaterStates, QuietField
<1> QED
  BY <1>1, <1>2, LaterStates, <1>3, QuietError

LEMMA HeaderValueLwsUrl == ASSUME WireInv, UrlInv, HeaderValueLws PROVE UrlInv'
<1>1. pc = "byte" /\ parser.state = "header_value_lws" /\ Fixed /\ parser.state \in Later
  BY LaterStates DEF HeaderValueLws, At
<1>2. \/ Step(Goto("header_value_start"))
      \/ Reexecute(Goto("header_field_start")) /\ NoCallback
  BY DEF HeaderValueLws
<1> QED
  BY <1>1, <1>2, LaterStates, QuietGoto

(* The request is announced with the URL that is kept.                      *)
LEMMA HeadersAlmostDoneUrl == ASSUME WireInv, UrlInv, HeadersAlmostDone PROVE UrlInv'
<1>1. /\ pc = "byte" /\ parser.state = "headers_almost_done" /\ Fixed /\ parser.state \in Later
  BY LaterStates DEF HeadersAlmostDone, At
<1>2. Fine(Bytes, <<ReqEvent>>) /\ Fine(Bytes, Append(got, ReqEvent))
  <2>1. parser.errno = "OK"
    BY <1>1 DEF WireInv, ParserInv, Running
  <2>2. IsUrl(Bytes, request.uri)
    BY <1>1, <2>1 DEF UrlInv, UrlKept
  <2>3. ReqEvent.uri = request.uri
    BY DEF ReqEvent
  <2> QED
    BY <2>2, <2>3, FineAlone, FineAdded DEF UrlInv
<1> DEFINE u == "upgrade" \in parser.flags \/ parser.method = "CONNECT"
           q == [Goto("headers_done") EXCEPT !.upgrade = u]
<1>3. \/ Error("STRICT") \/ MessageComplete(parser)
      \/ /\ p' = p /\ mark' = mark /\ request' = request
         /\ \/ /\ pc' = "byte" /\ parser' = [q EXCEPT !.flags = @ \cup {"skipbody"}]
               /\ op' = op /\ got' = got
            \/ pc' = "byte" /\ parser' = q /\ got' = Append(got, ReqEvent) /\ op' = op
            \/ /\ pc' = "returned" /\ parser' = [q EXCEPT !.errno = "PAUSED"]
               /\ op' = [op EXCEPT !.result = <<ReqEvent>>] /\ got' = got
  BY DEF HeadersAlmostDone
<1>4. {"state", "errno"} \subseteq DOMAIN q /\ q.state = "headers_done"
  BY ParserHas
<1> HIDE DEF q
<1>5. ASSUME p' = p, mark' = mark, request' = request,
             \/ /\ pc' = "byte" /\ parser' = [q EXCEPT !.flags = @ \cup {"skipbody"}]
                /\ op' = op /\ got' = got
             \/ pc' = "byte" /\ parser' = q /\ got' = Append(got, ReqEvent) /\ op' = op
             \/ /\ pc' = "returned" /\ parser' = [q EXCEPT !.errno = "PAUSED"]
                /\ op' = [op EXCEPT !.result = <<ReqEvent>>] /\ got' = got
      PROVE  UrlInv'
  <2>1. /\ "uri" \in DOMAIN request /\ "result" \in DOMAIN op
        /\ Fine(Bytes, got) /\ Fine(Bytes, op.result)
    BY DEF UrlInv
  <2>2. "result" \in DOMAIN op' /\ (op' = op \/ op'.result = <<ReqEvent>>)
    BY <1>5, <2>1
  <2>3. Calm
    BY <1>2, <1>5, <2>1, <2>2 DEF Calm
  <2>4. parser'.state = "headers_done" /\ (pc' = "returned" => parser'.errno # "OK")
    BY <1>4, <1>5
  <2>5. \A m \in Marks : mark'[m] # NULL => mark'[m] \in 0..p'
    BY <1>1, <1>5, MarksBehind
  <2>6. pc' \in {"byte", "returned"}
    BY <1>5
  <2> QED
    BY <1>1, <2>3, <2>4, <2>5, <2>6, LaterStates, Quiet
<1> QED
  BY <1>1, <1>3, <1>5, ParserHas, QuietComplete, QuietError

LEMMA HeadersDoneUrl == ASSUME WireInv, UrlInv, HeadersDone PROVE UrlInv'
<1>1. pc = "byte" /\ parser.state = "headers_done" /\ Fixed /\ parser.state \in Later
  BY LaterStates DEF HeadersDone, At
<1> DEFINE q == [parser EXCEPT !.nread = 0]
<1>2. \/ Error("STRICT") \/ MessageComplete(q)
      \/ \E s \in {"chunk_size_start", "body_identity"} : Step([q EXCEPT !.state = s])
  BY DEF HeadersDone
<1>3. {"state", "errno"} \subseteq DOMAIN q
  BY ParserHas
<1> HIDE DEF q
<1>4. ASSUME NEW s \in {"chunk_size_start", "body_identity"}, Step([q EXCEPT !.state = s])
      PROVE  UrlInv'
  <2>1. [q EXCEPT !.state = s].state = s
    BY <1>3
  <2> QED
    BY <1>1, <1>4, <2>1, LaterStates, QuietField
<1> QED
  BY <1>1, <1>2, <1>3, <1>4, QuietComplete, QuietError

LEMMA BodyIdentityUrl == ASSUME WireInv, UrlInv, BodyIdentity PROVE UrlInv'
<1>1. pc = "byte" /\ parser.state = "body_identity" /\ Fixed /\ parser.state \in Later
  BY LaterStates DEF BodyIdentity, At
<1>2. PICK n : n = ToRead
  OBVIOUS
<1>3. PICK q : q = [parser EXCEPT !.length = parser.length - n]
  OBVIOUS
<1>4. PICK r : r = [q EXCEPT !.state = "message_done"]
  OBVIOUS
<1>5. /\ n \in Nat /\ n # 0 /\ p + n =< Len(data) /\ p \in Nat
  BY <1>1, <1>2, ToReadIs DEF WireInv, ParserInv, Shape, LengthKnown
<1>6. /\ {"state", "errno"} \subseteq DOMAIN r /\ r.state = "message_done"
      /\ q.state = "body_identity"
  BY <1>1, <1>3, <1>4, ParserHas
<1>7. \/ CallbackData("body", p, p + n, r, (p + n) - 1, "byte")
      \/ parser' = q /\ mark' = MarkAt("body") /\ p' = p + n /\ pc' = "loop" /\ NoCallback
  BY <1>2, <1>3, <1>4 DEF BodyIdentity
<1>8. /\ "body" \in Marks \ {"url"} /\ (p + n) - 1 \in Nat /\ p =< (p + n) - 1
      /\ p + n \in Nat /\ p =< p + n
  BY <1>5 DEF Marks
<1>9. CASE CallbackData("body", p, p + n, r, (p + n) - 1, "byte")
  BY <1>1, <1>5, <1>6, <1>8, <1>9, LaterStates, QuietData
<1>10. CASE parser' = q /\ mark' = MarkAt("body") /\ p' = p + n /\ pc' = "loop" /\ NoCallback
  BY <1>1, <1>6, <1>8, <1>10, LaterStates, QuietBegin
<1> QED
  BY <1>7, <1>9, <1>10

LEMMA MessageDoneUrl == ASSUME WireInv, UrlInv, MessageDone PROVE UrlInv'
<1>1. pc = "byte" /\ Fixed /\ MessageComplete(parser)
  BY DEF MessageDone, At
<1> QED
  BY <1>1, ParserHas, QuietComplete

LEMMA ChunkSizeStartUrl == ASSUME WireInv, UrlInv, ChunkSizeStart PROVE UrlInv'
<1>1. pc = "byte" /\ parser.state = "chunk_size_start" /\ Fixed /\ parser.state \in Later
  BY LaterStates DEF ChunkSizeStart, At
<1>2. Error("INVALID_CHUNK_SIZE") \/ Step([Goto("chunk_size") EXCEPT !.length = Unhex[ch]])
  BY DEF ChunkSizeStart
<1>3. ASSUME NEW n, Step([Goto("chunk_size") EXCEPT !.length = n]) PROVE UrlInv'
  <2>1. [Goto("chunk_size") EXCEPT !.length = n].state = "chunk_size"
    BY ParserHas
  <2> QED
    BY <1>1, <1>3, <2>1, LaterStates, QuietField
<1> QED
  BY <1>1, <1>2, LaterStates, <1>3, QuietError

LEMMA ChunkSizeUrl == ASSUME WireInv, UrlInv, ChunkSize PROVE UrlInv'
<1>1. pc = "byte" /\ parser.state = "chunk_size" /\ Fixed /\ parser.state \in Later
  BY LaterStates DEF ChunkSize, At
<1>2. \/ \E s \in {"chunk_parameters", "chunk_size_almost_done"} : Step(Goto(s))
      \/ \E e \in {"INVALID_CONTENT_LENGTH", "INVALID_CHUNK_SIZE"} : Error(e)
      \/ Step([parser EXCEPT !.length = Grown(16, Unhex[ch])])
  <2>1. CASE ch = "CR"
    BY <2>1 DEF ChunkSize
  <2>2. CASE ch \in {";", " "}
    BY <2>2 DEF ChunkSize
  <2>3. CASE ch \notin {"CR", ";", " "}
    BY <2>3 DEF ChunkSize
  <2> QED
    BY <2>1, <2>2, <2>3
<1>3. ASSUME NEW n, Step([parser EXCEPT !.length = n]) PROVE UrlInv'
  <2>1. [parser EXCEPT !.length = n].state = parser.state
    BY ParserHas
  <2> QED
    BY <1>1, <1>3, <2>1, QuietField
<1> QED
  BY <1>1, <1>2, <1>3, LaterStates, QuietGoto, QuietError

LEMMA ChunkParametersUrl == ASSUME WireInv, UrlInv, ChunkParameters PROVE UrlInv'
<1>1. pc = "byte" /\ parser.state = "chunk_parameters" /\ Fixed /\ parser.state \in Later
  BY LaterStates DEF ChunkParameters, At
<1>2. Step(Goto("chunk_size_almost_done")) \/ Step(parser)
  BY DEF ChunkParameters
<1> QED
  BY <1>1, <1>2, LaterStates, QuietGoto, QuietStay

LEMMA ChunkSizeAlmostDoneUrl == ASSUME WireInv, UrlInv, ChunkSizeAlmostDone PROVE UrlInv'
<1>1. pc = "byte" /\ parser.state = "chunk_size_almost_done" /\ Fixed /\ parser.state \in Later
  BY LaterStates DEF ChunkSizeAlmostDone, At
<1>2. \/ Error("STRICT")
      \/ \E f : Step([Goto("header_field_start") EXCEPT !.nread = 0, !.flags = f])
      \/ Step([Goto("chunk_data") EXCEPT !.nread = 0])
  <2>1. PICK f : f = Goto("header_field_start").flags \cup {"trailing"}
    OBVIOUS
  <2> QED
    BY <2>1 DEF ChunkSizeAlmostDone
<1>3. ASSUME NEW f, NEW q \in {[Goto("header_field_start") EXCEPT !.nread = 0, !.flags = f],
                               [Goto("chunk_data") EXCEPT !.nread = 0]}, Step(q)
      PROVE  UrlInv'
  <2>1. q.state \in {"header_field_start", "chunk_data"}
    BY ParserHas
  <2> QED
    BY <1>1, <1>3, <2>1, LaterStates, QuietField
<1> QED
  BY <1>1, <1>2, <1>3, QuietError

LEMMA ChunkDataUrl == ASSUME WireInv, UrlInv, ChunkData PROVE UrlInv'
<1>1. pc = "byte" /\ parser.state = "chunk_data" /\ Fixed /\ parser.state \in Later
  BY LaterStates DEF ChunkData, At
<1>2. PICK n : n = ToRead
  OBVIOUS
<1>3. PICK s : s = IF parser.length = n THEN "chunk_data_almost_done" ELSE parser.state
  OBVIOUS
<1>4. PICK q : q = [parser EXCEPT !.length = parser.length - n, !.state = s]
  OBVIOUS
<1>5. parser' = q /\ mark' = MarkAt("body") /\ p' = p + n /\ pc' = "loop" /\ NoCallback
  BY <1>2, <1>3, <1>4 DEF ChunkData
<1>6. q.state \in {"chunk_data", "chunk_data_almost_done"}
  BY <1>1, <1>3, <1>4, ParserHas
<1>7. "body" \in Marks /\ p + n \in Nat /\ p =< p + n
  BY <1>1, <1>2, ToReadIs DEF Marks, WireInv, ParserInv, Shape
<1> QED
  BY <1>1, <1>5, <1>6, <1>7, LaterStates, QuietBegin

LEMMA ChunkDataAlmostDoneUrl == ASSUME WireInv, UrlInv, ChunkDataAlmostDone PROVE UrlInv'
<1>1. /\ pc = "byte" /\ parser.state = "chunk_data_almost_done" /\ Fixed
      /\ parser.state \in Later
  BY LaterStates DEF ChunkDataAlmostDone, At
<1>2. \/ Error("STRICT") \/ Step(Goto("chunk_data_done"))
      \/ mark["body"] # NULL /\ DataConsume("body", Goto("chunk_data_done"))
  BY DEF ChunkDataAlmostDone
<1>3. "body" \in Marks \ {"url"}
  BY DEF Marks
<1> QED
  BY <1>1, <1>2, <1>3, LaterStates, QuietEnd, QuietGoto, QuietError

LEMMA ChunkDataDoneUrl == ASSUME WireInv, UrlInv, ChunkDataDone PROVE UrlInv'
<1>1. pc = "byte" /\ parser.state = "chunk_data_done" /\ Fixed /\ parser.state \in Later
  BY LaterStates DEF ChunkDataDone, At
<1>2. Error("STRICT") \/ Step([Goto("chunk_size_start") EXCEPT !.nread = 0])
  BY DEF ChunkDataDone
<1>3. [Goto("chunk_size_start") EXCEPT !.nread = 0].state = "chunk_size_start"
  BY ParserHas
<1> QED
  BY <1>1, <1>2, LaterStates, <1>3, QuietField, QuietError

----------------------------------------------------------------------------
(* The URL itself.                                                          *)

(* The byte at hand is the next one of the wire.                            *)
LEMMA Ahead ==
  ASSUME WireInv, UrlInv, pc = "byte"
  PROVE  /\ Offset \in Nat /\ p \in Nat /\ Read = Offset + p /\ Read \in Nat
         /\ Read + 1 \in 1..Len(Bytes) /\ Len(Bytes) \in Nat /\ ch = Bytes[Read + 1]
<1>1. /\ Bytes \in Seq(STRING) /\ Len(Bytes) \in Nat /\ Len(data) \in Nat /\ p \in Nat
      /\ Offset \in Nat /\ Offset + Len(data) =< Len(Bytes)
      /\ data = SubSeq(Bytes, Offset + 1, Offset + Len(data))
  BY Places
<1>2. p < Len(data)
  BY MarksBehind
<1>3. Read = Offset + p
  BY DEF Read
<1>4. PICK o \in Nat, l \in Nat, s \in Seq(STRING) : o = Offset /\ l = o + Len(data) /\ s = Bytes
  <2>1. Offset + Len(data) \in Nat
    BY <1>1
  <2> QED
    BY <1>1, <2>1
<1>5. SubSeq(s, o + 1, l)[p + 1] = s[o + (p + 1)]
  <2>1. o =< l /\ l =< Len(s) /\ p + 1 \in 1..l - o
    BY <1>1, <1>2, <1>4
  <2> QED
    BY <2>1, Piece
<1>6. ch = Bytes[Read + 1]
  <2>1. ch = SubSeq(s, o + 1, l)[p + 1]
    BY <1>1, <1>4 DEF ch
  <2>2. o + (p + 1) = Read + 1
    BY <1>1, <1>3, <1>4
  <2> QED
    BY <1>4, <1>5, <2>1, <2>2
<1> QED
  BY <1>1, <1>2, <1>3, <1>6

(* Taking a byte moves on by one.                                           *)
LEMMA Onward ==
  ASSUME WireInv, UrlInv, pc = "byte", Fixed, p' = p + 1, pc' = "loop"
  PROVE  Bytes' = Bytes /\ Offset' = Offset /\ Read' = Read + 1
<1>1. Bytes' = Bytes /\ Offset' = Offset
  BY DEF Fixed, Bytes, Offset
<1>2. Read' = Offset + (p + 1)
  BY <1>1 DEF Read
<1> QED
  BY <1>1, <1>2, Ahead

(* What the URL holds and the marked bytes of the buffer are one piece.     *)
LEMMA UrlJoined ==
  ASSUME WireInv, UrlInv, pc \in {"loop", "byte"}, parser.state \in UrlStates
  PROVE  \E a \in 1..Read :
           /\ Stretch(Bytes, a, Read)
           /\ request.uri \o SubSeq(data, mark["url"] + 1, p) = SubSeq(Bytes, a + 1, Read)
<1>1. Gathering /\ mark["url"] # NULL
  <2>1. parser.errno = "OK"
    BY DEF WireInv, ParserInv, Running
  <2> QED
    BY <2>1 DEF UrlInv, UrlKept, Gathering
<1>2. PICK a \in 1..Read : /\ Stretch(Bytes, a, Read) /\ UrlRead >= a
                           /\ request.uri = SubSeq(Bytes, a + 1, UrlRead)
  BY <1>1 DEF Gathering
<1>3. PICK m : m = mark["url"]
  OBVIOUS
<1>4. m \in Nat /\ m =< p /\ p \in Nat /\ p =< Len(data)
  BY <1>1, <1>3, MarksBehind DEF Marks
<1>5. /\ Bytes \in Seq(STRING) /\ Len(Bytes) \in Nat /\ Len(data) \in Nat
      /\ Offset \in Nat /\ Offset + Len(data) =< Len(Bytes)
      /\ data = SubSeq(Bytes, Offset + 1, Offset + Len(data))
  BY Places
<1>6. UrlRead = Offset + m /\ Read = Offset + p
  BY <1>3 DEF UrlRead, Read
<1>7. SubSeq(data, m + 1, p) = SubSeq(Bytes, (Offset + m) + 1, Offset + p)
  <2>1. PICK o \in Nat, n \in Nat, s \in Seq(STRING) : o = Offset /\ n = Len(data) /\ s = Bytes
    BY <1>5
  <2>2. SubSeq(SubSeq(s, o + 1, o + n), m + 1, p) = SubSeq(s, (o + m) + 1, o + p)
    BY <1>4, <1>5, <2>1, PieceOfPiece
  <2> QED
    BY <1>5, <2>1, <2>2
<1>8. SubSeq(Bytes, a + 1, UrlRead) \o SubSeq(Bytes, UrlRead + 1, Read) = SubSeq(Bytes, a + 1, Read)
  <2>1. PICK b \in Nat, c \in Nat : b = UrlRead /\ c = Read
    BY <1>4, <1>5, <1>6
  <2>2. a \in Nat /\ a =< b /\ b =< c /\ c =< Len(Bytes)
    BY <1>2, <1>4, <1>5, <1>6, <2>1
  <2> QED
    BY <1>5, <2>1, <2>2, TwoPieces
<1> QED
  BY <1>2, <1>3, <1>6, <1>7, <1>8

(* A request line begins.                                                   *)
LEMMA StartReqUrl == ASSUME WireInv, UrlInv, StartReq PROVE UrlInv'
<1>1. pc = "byte" /\ parser.state = "start_req" /\ Fixed
  BY DEF StartReq, At
<1> DEFINE q == [parser EXCEPT !.flags = {}, !.length = NoLength, !.index = 1,
                               !.method = Initial[ch], !.state = "req_method"]
<1>2. Step(parser) \/ (Consume(q) /\ OnMessageBegin) \/ Error("INVALID_METHOD")
  BY DEF StartReq
<1>3. q.state = "req_method"
  BY ParserHas
<1> HIDE DEF q
<1>4. CASE Consume(q) /\ OnMessageBegin
  <2>1. /\ parser' = q /\ p' = p + 1 /\ pc' = "loop" /\ mark' = mark
        /\ request' = NoRequest /\ op' = [op EXCEPT !.last = "value"] /\ got' = got
    BY <1>4 DEF Consume, OnMessageBegin
  <2>2. \A m \in Marks : mark'[m] # NULL => mark'[m] \in 0..p'
    BY <1>1, <2>1, MarksBehind
  <2>3. /\ "uri" \in DOMAIN request' /\ request'.uri = <<>> /\ "result" \in DOMAIN op'
        /\ Fine(Bytes, got') /\ Fine(Bytes, op'.result)
    BY <2>1 DEF UrlInv, NoRequest
  <2>4. UrlKept'
    <3>1. parser'.state = "req_method" /\ parser'.state \in Early
      BY <1>3, <2>1 DEF Early
    <3>2. parser'.state \notin UrlStates /\ parser'.state \notin Later
      BY <3>1, LaterStates DEF UrlStates
    <3> QED
      BY <2>3, <3>1, <3>2 DEF UrlKept
  <2> QED
    BY <1>1, <2>1, <2>2, <2>3, <2>4, Taken
<1> QED
  BY <1>1, <1>2, <1>4, QuietStay, QuietError

(* Before the URL nothing is kept, and a space precedes it.                 *)
LEMMA EarlyStep ==
  ASSUME WireInv, UrlInv, pc = "byte", Fixed, parser.state \in Early, NEW q, Step(q),
         q.state \in Early, q.state = "req_spaces_before_url" => Bytes[Read + 1] = Blank
  PROVE  UrlInv'
<1>1. parser' = q /\ p' = p + 1 /\ pc' = "loop" /\ mark' = mark /\ NoCallback
  BY DEF Step, Consume
<1>2. \A m \in Marks : mark'[m] # NULL => mark'[m] \in 0..p'
  <2>1. /\ p \in Nat /\ \A m \in Marks : mark[m] # NULL => mark[m] \in 0..p
    BY MarksBehind
  <2> QED
    BY <1>1, <2>1
<1>3. Calm
  BY <1>1, NoCallbackCalm
<1>4. request.uri = <<>>
  <2>1. parser.errno = "OK"
    BY DEF WireInv, ParserInv, Running
  <2> QED
    BY <2>1 DEF UrlInv, UrlKept
<1>5. UrlKept'
  <2>1. parser'.state \in Early /\ parser'.state \notin UrlStates /\ parser'.state \notin Later
    BY <1>1, LaterStates
  <2>2. request'.uri = <<>>
    BY <1>3, <1>4 DEF Calm
  <2>3. parser'.state = "req_spaces_before_url" => Read' >= 1 /\ Bytes'[Read'] = Blank
    <3>1. Bytes' = Bytes /\ Read' = Read + 1 /\ Read \in Nat
      BY <1>1, Onward, Ahead
    <3> QED
      BY <1>1, <3>1
  <2> QED
    BY <2>1, <2>2, <2>3 DEF UrlKept
<1> QED
  BY <1>1, <1>2, <1>3, <1>5, Taken DEF Calm

LEMMA ReqMethodUrl == ASSUME WireInv, UrlInv, ReqMethod PROVE UrlInv'
<1>1. pc = "byte" /\ parser.state = "req_method" /\ Fixed /\ parser.state \in Early
  BY DEF ReqMethod, At, Early
<1>2. \/ ch = " " /\ Step(Goto("req_spaces_before_url"))
      \/ \E method : Step([parser EXCEPT !.index = 2, !.method = method])
      \/ \E e \in {"UNKNOWN", "INVALID_METHOD"} : Error(e)
  BY DEF ReqMethod
<1>3. CASE ch = " " /\ Step(Goto("req_spaces_before_url"))
  <2>1. /\ Goto("req_spaces_before_url").state = "req_spaces_before_url"
        /\ Goto("req_spaces_before_url").state \in Early
    BY ParserHas DEF Early
  <2>2. Bytes[Read + 1] = Blank
    BY <1>1, <1>3, Ahead, Zenon DEF Blank
  <2> QED
    BY <1>1, <1>3, <2>1, <2>2, EarlyStep
<1>4. ASSUME NEW method, Step([parser EXCEPT !.index = 2, !.method = method]) PROVE UrlInv'
  <2>1. PICK q : q = [parser EXCEPT !.index = 2, !.method = method]
    OBVIOUS
  <2>2. q.state = "req_method"
    BY <1>1, <2>1, ParserHas
  <2> QED
    BY <1>1, <1>4, <2>1, <2>2, EarlyStep
<1> QED
  BY <1>1, <1>2, <1>3, <1>4, QuietError

(* A byte that the URL automaton takes is no end of a URL.                  *)
LEMMA UrlByte ==
  ASSUME NEW s, NEW c, NEW connect, UrlNext(s, c, connect) # "dead"
  PROVE  c \notin UrlEnds
<1>1. UrlEnds \cap (UrlChar \cup HostChar \cup {"?", "#"}) = {}
  BY DEF UrlEnds, Blank, UrlChar, HostChar, Alpha, Num, Digit
<1>2. Alpha \subseteq HostChar /\ Num \subseteq HostChar /\ {"/", ":"} \subseteq UrlChar
  BY DEF HostChar, UrlChar
<1>3. c \in UrlChar \cup HostChar \cup {"?", "#"}
  BY <1>2 DEF UrlNext
<1> QED
  BY <1>1, <1>3

(* One byte more belongs to the URL.                                        *)
LEMMA StretchOn ==
  ASSUME NEW bytes, NEW a \in Nat, NEW b \in Nat, a =< b, Stretch(bytes, a, b),
         bytes[b + 1] \notin UrlEnds
  PROVE  Stretch(bytes, a, b + 1)
<1>1. \A i \in a + 1..b + 1 : i \in a + 1..b \/ i = b + 1
  OBVIOUS
<1> QED
  BY <1>1 DEF Stretch

LEMMA UrlCharsUrl ==
  ASSUME WireInv, UrlInv, pc = "byte", Fixed, parser.state \in UrlStates \cup {"req_spaces_before_url"},
         NEW m \in [Marks -> Int], \A x \in Marks : m[x] # NULL => m[x] \in 0..p + 1,
         UrlChars(m), m["url"] # NULL,
         \E a \in 1..Read : /\ Stretch(Bytes, a, Read) /\ Offset + m["url"] >= a
                            /\ request.uri = SubSeq(Bytes, a + 1, Offset + m["url"])
  PROVE  UrlInv'
<1>1. PICK s : s = UrlNext(parser.state, ch, parser.method = "CONNECT")
  OBVIOUS
<1>2. s \in UrlStates \cup {"dead"}
  BY <1>1, UrlNextState, Zenon
<1>3. CASE s = "dead"
  <2>1. /\ parser' = [parser EXCEPT !.state = "dead", !.errno = "INVALID_URL"]
        /\ pc' = "returned" /\ NoCallback
    BY <1>1, <1>3 DEF UrlChars
  <2>2. parser'.errno = "INVALID_URL"
    BY <2>1, ParserHas
  <2> QED
    BY <2>1, <2>2, NoCallbackCalm, Quiet
<1>4. CASE s # "dead"
  <2>1. parser' = Goto(s) /\ p' = p + 1 /\ pc' = "loop" /\ mark' = m /\ NoCallback
    BY <1>1, <1>4 DEF UrlChars
  <2>2. ch \notin UrlEnds
    BY <1>1, <1>4, UrlByte
  <2>3. /\ Bytes' = Bytes /\ Offset' = Offset /\ Read' = Read + 1 /\ Read \in Nat
        /\ ch = Bytes[Read + 1]
    BY <2>1, Onward, Ahead
  <2>4. Calm
    BY <2>1, NoCallbackCalm
  <2>5. Gathering'
    <3>1. PICK a \in 1..Read : /\ Stretch(Bytes, a, Read) /\ Offset + m["url"] >= a
                               /\ request.uri = SubSeq(Bytes, a + 1, Offset + m["url"])
      OBVIOUS
    <3>2. a \in Nat /\ a =< Read /\ a \in 1..Read + 1
      BY <2>3
    <3>3. Stretch(Bytes, a, Read + 1)
      BY <2>2, <2>3, <3>1, <3>2, StretchOn
    <3>4. UrlRead' = Offset + m["url"]
      BY <2>1, <2>3 DEF UrlRead
    <3>5. request'.uri = request.uri
      BY <2>4 DEF Calm
    <3>6. /\ a \in 1..Read' /\ Stretch(Bytes', a, Read') /\ UrlRead' >= a
          /\ request'.uri = SubSeq(Bytes', a + 1, UrlRead')
      BY <2>3, <3>1, <3>2, <3>3, <3>4, <3>5
    <3> QED
      BY <2>1, <3>6 DEF Gathering
  <2>6. UrlKept'
    <3>1. parser'.state = s
      BY <2>1, ParserHas
    <3>2. parser'.state \notin Early /\ parser'.state # "req_spaces_before_url" /\ parser'.state \notin Later
      BY <1>2, <1>4, <3>1, LaterStates DEF Early
    <3> QED
      BY <2>5, <3>2 DEF UrlKept
  <2>7. \A x \in Marks : mark'[x] # NULL => mark'[x] \in 0..p'
    BY <2>1
  <2> QED
    BY <2>1, <2>4, <2>6, <2>7, Taken DEF Calm
<1> QED
  BY <1>3, <1>4

LEMMA SpacesBeforeUrlUrl == ASSUME WireInv, UrlInv, SpacesBeforeUrl PROVE UrlInv'
<1>1. /\ pc = "byte" /\ parser.state = "req_spaces_before_url" /\ Fixed /\ parser.state \in Early
  BY DEF SpacesBeforeUrl, At, Early
<1>2. (ch = " " /\ Step(parser)) \/ UrlChars(MarkAt("url"))
  BY DEF SpacesBeforeUrl
<1>3. CASE ch = " " /\ Step(parser)
  <2>1. Bytes[Read + 1] = Blank
    BY <1>1, <1>3, Ahead, Zenon DEF Blank
  <2> QED
    BY <1>1, <1>3, <2>1, EarlyStep
<1>4. CASE UrlChars(MarkAt("url"))
  <2>1. /\ p \in Nat /\ mark \in [Marks -> Int] /\ \A x \in Marks : mark[x] # NULL => mark[x] \in 0..p
    BY <1>1, MarksBehind
  <2>2. "url" \in Marks /\ mark["url"] = NULL
    BY <1>1 DEF Marks, Marked, WireInv, ParserInv, MarksFit, UrlStates
  <2>3. PICK m : m = MarkAt("url")
    OBVIOUS
  <2>4. m \in [Marks -> Int] /\ m["url"] = p /\ \A x \in Marks : m[x] \in {mark[x], p}
    BY <2>1, <2>2, <2>3 DEF MarkAt
  <2>5. \A x \in Marks : m[x] # NULL => m[x] \in 0..p + 1
    BY <2>1, <2>4
  <2>6. /\ request.uri = <<>> /\ Read >= 1 /\ Bytes[Read] = Blank
    <3>1. parser.errno = "OK"
      BY <1>1 DEF WireInv, ParserInv, Running
    <3> QED
      BY <1>1, <3>1 DEF UrlInv, UrlKept
  <2>7. Read \in Nat /\ Read = Offset + p /\ Bytes \in Seq(STRING)
    BY <1>1, Ahead, Places
  <2>8. /\ Read \in 1..Read /\ Stretch(Bytes, Read, Read) /\ Offset + m["url"] >= Read
        /\ request.uri = SubSeq(Bytes, Read + 1, Offset + m["url"])
    <3>1. Stretch(Bytes, Read, Read)
      <4>1. \A i \in Read + 1..Read : FALSE
        BY <2>7
      <4> QED
        BY <2>6, <4>1 DEF Stretch
    <3>2. PICK r \in Nat, s \in Seq(STRING) : r = Read /\ s = Bytes
      BY <2>7
    <3>3. SubSeq(s, r + 1, r) = <<>>
      OBVIOUS
    <3>4. Offset + m["url"] = Read /\ Read \in 1..Read
      <4>1. m["url"] = p /\ Read = Offset + p /\ Read \in Nat /\ Read >= 1
        BY <2>4, <2>6, <2>7
      <4> QED
        BY <4>1
    <3>5. request.uri = SubSeq(Bytes, Read + 1, Read)
      BY <2>6, <3>2, <3>3
    <3> QED
      BY <2>7, <3>1, <3>4, <3>5
  <2>9. m["url"] # NULL
    BY <2>1, <2>4 DEF NULL
  <2> QED
    BY <1>1, <1>4, <2>3, <2>4, <2>5, <2>8, <2>9, UrlCharsUrl
<1> QED
  BY <1>2, <1>3, <1>4

(* The URL ends: it is joined from what earlier buffers brought and this.   *)
LEMMA UrlUrl == ASSUME WireInv, UrlInv, Url PROVE UrlInv'
<1>1. pc = "byte" /\ parser.state \in UrlStates /\ Fixed
  BY DEF Url, At
<1>2. \/ Error("INVALID_URL") \/ UrlChars(mark)
      \/ \E q : /\ ch \in UrlEnds /\ DataConsume("url", q)
                /\ \/ q = Goto("req_http_start")
                   \/ q = [Goto("req_line_almost_done") EXCEPT !.major = 0, !.minor = 9]
                   \/ q = [Goto("header_field_start") EXCEPT !.major = 0, !.minor = 9]
  <2> DEFINE q == CASE ch = " " -> Goto("req_http_start")
                    [] ch = "CR" -> [Goto("req_line_almost_done") EXCEPT !.major = 0, !.minor = 9]
                    [] ch = "LF" -> [Goto("header_field_start") EXCEPT !.major = 0, !.minor = 9]
  <2>1. Error("INVALID_URL") \/ UrlChars(mark) \/ (ch \in UrlEnds /\ DataConsume("url", q))
    BY DEF Url, UrlEnds, Blank
  <2>2. ch \in UrlEnds =>
          \/ q = Goto("req_http_start")
          \/ q = [Goto("req_line_almost_done") EXCEPT !.major = 0, !.minor = 9]
          \/ q = [Goto("header_field_start") EXCEPT !.major = 0, !.minor = 9]
    BY DEF UrlEnds, Blank
  <2> HIDE DEF q
  <2> QED
    BY <2>1, <2>2
<1>3. /\ p \in Nat /\ mark \in [Marks -> Int] /\ \A x \in Marks : mark[x] # NULL => mark[x] \in 0..p
  BY <1>1, MarksBehind
<1>4. CASE UrlChars(mark)
  <2>1. Gathering /\ mark["url"] # NULL
    <3>1. parser.errno = "OK"
      BY <1>1 DEF WireInv, ParserInv, Running
    <3> QED
      BY <1>1, <3>1 DEF UrlInv, UrlKept, Gathering
  <2>2. UrlRead = Offset + mark["url"]
    BY <1>1 DEF UrlRead
  <2>3. \E a \in 1..Read : /\ Stretch(Bytes, a, Read) /\ Offset + mark["url"] >= a
                           /\ request.uri = SubSeq(Bytes, a + 1, Offset + mark["url"])
    BY <2>1, <2>2 DEF Gathering
  <2>4. \A x \in Marks : mark[x] # NULL => mark[x] \in 0..p + 1
    BY <1>3
  <2> QED
    BY <1>1, <1>3, <1>4, <2>1, <2>3, <2>4, UrlCharsUrl
<1>5. ASSUME NEW q, ch \in UrlEnds, DataConsume("url", q),
             \/ q = Goto("req_http_start")
             \/ q = [Goto("req_line_almost_done") EXCEPT !.major = 0, !.minor = 9]
             \/ q = [Goto("header_field_start") EXCEPT !.major = 0, !.minor = 9]
      PROVE  UrlInv'
  <2>1. q.state \in {"req_http_start", "req_line_almost_done", "header_field_start"}
    BY <1>5, ParserHas
  <2>2. {"state", "errno"} \subseteq DOMAIN q
    BY <1>5, ParserHas
  <2>3. /\ OnData("url", SubSeq(data, mark["url"] + 1, p))
        /\ mark' = [mark EXCEPT !["url"] = NULL] /\ p' = p + 1 /\ pc' = "loop"
        /\ parser' = [q EXCEPT !.errno = q.errno]
    BY <1>5 DEF DataConsume, CallbackData
  <2>4. /\ request' = [request EXCEPT !.uri = request.uri \o SubSeq(data, mark["url"] + 1, p)]
        /\ op' = op /\ got' = got
    BY <2>3 DEF OnData, OnUrl
  <2>5. parser'.state = q.state
    BY <2>2, <2>3
  <2>6. \A x \in Marks : mark'[x] # NULL => mark'[x] \in 0..p'
    <3>1. \A x \in Marks : mark'[x] \in {mark[x], NULL}
      BY <1>3, <2>3
    <3> QED
      BY <1>3, <2>3, <3>1
  <2>7. /\ Bytes' = Bytes /\ Read \in Nat /\ ch = Bytes[Read + 1]
        /\ Read + 1 \in 1..Len(Bytes) /\ Len(Bytes) \in Nat
    BY <1>1, <2>3, Onward, Ahead
  <2>8. /\ "uri" \in DOMAIN request' /\ "result" \in DOMAIN op'
        /\ Fine(Bytes, got') /\ Fine(Bytes, op'.result)
        /\ request'.uri = request.uri \o SubSeq(data, mark["url"] + 1, p)
    BY <2>4 DEF UrlInv
  <2>9. IsUrl(Bytes, request'.uri)
    <3>1. PICK a \in 1..Read :
            /\ Stretch(Bytes, a, Read)
            /\ request.uri \o SubSeq(data, mark["url"] + 1, p) = SubSeq(Bytes, a + 1, Read)
      BY <1>1, UrlJoined
    <3>2. a \in 1..Len(Bytes) /\ Read \in a..Len(Bytes) - 1
      BY <2>7
    <3> QED
      BY <1>5, <2>7, <2>8, <3>1, <3>2 DEF IsUrl
  <2>10. UrlKept'
    <3>1. /\ parser'.state \notin Early /\ parser'.state # "req_spaces_before_url"
          /\ parser'.state \notin UrlStates
      BY <2>1, <2>5, LaterStates DEF Early
    <3>2. IsUrl(Bytes', request'.uri)
      BY <2>7, <2>9
    <3> QED
      BY <3>1, <3>2 DEF UrlKept
  <2> QED
    BY <1>1, <2>3, <2>6, <2>8, <2>10, Taken
<1> QED
  BY <1>1, <1>2, <1>4, <1>5, QuietError

(* All states together.                                                     *)
LEMMA ByteUrl == ASSUME WireInv, UrlInv, Byte PROVE UrlInv'
BY DeadUrl, StartReqUrl, ReqMethodUrl, SpacesBeforeUrlUrl, UrlUrl, HttpStartUrl, HttpUrl,
   MajorUrl, MinorUrl, LineAlmostDoneUrl, HeaderFieldStartUrl, HeaderFieldUrl,
   HeaderValueStartUrl, HeaderValueUrl, HeaderAlmostDoneUrl, HeaderValueLwsUrl,
   HeadersAlmostDoneUrl, HeadersDoneUrl, BodyIdentityUrl, MessageDoneUrl, ChunkSizeStartUrl,
   ChunkSizeUrl, ChunkParametersUrl, ChunkSizeAlmostDoneUrl, ChunkDataUrl,
   ChunkDataAlmostDoneUrl, ChunkDataDoneUrl DEF Byte

----------------------------------------------------------------------------
(* Around the bytes.                                                        *)

(* Steps that neither read a byte nor touch the URL.                        *)
LEMMA KeptSame ==
  ASSUME UrlInv, pc # "over",
         parser'.errno \in {"OK", "PAUSED"} => parser.errno \in {"OK", "PAUSED"},
         parser'.state = parser.state, request'.uri = request.uri,
         Bytes' = Bytes, Read' = Read,
         parser.state \in UrlStates =>
           /\ UrlRead' = UrlRead
           /\ pc' \in {"loop", "byte"} => mark'["url"] # NULL
  PROVE  UrlKept'
<1>1. CASE parser'.errno \notin {"OK", "PAUSED"}
  BY <1>1 DEF UrlKept
<1>2. CASE parser'.errno \in {"OK", "PAUSED"}
  <2>1. /\ parser.state \in Early => request.uri = <<>>
        /\ parser.state = "req_spaces_before_url" => Read >= 1 /\ Bytes[Read] = Blank
        /\ parser.state \in UrlStates => Gathering
        /\ parser.state \in Later => IsUrl(Bytes, request.uri)
    BY <1>2 DEF UrlInv, UrlKept
  <2>2. parser.state \in UrlStates => Gathering'
    BY <2>1 DEF Gathering
  <2> QED
    BY <2>1, <2>2 DEF UrlKept
<1> QED
  BY <1>1, <1>2

LEMMA NextByteUrl == ASSUME WireInv, UrlInv, NextByte PROVE UrlInv'
<1>1. /\ pc = "loop" /\ UNCHANGED <<p, mark>> /\ NoCallback /\ Fixed
  BY DEF NextByte
<1>2. /\ pc' \in {"byte", "returned"} /\ parser'.state = parser.state
      /\ pc' = "byte" => parser'.errno = parser.errno
      /\ pc' = "returned" => parser'.errno = "HEADER_OVERFLOW"
  <2>1. PICK n : n = parser.nread + (IF parser.state \in HeaderStates THEN 1 ELSE 0)
    OBVIOUS
  <2>2. \/ pc' = "returned" /\ parser' = [parser EXCEPT !.nread = n, !.errno = "HEADER_OVERFLOW"]
        \/ pc' = "byte" /\ parser' = [parser EXCEPT !.nread = n]
    BY <2>1 DEF NextByte
  <2> QED
    BY <2>2, ParserHas
<1>3. Bytes' = Bytes /\ Offset' = Offset
  BY <1>1 DEF Fixed, Bytes, Offset
<1>4. Read' = Read
  BY <1>1, <1>2, <1>3 DEF Read
<1>5. UrlKept'
  <2>1. CASE pc' = "returned"
    BY <1>2, <2>1 DEF UrlKept
  <2>2. CASE pc' = "byte"
    <3>1. UrlRead' = UrlRead
      BY <1>1, <1>3, <2>2 DEF UrlRead
    <3>2. parser.errno = "OK"
      BY <1>1 DEF WireInv, ParserInv, Running
    <3>3. parser.state \in UrlStates => mark'["url"] # NULL
      BY <1>1, <3>2 DEF UrlInv, UrlKept, Gathering
    <3>4. request'.uri = request.uri
      BY <1>1 DEF NoCallback
    <3> QED
      BY <1>1, <1>2, <1>3, <1>4, <2>2, <3>1, <3>2, <3>3, <3>4, KeptSame
  <2> QED
    BY <1>2, <2>1, <2>2
<1>6. \A m \in Marks : mark'[m] # NULL => mark'[m] \in 0..p'
  BY <1>1, MarksBehind
<1>7. Calm
  BY <1>1, NoCallbackCalm
<1> QED
  BY <1>1, <1>2, <1>5, <1>6, <1>7, Taken DEF Calm

(* The buffer is used up in the middle of the URL: its part is kept.        *)
LEMMA UrlLeft ==
  ASSUME WireInv, UrlInv, pc = "loop", p = Len(data), Fixed, parser.state \in UrlStates,
         CallbackData("url", mark["url"], p, parser, p, "returned")
  PROVE  UrlInv'
<1>1. /\ request' = [request EXCEPT !.uri = request.uri \o SubSeq(data, mark["url"] + 1, p)]
      /\ op' = op /\ got' = got /\ p' = p /\ pc' = "returned"
      /\ parser' = [parser EXCEPT !.errno = parser.errno]
  BY DEF CallbackData, OnData, OnUrl
<1>2. /\ "uri" \in DOMAIN request' /\ "result" \in DOMAIN op'
      /\ Fine(Bytes, got') /\ Fine(Bytes, op'.result)
      /\ request'.uri = request.uri \o SubSeq(data, mark["url"] + 1, p)
  BY <1>1 DEF UrlInv
<1>3. parser'.state = parser.state
  BY <1>1, ParserHas
<1>4. Bytes' = Bytes /\ Offset' = Offset
  BY DEF Fixed, Bytes, Offset
<1>5. Read' = Read /\ UrlRead' = Read
  BY <1>1, <1>4 DEF Read, UrlRead
<1>6. Gathering'
  <2>1. PICK a \in 1..Read :
          /\ Stretch(Bytes, a, Read)
          /\ request.uri \o SubSeq(data, mark["url"] + 1, p) = SubSeq(Bytes, a + 1, Read)
    BY UrlJoined
  <2>2. Read \in Nat /\ Read >= a
    <3>1. Offset \in Nat /\ p \in Nat /\ Read = Offset + p
      BY Places DEF Read
    <3> QED
      BY <3>1
  <2>3. /\ Stretch(Bytes', a, Read') /\ UrlRead' >= a /\ a \in 1..Read'
        /\ request'.uri = SubSeq(Bytes', a + 1, UrlRead')
    BY <1>2, <1>4, <1>5, <2>1, <2>2
  <2> QED
    BY <1>1, <2>3 DEF Gathering
<1>7. UrlKept'
  <2>1. /\ parser'.state \notin Early /\ parser'.state # "req_spaces_before_url"
        /\ parser'.state \notin Later
    BY <1>3, LaterStates DEF Early
  <2> QED
    BY <1>6, <2>1 DEF UrlKept
<1>8. p' = Len(data)
  BY <1>1
<1> QED
  BY <1>1, <1>2, <1>7, <1>8, Taken

LEMMA LeftoverUrl == ASSUME WireInv, UrlInv, Leftover PROVE UrlInv'
<1>1. pc = "loop" /\ p = Len(data) /\ Fixed /\ parser.errno = "OK"
  BY DEF Leftover, WireInv, ParserInv, Running
<1>2. /\ Bytes' = Bytes /\ Offset' = Offset
      /\ Read = Offset + p
  BY <1>1 DEF Fixed, Bytes, Offset, Read
<1>3. \A m \in Marks : mark[m] # NULL => parser.state \in Marked[m]
  BY <1>1 DEF WireInv, ParserInv, MarksFit
<1>4. parser.state \in UrlStates => mark["url"] # NULL
  BY <1>1 DEF UrlInv, UrlKept, Gathering
<1>5. ASSUME p' = p, pc' = "returned", parser'.state = parser.state, Calm, parser.state \notin UrlStates
      PROVE  UrlInv'
  <2>1. Read' = Read
    BY <1>2, <1>5 DEF Read
  <2>2. request'.uri = request.uri
    BY <1>5 DEF Calm
  <2>3. UrlKept'
    BY <1>1, <1>2, <1>5, <2>1, <2>2, KeptSame
  <2>4. pc' = "returned" /\ p' = Len(data)
    BY <1>1, <1>5
  <2> QED
    BY <1>1, <1>5, <2>3, <2>4, Taken DEF Calm
<1>6. ASSUME NEW m \in Marks, mark[m] # NULL, CallbackData(m, mark[m], p, parser, p, "returned")
      PROVE  UrlInv'
  <2>1. CASE m = "url"
    <3>1. parser.state \in UrlStates
      BY <1>3, <1>6, <2>1 DEF Marked
    <3> QED
      BY <1>1, <1>6, <2>1, <3>1, UrlLeft
  <2>2. CASE m # "url"
    <3>1. parser.state \notin UrlStates
      BY <1>3, <1>6, <2>2 DEF Marks, Marked, UrlStates
    <3>2. /\ OnData(m, SubSeq(data, mark[m] + 1, p)) /\ p' = p /\ pc' = "returned"
          /\ \E e : parser' = [parser EXCEPT !.errno = e]
      BY <1>6 DEF CallbackData
    <3>3. mark[m] \in Nat /\ mark[m] =< p /\ p \in Nat /\ p =< Len(data)
      BY <1>1, <1>6, MarksBehind
    <3>4. SubSeq(data, mark[m] + 1, p) \in Seq(STRING)
      BY <3>3, PartOfData
    <3>5. Calm
      BY <2>2, <3>2, <3>4, OtherData
    <3>6. parser'.state = parser.state
      BY <3>2, ParserHas
    <3> QED
      BY <1>5, <3>1, <3>2, <3>5, <3>6
  <2> QED
    BY <2>1, <2>2
<1>7. ASSUME \A m \in Marks : mark[m] = NULL, pc' = "returned", UNCHANGED <<parser, p, mark>>, NoCallback
      PROVE  UrlInv'
  <2>1. parser.state \notin UrlStates
    BY <1>4, <1>7 DEF Marks
  <2>2. Calm
    BY <1>7, NoCallbackCalm
  <2> QED
    BY <1>5, <1>7, <2>1, <2>2
<1> QED
  BY <1>6, <1>7 DEF Leftover

(* Nothing is read, and what is behind the buffer comes next.               *)
LEMMA AsynReceiveRequestUrl == ASSUME WireInv, UrlInv, AsynReceiveRequest PROVE UrlInv'
<1>1. /\ pc = "idle" /\ op' = [last |-> "unset", complete |-> FALSE, result |-> <<>>]
      /\ wire' = wire /\ sent' = sent /\ request' = request /\ got' = got
      /\ parser.errno \in {"OK", "PAUSED"}
  BY DEF AsynReceiveRequest, UrlInv, Pausing
<1>2. /\ Bytes' = Bytes /\ data' = data /\ Offset' = Offset
      /\ \/ /\ pc' = "recv" /\ data = <<>> /\ UNCHANGED <<p, mark, parser>>
         \/ /\ pc' = "loop" /\ p' = 0 /\ parser' = [parser EXCEPT !.errno = "OK"]
            /\ mark' = [m \in Marks |-> IF \/ m = parser.state
                                           \/ m = "url" /\ parser.state \in UrlStates
                                        THEN 0 ELSE NULL]
  BY <1>1 DEF AsynReceiveRequest, Execute, Bytes, Offset
<1>3. Offset \in Nat /\ Read = Offset /\ UrlRead = Offset
  <2>1. Offset \in Nat
    BY Places
  <2>2. Read = Offset + 0
    BY <1>1 DEF Read
  <2> QED
    BY <1>1, <2>1, <2>2 DEF UrlRead
<1>4. "result" \in DOMAIN op' /\ Fine(Bytes, op'.result) /\ Fine(Bytes, got') /\ "uri" \in DOMAIN request'
  <2>1. Fine(Bytes, <<>>)
    <3>1. <<>> \in Seq({}) /\ Len(<<>>) = 0
      OBVIOUS
    <3> QED
      BY <3>1 DEF Fine, AllUrls
  <2> QED
    BY <1>1, <2>1 DEF UrlInv
<1>5. NothingSkipped'
  BY <1>1, <1>2 DEF UrlInv, NothingSkipped
<1>6. parser'.state = parser.state /\ parser'.errno \in {"OK", "PAUSED"}
  BY <1>1, <1>2, ParserHas
<1>7. Pausing'
  <2>1. pc' = "loop" => \A m \in Marks : mark'[m] # NULL => mark'[m] \in 0..p'
    BY <1>2
  <2> QED
    BY <1>2, <1>6, <2>1 DEF Pausing
<1>8. Read' = Read
  <2>1. CASE pc' = "recv"
    <3>1. Read' = Offset + 0
      BY <1>2, <2>1 DEF Read
    <3> QED
      BY <1>3, <3>1
  <2>2. CASE pc' = "loop"
    <3>1. Read' = Offset + 0
      BY <1>2, <2>2 DEF Read
    <3> QED
      BY <1>3, <3>1
  <2> QED
    BY <1>2, <2>1, <2>2
<1>9. parser.state \in UrlStates => UrlRead' = UrlRead /\ (pc' \in {"loop", "byte"} => mark'["url"] # NULL)
  <2>1. CASE pc' = "recv"
    BY <1>3, <1>8, <2>1 DEF UrlRead
  <2>2. CASE pc' = "loop"
    <3>1. parser.state \in UrlStates => mark'["url"] = 0
      BY <1>2, <2>2 DEF Marks
    <3>2. UrlRead' = Offset + mark'["url"]
      BY <1>2, <2>2 DEF UrlRead
    <3> QED
      BY <1>3, <3>1, <3>2 DEF NULL
  <2> QED
    BY <1>2, <2>1, <2>2
<1>10. UrlKept'
  BY <1>1, <1>2, <1>6, <1>8, <1>9, KeptSame
<1>11. Fine(Bytes, got)' /\ Fine(Bytes, op.result)'
  BY <1>2, <1>4
<1> QED
  BY <1>4, <1>5, <1>7, <1>10, <1>11 DEF UrlInv

LEMMA ReceiveUrl == ASSUME WireInv, UrlInv, Receive PROVE UrlInv'
<1>1. /\ pc = "recv" /\ wire' = wire /\ op' = op /\ request' = request /\ got' = got
      /\ parser.errno \in {"OK", "PAUSED"}
  BY DEF Receive, UrlInv, Pausing
<1>2. PICK n \in Cuts : /\ sent + n =< Len(Bytes) /\ Execute(SubSeq(Bytes, sent + 1, sent + n))
                        /\ sent' = sent + n
  BY DEF Receive, Bytes
<1>3. /\ pc' = "loop" /\ p' = 0 /\ parser' = [parser EXCEPT !.errno = "OK"]
      /\ data' = SubSeq(Bytes, sent + 1, sent + n)
      /\ mark' = [m \in Marks |-> IF \/ m = parser.state
                                     \/ m = "url" /\ parser.state \in UrlStates
                                  THEN 0 ELSE NULL]
  BY <1>2 DEF Execute
<1>4. /\ n \in Nat /\ sent \in Nat /\ Bytes \in Seq(STRING) /\ Bytes' = Bytes
      /\ Len(data) \in Nat /\ Offset \in Nat /\ sent = Offset + Len(data) /\ sent + n \in Nat
  <2>1. n \in Nat
    BY SizesAssumption
  <2> QED
    BY <1>1, <2>1, Places DEF Bytes
<1>5. Len(data') = n
  <2>1. PICK s \in Seq(STRING), a \in Nat, b \in Nat : s = Bytes /\ a = sent /\ b = sent + n
    BY <1>4
  <2>2. Len(SubSeq(s, a + 1, b)) = b - a
    BY <1>2, <1>4, <2>1, Piece
  <2>3. data' = SubSeq(s, a + 1, b) /\ b - a = n
    <3>1. data' = SubSeq(Bytes, sent + 1, sent + n)
      BY <1>3
    <3>2. b - a = n
      BY <1>4, <2>1
    <3> QED
      BY <2>1, <3>1, <3>2
  <2> QED
    BY <2>2, <2>3
<1>6. Offset' = sent
  BY <1>2, <1>4, <1>5 DEF Offset
<1>7. NothingSkipped'
  <2>1. /\ sent' =< Len(Bytes') /\ Len(data') =< sent' /\ sent' - Len(data') = sent
    BY <1>2, <1>4, <1>5
  <2>2. data' = SubSeq(Bytes', sent' - Len(data') + 1, sent')
    BY <1>2, <1>3, <1>4, <2>1
  <2> QED
    BY <1>3, <2>1, <2>2 DEF NothingSkipped
<1>8. Read = sent /\ UrlRead = sent /\ Read' = sent
  <2>1. Read = Offset + Len(data) /\ UrlRead = Read
    BY <1>1 DEF Read, UrlRead
  <2>2. Read' = sent + 0
    BY <1>3, <1>6 DEF Read
  <2> QED
    BY <1>4, <2>1, <2>2
<1>9. parser.state \in UrlStates => UrlRead' = UrlRead /\ mark'["url"] # NULL
  <2>1. parser.state \in UrlStates => mark'["url"] = 0
    BY <1>3 DEF Marks
  <2>2. UrlRead' = sent + mark'["url"]
    BY <1>3, <1>6 DEF UrlRead
  <2> QED
    BY <1>4, <1>8, <2>1, <2>2 DEF NULL
<1>10. parser'.state = parser.state
  BY <1>3, ParserHas
<1>11. UrlKept'
  BY <1>1, <1>4, <1>8, <1>9, <1>10, KeptSame
<1>12. Pausing'
  <2>1. \A m \in Marks : mark'[m] # NULL => mark'[m] \in 0..p'
    BY <1>3
  <2> QED
    BY <1>3, <2>1 DEF Pausing
<1>13. Fine(Bytes, got)' /\ Fine(Bytes, op.result)' /\ "uri" \in DOMAIN request' /\ "result" \in DOMAIN op'
  BY <1>1, <1>4 DEF UrlInv
<1> QED
  BY <1>7, <1>11, <1>12, <1>13 DEF UrlInv

LEMMA ReceiveEofUrl == ASSUME WireInv, UrlInv, ReceiveEof PROVE UrlInv'
<1>1. /\ got' = Append(got, ErrEvent("EOF")) /\ pc' = "over" /\ Bytes' = Bytes
      /\ UNCHANGED <<sent, data, op, request>>
  BY DEF ReceiveEof, Bytes
<1>2. Fine(Bytes, got')
  <2>1. ErrEvent("EOF").type # "req"
    BY DEF ErrEvent
  <2> QED
    BY <1>1, <2>1, FineAdded DEF UrlInv
<1>3. NothingSkipped'
  BY <1>1 DEF UrlInv, NothingSkipped
<1>4. Pausing' /\ UrlKept'
  BY <1>1 DEF Pausing, UrlKept
<1>5. Fine(Bytes, got)' /\ Fine(Bytes, op.result)' /\ "uri" \in DOMAIN request' /\ "result" \in DOMAIN op'
  BY <1>1, <1>2 DEF UrlInv
<1> QED
  BY <1>3, <1>4, <1>5 DEF UrlInv

(* The bytes that are not read stay in the buffer.                          *)
LEMMA ReturnedUrl == ASSUME WireInv, UrlInv, Returned PROVE UrlInv'
<1> DEFINE err == IF parser.upgrade THEN "UNKNOWN" ELSE parser.errno
<1>1. /\ pc = "returned" /\ UNCHANGED <<sent, p, mark, parser, op, request>> /\ Bytes' = Bytes
      /\ \/ /\ got' = Append(got, ErrEvent(err)) /\ pc' = "over" /\ data' = data
         \/ err \in {"OK", "PAUSED"} /\ got' = got \o op.result /\ data' = Remain /\ pc' = "idle"
         \/ err = "OK" /\ got' = got /\ data' = data /\ pc' = "recv"
  BY DEF Returned, Bytes
<1>2. /\ err \in {"OK", "PAUSED"} => parser.errno \in {"OK", "PAUSED"}
      /\ err = "OK" => parser.errno = "OK"
  OBVIOUS
<1> HIDE DEF err
<1>3. /\ Bytes \in Seq(STRING) /\ Len(Bytes) \in Nat /\ data \in Seq(STRING)
      /\ Len(data) \in Nat /\ sent \in Nat /\ p \in Nat /\ Offset \in Nat
      /\ sent = Offset + Len(data) /\ Offset + Len(data) =< Len(Bytes)
      /\ data = SubSeq(Bytes, Offset + 1, Offset + Len(data))
  BY Places
<1>4. p =< Len(data) /\ Read = Offset + p /\ UrlRead = Read
  BY <1>1 DEF WireInv, ParserInv, Shape, Read, UrlRead
<1>5. /\ "uri" \in DOMAIN request /\ "result" \in DOMAIN op
      /\ Fine(Bytes, got) /\ Fine(Bytes, op.result) /\ NothingSkipped
  BY DEF UrlInv
<1>6. CASE got' = Append(got, ErrEvent(err)) /\ pc' = "over" /\ data' = data
  <2>1. ErrEvent(err).type # "req"
    BY DEF ErrEvent
  <2>2. Fine(Bytes, got')
    BY <1>5, <1>6, <2>1, FineAdded
  <2>3. NothingSkipped' /\ Pausing' /\ UrlKept'
    BY <1>1, <1>5, <1>6 DEF NothingSkipped, Pausing, UrlKept
  <2>4. Fine(Bytes, got)' /\ Fine(Bytes, op.result)' /\ "uri" \in DOMAIN request' /\ "result" \in DOMAIN op'
    BY <1>1, <1>5, <2>2
  <2> QED
    BY <2>3, <2>4 DEF UrlInv
<1>7. CASE err \in {"OK", "PAUSED"} /\ got' = got \o op.result /\ data' = Remain /\ pc' = "idle"
  <2>1. PICK o \in Nat, n \in Nat, i \in Nat, s \in Seq(STRING) :
          o = Offset /\ n = Len(data) /\ i = p /\ s = Bytes
    BY <1>3
  <2>2. o + n =< Len(s) /\ i =< n /\ n =< n
    BY <1>3, <1>4, <2>1
  <2>3. data' = SubSeq(s, (o + i) + 1, o + n)
    <3>1. data' = SubSeq(SubSeq(s, o + 1, o + n), i + 1, n)
      BY <1>3, <1>7, <2>1 DEF Remain
    <3> QED
      BY <2>2, <3>1, PieceOfPiece
  <2>4. Len(data') = n - i
    <3>1. PICK a \in Nat, b \in Nat : a = o + i /\ b = o + n
      <4>1. o + i \in Nat /\ o + n \in Nat
        BY <2>1
      <4> QED
        BY <4>1
    <3>2. Len(SubSeq(s, a + 1, b)) = b - a
      BY <2>2, <3>1, Piece
    <3> QED
      BY <2>3, <3>1, <3>2
  <2>5. sent = o + n /\ sent' = sent
    BY <1>1, <1>3, <2>1
  <2>6. Offset' = o + i
    BY <2>2, <2>4, <2>5 DEF Offset
  <2>7. NothingSkipped'
    <3>1. /\ sent' =< Len(Bytes') /\ Len(data') =< sent' /\ sent' - Len(data') = o + i
      BY <1>1, <2>1, <2>2, <2>4, <2>5
    <3>2. data' = SubSeq(Bytes', sent' - Len(data') + 1, sent')
      BY <1>1, <2>1, <2>3, <2>5, <3>1
    <3> QED
      BY <1>7, <3>1, <3>2 DEF NothingSkipped
  <2>8. Read' = Read /\ UrlRead' = UrlRead
    <3>1. Read' = Offset' + 0 /\ UrlRead' = Read'
      BY <1>7 DEF Read, UrlRead
    <3> QED
      BY <1>4, <2>1, <2>6, <3>1
  <2>9. UrlKept'
    BY <1>1, <1>7, <2>8, KeptSame
  <2>10. Pausing'
    BY <1>1, <1>2, <1>7 DEF Pausing
  <2>11. Fine(Bytes, got)' /\ Fine(Bytes, op.result)' /\ "uri" \in DOMAIN request' /\ "result" \in DOMAIN op'
    <3>1. Fine(Bytes, got \o op.result)
      BY <1>5, FineJoined
    <3> QED
      BY <1>1, <1>5, <1>7, <3>1
  <2> QED
    BY <2>7, <2>9, <2>10, <2>11 DEF UrlInv
<1>8. CASE err = "OK" /\ got' = got /\ data' = data /\ pc' = "recv"
  <2>1. parser.errno = "OK" /\ p = Len(data)
    BY <1>1, <1>2, <1>8 DEF UrlInv, Pausing
  <2>2. NothingSkipped'
    BY <1>1, <1>5, <1>8, <2>1 DEF NothingSkipped
  <2>3. Offset' = Offset
    BY <1>1, <1>8 DEF Offset
  <2>4. Read' = Read /\ UrlRead' = UrlRead
    <3>1. Read' = Offset + Len(data) /\ UrlRead' = Read'
      BY <1>8, <2>3 DEF Read, UrlRead
    <3> QED
      BY <1>4, <2>1, <3>1
  <2>5. UrlKept'
    BY <1>1, <1>8, <2>4, KeptSame
  <2>6. Pausing'
    BY <1>1, <1>8, <2>1 DEF Pausing
  <2>7. Fine(Bytes, got)' /\ Fine(Bytes, op.result)' /\ "uri" \in DOMAIN request' /\ "result" \in DOMAIN op'
    BY <1>1, <1>5, <1>8
  <2> QED
    BY <2>2, <2>5, <2>6, <2>7 DEF UrlInv
<1> QED
  BY <1>1, <1>6, <1>7, <1>8

(* Nothing else changes any of it.                                          *)
LEMMA UrlStutters == ASSUME UrlInv, UNCHANGED vars PROVE UrlInv'
<1>1. UNCHANGED <<wire, sent, pc, data, p, mark, parser, op, request, got>>
  BY DEF vars
<1>2. Bytes' = Bytes /\ Read' = Read /\ UrlRead' = UrlRead
  BY <1>1 DEF Bytes, Read, UrlRead, Offset
<1>3. NothingSkipped' /\ Pausing'
  BY <1>1, <1>2 DEF UrlInv, NothingSkipped, Pausing
<1>4. UrlKept'
  BY <1>1, <1>2 DEF UrlInv, UrlKept, Gathering
<1>5. Fine(Bytes, got)' /\ Fine(Bytes, op.result)' /\ "uri" \in DOMAIN request' /\ "result" \in DOMAIN op'
  BY <1>1, <1>2 DEF UrlInv
<1> QED
  BY <1>3, <1>4, <1>5 DEF UrlInv

LEMMA UrlStays == WireInv /\ UrlInv /\ [Next]_vars => UrlInv'
<1> SUFFICES ASSUME WireInv, UrlInv, [Next]_vars PROVE UrlInv'
  OBVIOUS
<1>1. CASE AsynReceiveRequest \/ Receive \/ ReceiveEof
  BY <1>1, AsynReceiveRequestUrl, ReceiveUrl, ReceiveEofUrl
<1>2. CASE NextByte \/ Byte \/ Leftover \/ Returned
  BY <1>2, NextByteUrl, ByteUrl, LeftoverUrl, ReturnedUrl
<1>3. CASE Over \/ UNCHANGED vars
  BY <1>3, UrlStutters DEF Over
<1> QED
  BY <1>1, <1>2, <1>3 DEF Next

LEMMA UrlInit == Init => UrlInv
<1> SUFFICES ASSUME Init PROVE UrlInv
  OBVIOUS
<1>1. /\ sent = 0 /\ pc = "idle" /\ data = <<>> /\ parser.state = "start_req" /\ parser.errno = "OK"
      /\ op.result = <<>> /\ "result" \in DOMAIN op /\ "uri" \in DOMAIN request /\ got = <<>>
  BY DEF Init, NewParser, NoRequest
<1>2. NothingSkipped
  <2>1. PICK s \in Seq(STRING) : s = Bytes
    BY WiresAssumption DEF Init, Bytes
  <2>2. SubSeq(s, 1, 0) = <<>> /\ Len(s) \in Nat /\ Len(<<>>) = 0
    OBVIOUS
  <2> QED
    BY <1>1, <2>1, <2>2 DEF NothingSkipped
<1>3. UrlKept
  BY <1>1, LaterStates DEF UrlKept, Early
<1>4. Fine(Bytes, <<>>)
  <2>1. <<>> \in Seq({}) /\ Len(<<>>) = 0
    OBVIOUS
  <2> QED
    BY <2>1 DEF Fine, AllUrls
<1> QED
  BY <1>1, <1>2, <1>3, <1>4 DEF UrlInv, Pausing

LEMMA UrlInvariant == Spec => []UrlInv
<1>1. Init => UrlInv
  BY UrlInit
<1>2. WireInv /\ UrlInv /\ [Next]_vars => UrlInv'
  BY UrlStays
<1> QED
  BY <1>1, <1>2, WireInvariant, PTL DEF Spec

(* The URL of every request the program is given is a run of the peer's     *)
(* bytes, from a space to the next space or line end, whatever the bytes    *)
(* and however the stream cuts them (url_mark, s_req_* in http_parser.c and *)
(* on_url of http_socket.cpp, which joins the pieces).                      *)
THEOREM UrlIsWholeCorrect == Spec => []UrlIsWhole
<1>1. UrlInv => UrlIsWhole
  BY DEF UrlInv, Fine, UrlIsWhole
<1> QED
  BY <1>1, UrlInvariant, PTL

(* The buffer is always the end of what the stream has delivered, and the   *)
(* stream is asked for more only when every byte of it is read: the bytes a *)
(* pause leaves over (http_socket.cpp:64-76) are neither lost nor repeated. *)
THEOREM NothingSkippedCorrect == Spec => []NothingSkipped
<1>1. UrlInv => NothingSkipped
  BY DEF UrlInv
<1> QED
  BY <1>1, UrlInvariant, PTL

=============================================================================
