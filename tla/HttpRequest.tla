---------------------------- MODULE HttpRequest ----------------------------
(***************************************************************************)
(* iocp::http_socket receives one HTTP request after another from a        *)
(* stream: asyn_receive_request (src/http_socket.cpp) hands every buffer   *)
(* the stream fills to http_parser_execute (src/http_parser.c), whose      *)
(* callbacks collect the request and report it to the program.             *)
(*                                                                         *)
(* A wire is a sequence of symbols; a symbol stands for a byte, or for a   *)
(* run of bytes the parser treats alike ("TTP/", half of a header name).   *)
(* The stream cuts the wire wherever it likes.  Continuous mode calls the  *)
(* program from inside the parser; the other mode pauses the parser after  *)
(* each piece, and the program comes back with the bytes left over.        *)
(***************************************************************************)
EXTENDS Integers, Sequences, SequencesExt, FiniteSetsExt

CONSTANTS
  Wires,      \* inputs: bytes, and the event sequences due in either mode
  Cuts,       \* how many symbols one receive may bring
  MaxHeader,  \* HTTP_MAX_HEADER_SIZE, in symbols
  LengthMod   \* 2^64, the range of content_length

ASSUME WiresAssumption ==
  \A w \in DOMAIN Wires : Wires[w].bytes \in Seq(STRING) /\ Len(Wires[w].bytes) > 0
ASSUME SizesAssumption == /\ Cuts \subseteq Nat \ {0}
                          /\ MaxHeader \in Nat /\ LengthMod \in Nat /\ LengthMod > 16

VARIABLES
  wire,        \* which of Wires the peer sends
  continuous,  \* the argument of asyn_receive_request
  sent,        \* symbols of the wire the stream has delivered
  pc,          \* "idle", "recv", "loop", "byte", "returned" or "over"
  data, p,     \* the buffer given to http_parser_execute; symbols before p are read
  mark,        \* the four marks, local to http_parser_execute
  parser,      \* struct http_parser
  op,          \* http_request_op
  request,     \* http::request of the program
  got          \* the events the program has been given

vars == <<wire, continuous, sent, pc, data, p, mark, parser, op, request, got>>

NULL == -1
NoLength == LengthMod - 1                                \* ULLONG_MAX
Marks == {"url", "header_field", "header_value", "body"}

Alpha == {"a"}
Digit == [d \in {"0", "1", "2", "5", "9", "99999"} |->
            CASE d = "0" -> 0 [] d = "1" -> 1 [] d = "2" -> 2 [] d = "5" -> 5
              [] d = "9" -> 9 [] OTHER -> 99999]
Num == DOMAIN Digit
UrlChar == Alpha \cup Num \cup {"/", ":"}
HostChar == Alpha \cup Num
Token == {"con", "nection", "content", "-length", "transfer", "-encoding",
          "up", "grade", "n1", "n2"}
Unhex == [h \in {"0", "1", "2", "5", "a"} |-> IF h = "a" THEN 10 ELSE Digit[h]]

(* Two halves of a header name or value and the header_state they lead to;  *)
(* after the first half the header_state is that half.                      *)
Names == {<<"con", "nection", "connection">>, <<"content", "-length", "content_length">>,
          <<"transfer", "-encoding", "transfer_encoding">>, <<"up", "grade", "upgrade">>}
Values == [transfer_encoding |-> {<<"chun", "ked", "chunked">>},
           connection |-> {<<"keep", "-alive", "keep_alive">>, <<"clo", "se", "close">>}]
AllValues == Values.transfer_encoding \cup Values.connection

FirstHalf(words, ch) == IF \E w \in words : w[1] = ch THEN ch ELSE "general"
SecondHalf(words, half, ch) ==
  IF \E w \in words : w[1] = half /\ w[2] = ch
  THEN (CHOOSE w \in words : w[1] = half /\ w[2] = ch)[3]
  ELSE "general"

----------------------------------------------------------------------------
UrlStates == {"req_schema", "req_schema_slash", "req_schema_slash_slash",
              "req_schema_slash_slash_end", "req_host", "req_port_start", "req_port",
              "req_path", "req_query_string_start", "req_query_string",
              "req_fragment_start", "req_fragment"}

(* parse_url_char: where the URL automaton goes, "dead" when it refuses.    *)
UrlNext(s, ch, connect) ==
  CASE s = "req_spaces_before_url" /\ ch = "/" -> "req_path"
    [] s = "req_spaces_before_url" /\ connect /\ ch \in HostChar -> "req_host"
    [] s = "req_spaces_before_url" /\ ~connect /\ ch \in Alpha -> "req_schema"
    [] s = "req_schema" /\ ch \in Alpha -> s
    [] s = "req_schema" /\ ch = ":" -> "req_schema_slash"
    [] s = "req_schema_slash" /\ ch = "/" -> "req_schema_slash_slash"
    [] s = "req_schema_slash_slash" /\ ch = "/" -> "req_schema_slash_slash_end"
    [] s \in {"req_schema_slash_slash_end", "req_host"} /\ ch \in HostChar -> "req_host"
    [] s \in {"req_schema_slash_slash_end", "req_host"} /\ ch = ":" -> "req_port_start"
    [] s \in {"req_port_start", "req_port"} /\ ch \in Num -> "req_port"
    [] s \in {"req_schema_slash_slash_end", "req_host", "req_port_start", "req_port"}
         /\ ch = "/" -> "req_path"
    [] s \in {"req_schema_slash_slash_end", "req_host", "req_port_start", "req_port",
              "req_path"} /\ ch = "?" -> "req_query_string_start"
    [] s = "req_path" /\ ch \in UrlChar -> s
    [] s \in {"req_path", "req_query_string_start", "req_query_string"} /\ ch = "#" ->
         "req_fragment_start"
    [] s \in {"req_query_string_start", "req_query_string"} /\ ch \in UrlChar ->
         "req_query_string"
    [] s \in {"req_query_string_start", "req_query_string"} /\ ch = "?" -> s
    [] s \in {"req_fragment_start", "req_fragment"} /\ ch \in UrlChar \cup {"?"} ->
         "req_fragment"
    [] s \in {"req_fragment_start", "req_fragment"} /\ ch = "#" -> s
    [] OTHER -> "dead"

(* http_parser_parse_url walks the collected URL once more; it fails on a   *)
(* character the automaton refuses and on a port above 65535.               *)
ParseUrl(uri, connect) ==
  LET step(acc, ch) ==
        LET s == UrlNext(acc.s, ch, connect) IN
        [s |-> s, port |-> IF s = "req_port" THEN 10 * acc.port + Digit[ch] ELSE acc.port]
      walk == FoldLeft(step, [s |-> "req_spaces_before_url", port |-> 0], uri)
  IN IF walk.s = "dead" \/ walk.port > 65535 THEN 1 ELSE 0

HeaderStates ==                                         \* PARSING_HEADER
  UrlStates \cup
  {"dead", "start_req", "req_method", "req_spaces_before_url", "req_http_start",
   "req_http_H", "req_first_http_major", "req_http_major", "req_first_http_minor",
   "req_http_minor", "req_line_almost_done", "header_field_start", "header_field",
   "header_value_start", "header_value", "header_value_lws", "header_almost_done",
   "chunk_size_start", "chunk_size", "chunk_parameters", "chunk_size_almost_done",
   "headers_almost_done", "headers_done"}

(* http_should_keep_alive; a request never needs an end of file.            *)
ShouldKeepAlive(q) ==
  IF q.major > 0 /\ q.minor > 0 THEN "close" \notin q.flags ELSE "keep_alive" \in q.flags

NewMessage(q) == IF ShouldKeepAlive(q) THEN "start_req" ELSE "dead"

NewParser ==                                            \* http_parser_init
  [state |-> "start_req", errno |-> "OK", flags |-> {}, length |-> 0, hstate |-> "general",
   index |-> 0, nread |-> 0, major |-> 0, minor |-> 0, method |-> "DELETE", upgrade |-> FALSE]

NoRequest == [uri |-> <<>>, headers |-> <<>>]

Init ==
  /\ wire \in DOMAIN Wires /\ continuous \in BOOLEAN
  /\ sent = 0 /\ pc = "idle" /\ data = <<>> /\ p = 0
  /\ mark = [m \in Marks |-> NULL]
  /\ parser = NewParser
  /\ op = [last |-> "unset", complete |-> FALSE, result |-> <<>>]
  /\ request = NoRequest /\ got = <<>>

----------------------------------------------------------------------------
(* The callbacks of http_request_op.  An event of the program is a record;  *)
(* the body is given symbol by symbol so that its cuts do not matter.       *)
ReqEvent == [type |-> "req", method |-> parser.method,
             version |-> <<parser.major, parser.minor>>,
             uri |-> request.uri, headers |-> request.headers]
DatEvents(bytes) == [i \in DOMAIN bytes |-> [type |-> "dat", byte |-> bytes[i]]]
FinEvent == [type |-> "fin", headers |-> IF continuous THEN request.headers ELSE <<>>]
ErrEvent(e) == [type |-> "err", errno |-> e]

OnMessageBegin ==
  /\ request' = NoRequest
  /\ op' = [op EXCEPT !.last = "value"]
  /\ got' = got

OnUrl(text) ==
  /\ request' = [request EXCEPT !.uri = @ \o text]
  /\ UNCHANGED <<op, got>>

OnHeaderField_always(text) ==                                         \* mutant
  /\ request' = [request EXCEPT !.headers = Append(@, [name |-> text, value |-> <<>>])]
  /\ op' = [op EXCEPT !.last = "field"] /\ got' = got

(* last_field_or_value_ is not initialised by the constructor: a trailer    *)
(* that reaches an operation which saw no message begin finds either value. *)
OnHeaderField(text) ==
  LET hs == request.headers
      n == Len(hs)
  IN /\ \/ /\ op.last \in {"value", "unset"}
           /\ request' = [request EXCEPT !.headers =
                            Append(@, [name |-> text, value |-> <<>>])]
        \/ /\ op.last \in {"field", "unset"}
           /\ request' = [request EXCEPT !.headers[n].name = @ \o text]
     /\ op' = [op EXCEPT !.last = "field"]
     /\ got' = got

OnHeaderValue(text) ==
  /\ request' = [request EXCEPT !.headers[Len(request.headers)].value = @ \o text]
  /\ op' = [op EXCEPT !.last = "value"]
  /\ got' = got

OnBody(text) ==
  /\ IF continuous
     THEN got' = got \o DatEvents(text) /\ op' = op
     ELSE op' = [op EXCEPT !.result = DatEvents(text)] /\ got' = got
  /\ request' = request

OnData(what, text) ==
  CASE what = "url" -> OnUrl(text)
    [] what = "header_field" -> OnHeaderField(text)
    [] what = "header_value" -> OnHeaderValue(text)
    [] what = "body" -> OnBody(text)

----------------------------------------------------------------------------
(* Pieces of http_parser_execute.                                           *)
ch == data[p + 1]
At(states) == pc = "byte" /\ parser.state \in states
NoCallback == UNCHANGED <<op, request, got>>
Fixed == UNCHANGED <<wire, continuous, sent, data>>
Consume(q) == parser' = q /\ p' = p + 1 /\ pc' = "loop" /\ mark' = mark
Reexecute(q) == parser' = q /\ p' = p /\ pc' = "byte" /\ mark' = mark
Goto(s) == [parser EXCEPT !.state = s]
Step(q) == Consume(q) /\ NoCallback
Error(e) == /\ parser' = [parser EXCEPT !.errno = e]
            /\ pc' = "returned" /\ UNCHANGED <<p, mark>> /\ NoCallback
MarkAt(m) == [mark EXCEPT ![m] = IF @ = NULL THEN p ELSE @]

(* CALLBACK_DATA: report the marked bytes up to last; a callback that       *)
(* paused the parser ends the run with `next` symbols read.                 *)
CallbackData_keepsMark(what, from, last, q, next, then) ==            \* mutant
  LET paused == what = "body" /\ ~continuous IN
  /\ OnData(what, SubSeq(data, from + 1, last))
  /\ mark' = mark
  /\ parser' = [q EXCEPT !.errno = IF paused THEN "PAUSED" ELSE @]
  /\ p' = next
  /\ pc' = IF paused THEN "returned" ELSE then

CallbackData(what, from, last, q, next, then) ==
  LET paused == what = "body" /\ ~continuous IN
  /\ OnData(what, SubSeq(data, from + 1, last))
  /\ mark' = [mark EXCEPT ![what] = NULL]
  /\ parser' = [q EXCEPT !.errno = IF paused THEN "PAUSED" ELSE @]
  /\ p' = next
  /\ pc' = IF paused THEN "returned" ELSE then

DataConsume(what, q) == CallbackData(what, mark[what], p, q, p + 1, "loop")

(* CALLBACK_NOTIFY(message_complete) with the state NEW_MESSAGE chooses:    *)
(* on_message_complete always pauses, so the run ends behind this symbol.   *)
MessageComplete(q) ==
  /\ parser' = [q EXCEPT !.state = NewMessage(q), !.errno = "PAUSED"]
  /\ op' = [op EXCEPT !.complete = TRUE, !.result = <<FinEvent>>]
  /\ pc' = "returned" /\ p' = p + 1
  /\ UNCHANGED <<mark, request, got>>

----------------------------------------------------------------------------
(* asyn_receive_request and the entry of http_parser_execute.               *)
Execute(bytes) ==
  /\ parser' = [parser EXCEPT !.errno = "OK"]            \* http_parser_pause(0)
  /\ mark' = [m \in Marks |->
                IF \/ m = parser.state
                   \/ m = "url" /\ parser.state \in UrlStates
                THEN 0 ELSE NULL]
  /\ data' = bytes /\ p' = 0 /\ pc' = "loop"

AsynReceiveRequest ==
  /\ pc = "idle"
  /\ op' = [last |-> "unset", complete |-> FALSE, result |-> <<>>]
  /\ IF data # <<>>
     THEN Execute(data)
     ELSE pc' = "recv" /\ UNCHANGED <<data, p, mark, parser>>
  /\ UNCHANGED <<wire, continuous, sent, request, got>>

(* The stream's asyn_recv_some completes with some bytes, or reports the    *)
(* end of the stream.                                                       *)
Receive ==
  /\ pc = "recv"
  /\ \E n \in Cuts :
       /\ sent + n =< Len(Wires[wire].bytes)
       /\ Execute(SubSeq(Wires[wire].bytes, sent + 1, sent + n))
       /\ sent' = sent + n
  /\ UNCHANGED <<wire, continuous, op, request, got>>

ReceiveEof ==
  /\ pc = "recv" /\ sent = Len(Wires[wire].bytes)
  /\ got' = Append(got, ErrEvent("EOF")) /\ pc' = "over"
  /\ UNCHANGED <<wire, continuous, sent, data, p, mark, parser, op, request>>

(* The head of the loop: count header bytes, or leave with the marks that   *)
(* are still set reported.                                                  *)
NextByte ==
  /\ pc = "loop" /\ p < Len(data)
  /\ LET n == parser.nread + (IF parser.state \in HeaderStates THEN 1 ELSE 0) IN
     IF parser.state \in HeaderStates /\ n > MaxHeader
     THEN pc' = "returned" /\ parser' = [parser EXCEPT !.nread = n, !.errno = "HEADER_OVERFLOW"]
     ELSE pc' = "byte" /\ parser' = [parser EXCEPT !.nread = n]
  /\ UNCHANGED <<p, mark>> /\ NoCallback /\ Fixed

Leftover ==
  /\ pc = "loop" /\ p = Len(data)
  /\ IF \E m \in Marks : mark[m] # NULL
     THEN \E m \in Marks :
            mark[m] # NULL /\ CallbackData(m, mark[m], p, parser, p, "returned")
     ELSE pc' = "returned" /\ UNCHANGED <<parser, p, mark>> /\ NoCallback
  /\ Fixed

(* The bytes the parser has not read, handed to the program with a result.  *)
Remain_dropped == <<>>                                                \* mutant
Remain == SubSeq(data, p + 1, Len(data))

(* receive_callback behind http_parser_execute.                             *)
Returned ==
  LET err == IF parser.upgrade THEN "UNKNOWN" ELSE parser.errno IN
  /\ pc = "returned"
  /\ \/ /\ err \notin {"OK", "PAUSED"}
        /\ got' = Append(got, ErrEvent(err)) /\ pc' = "over" /\ data' = data
     \/ /\ err \in {"OK", "PAUSED"} /\ (op.complete \/ err = "PAUSED")
        /\ got' = got \o op.result
        /\ data' = Remain /\ pc' = "idle"
     \/ /\ err = "OK" /\ ~op.complete
        /\ pc' = "recv" /\ UNCHANGED <<got, data>>
  /\ UNCHANGED <<wire, continuous, sent, p, mark, parser, op, request>>

----------------------------------------------------------------------------
(* The request line.                                                        *)
Initial == [G |-> "GET", P |-> "POST", C |-> "CONNECT"]
Spelling == {<<"GET", "ET", "GET">>, <<"POST", "OST", "POST">>, <<"POST", "UT", "PUT">>,
             <<"CONNECT", "ONNECT", "CONNECT">>}

Dead ==
  /\ At({"dead"})
  /\ IF ch \in {"CR", "LF"} THEN Step(parser) ELSE Error("CLOSED_CONNECTION")
  /\ Fixed

StartReq ==
  /\ At({"start_req"})
  /\ IF ch \in {"CR", "LF"}
     THEN Step(parser)
     ELSE IF ch \in DOMAIN Initial
     THEN /\ Consume([parser EXCEPT !.flags = {}, !.length = NoLength, !.index = 1,
                                    !.method = Initial[ch], !.state = "req_method"])
          /\ OnMessageBegin
     ELSE Error("INVALID_METHOD")
  /\ Fixed

ReqMethod ==
  LET fits(w) == parser.index = 1 /\ w[1] = parser.method /\ w[2] = ch IN
  /\ At({"req_method"})
  /\ IF ch = " " /\ parser.index = 2
     THEN Step(Goto("req_spaces_before_url"))
     ELSE IF \E w \in Spelling : fits(w)
     THEN Step([parser EXCEPT !.index = 2, !.method = (CHOOSE w \in Spelling : fits(w))[3]])
     ELSE Error(IF parser.method = "CONNECT" \/ (parser.method = "POST" /\ parser.index = 1)
                THEN "UNKNOWN" ELSE "INVALID_METHOD")
  /\ Fixed

UrlChars(m) ==
  LET s == UrlNext(parser.state, ch, parser.method = "CONNECT") IN
  IF s = "dead"
  THEN /\ parser' = [parser EXCEPT !.state = "dead", !.errno = "INVALID_URL"]
       /\ pc' = "returned" /\ p' = p /\ mark' = m /\ NoCallback
  ELSE parser' = Goto(s) /\ p' = p + 1 /\ pc' = "loop" /\ mark' = m /\ NoCallback

SpacesBeforeUrl ==
  /\ At({"req_spaces_before_url"})
  /\ IF ch = " " THEN Step(parser) ELSE UrlChars(MarkAt("url"))
  /\ Fixed

Url ==
  /\ At(UrlStates)
  /\ IF ch \in {" ", "CR", "LF"}
     THEN IF parser.state \in {"req_schema", "req_schema_slash", "req_schema_slash_slash"}
          THEN Error("INVALID_URL")
          ELSE DataConsume("url",
                 CASE ch = " " -> Goto("req_http_start")
                   [] ch = "CR" -> [Goto("req_line_almost_done") EXCEPT !.major = 0, !.minor = 9]
                   [] ch = "LF" -> [Goto("header_field_start") EXCEPT !.major = 0, !.minor = 9])
     ELSE UrlChars(mark)
  /\ Fixed

HttpStart ==
  /\ At({"req_http_start"})
  /\ CASE ch = "H" -> Step(Goto("req_http_H"))
       [] ch = " " -> Step(parser)
       [] OTHER -> Error("INVALID_CONSTANT")
  /\ Fixed

Http ==                                                 \* the strictly checked "TTP/"
  /\ At({"req_http_H"})
  /\ IF ch = "TTP/" THEN Step(Goto("req_first_http_major")) ELSE Error("STRICT")
  /\ Fixed

Major ==
  LET n == 10 * parser.major + Digit[ch] IN
  /\ At({"req_first_http_major", "req_http_major"})
  /\ IF parser.state = "req_http_major" /\ ch = "."
     THEN Step(Goto("req_first_http_minor"))
     ELSE IF ch \notin Num THEN Error("INVALID_VERSION")
     ELSE IF parser.state = "req_first_http_major"
     THEN IF ch = "0" THEN Error("INVALID_VERSION")
          ELSE Step([Goto("req_http_major") EXCEPT !.major = Digit[ch]])
     ELSE IF n > 999 THEN Error("INVALID_VERSION")
     ELSE Step([parser EXCEPT !.major = n])
  /\ Fixed

Minor ==
  LET n == 10 * parser.minor + Digit[ch] IN
  /\ At({"req_first_http_minor", "req_http_minor"})
  /\ IF parser.state = "req_http_minor" /\ ch = "CR"
     THEN Step(Goto("req_line_almost_done"))
     ELSE IF parser.state = "req_http_minor" /\ ch = "LF"
     THEN Step(Goto("header_field_start"))
     ELSE IF ch \notin Num THEN Error("INVALID_VERSION")
     ELSE IF parser.state = "req_first_http_minor"
     THEN Step([Goto("req_http_minor") EXCEPT !.minor = Digit[ch]])
     ELSE IF n > 999 THEN Error("INVALID_VERSION")
     ELSE Step([parser EXCEPT !.minor = n])
  /\ Fixed

LineAlmostDone ==
  /\ At({"req_line_almost_done"})
  /\ IF ch = "LF" THEN Step(Goto("header_field_start")) ELSE Error("LF_EXPECTED")
  /\ Fixed

----------------------------------------------------------------------------
(* Headers and trailers.                                                    *)
HeaderFieldStart ==
  /\ At({"header_field_start"})
  /\ IF ch = "CR" THEN Step(Goto("headers_almost_done"))
     ELSE IF ch = "LF" THEN Reexecute(Goto("headers_almost_done")) /\ NoCallback
     ELSE IF ch \notin Token THEN Error("INVALID_HEADER_TOKEN")
     ELSE /\ parser' = [Goto("header_field") EXCEPT !.hstate = FirstHalf(Names, ch)]
          /\ mark' = MarkAt("header_field")
          /\ p' = p + 1 /\ pc' = "loop" /\ NoCallback
  /\ Fixed

HeaderField ==
  /\ At({"header_field"})
  /\ CASE ch \in Token ->
            Step([parser EXCEPT !.hstate = SecondHalf(Names, parser.hstate, ch)])
       [] ch = ":" -> DataConsume("header_field", Goto("header_value_start"))
       [] ch = "CR" -> DataConsume("header_field", Goto("header_almost_done"))
       [] ch = "LF" -> DataConsume("header_field", Goto("header_field_start"))
       [] OTHER -> Error("INVALID_HEADER_TOKEN")
  /\ Fixed

HeaderValueStart ==
  LET h == parser.hstate
      q == Goto("header_value")
  IN
  /\ At({"header_value_start"})
  /\ CASE ch = " " -> Step(parser)
       [] ch = "CR" -> CallbackData("header_value", p, p,
                         [Goto("header_almost_done") EXCEPT !.hstate = "general"], p + 1, "loop")
       [] ch = "LF" -> CallbackData("header_value", p, p, Goto("header_field_start"),
                                    p + 1, "loop")
       [] OTHER ->
            IF h = "content_length" /\ ch \notin Num
            THEN Error("INVALID_CONTENT_LENGTH")
            ELSE /\ parser' =
                      CASE h = "upgrade" ->
                             [q EXCEPT !.flags = @ \cup {"upgrade"}, !.hstate = "general"]
                        [] h = "content_length" -> [q EXCEPT !.length = Digit[ch] % LengthMod]
                        [] h \in DOMAIN Values -> [q EXCEPT !.hstate = FirstHalf(Values[h], ch)]
                        [] OTHER -> [q EXCEPT !.hstate = "general"]
                 /\ mark' = MarkAt("header_value")
                 /\ p' = p + 1 /\ pc' = "loop" /\ NoCallback
  /\ Fixed

(* t *= base; t += digit in 64 bits, and the check behind it.               *)
Grown(base, digit) == (base * parser.length + digit) % LengthMod
Overflowed(t) == t < parser.length \/ t = NoLength

HeaderValue ==
  LET h == parser.hstate
      t == Grown(10, Digit[ch])
  IN
  /\ At({"header_value"})
  /\ CASE ch = "CR" -> DataConsume("header_value", Goto("header_almost_done"))
       [] ch = "LF" -> CallbackData("header_value", mark["header_value"], p,
                                    Goto("header_almost_done"), p, "byte")
       [] ch \notin {"CR", "LF"} /\ h = "content_length" ->
            IF ch = " " THEN Step(parser)
            ELSE IF ch \notin Num \/ Overflowed(t) THEN Error("INVALID_CONTENT_LENGTH")
            ELSE Step([parser EXCEPT !.length = t])
       [] ch = " " /\ \E w \in AllValues : w[3] = h -> Step(parser)
       [] OTHER -> Step([parser EXCEPT !.hstate = SecondHalf(AllValues, h, ch)])
  /\ Fixed

HeaderAlmostDone ==
  /\ At({"header_almost_done"})
  /\ IF ch # "LF" THEN Error("STRICT")
     ELSE Step([Goto("header_value_lws") EXCEPT
                  !.flags = @ \cup ({parser.hstate} \cap {"keep_alive", "close", "chunked"})])
  /\ Fixed

HeaderValueLws ==
  /\ At({"header_value_lws"})
  /\ IF ch = " " THEN Step(Goto("header_value_start"))
     ELSE Reexecute(Goto("header_field_start")) /\ NoCallback
  /\ Fixed

(* The empty line, with on_headers_complete: a URL it cannot parse makes it *)
(* return 1, which means "no body"; otherwise the request is announced.     *)
HeadersAlmostDone ==
  LET q == [Goto("headers_done") EXCEPT
              !.upgrade = "upgrade" \in parser.flags \/ parser.method = "CONNECT"]
  IN
  /\ At({"headers_almost_done"})
  /\ IF ch # "LF" THEN Error("STRICT")
     ELSE IF "trailing" \in parser.flags THEN MessageComplete(parser)
     ELSE /\ UNCHANGED <<p, mark, request>>
          /\ \/ /\ ParseUrl(request.uri, parser.method = "CONNECT") = 1
                /\ parser' = [q EXCEPT !.flags = @ \cup {"skipbody"}]
                /\ pc' = "byte" /\ UNCHANGED <<op, got>>
             \/ /\ ParseUrl(request.uri, parser.method = "CONNECT") = 0 /\ continuous
                /\ parser' = q /\ got' = Append(got, ReqEvent)
                /\ pc' = "byte" /\ op' = op
             \/ /\ ParseUrl(request.uri, parser.method = "CONNECT") = 0 /\ ~continuous
                /\ parser' = [q EXCEPT !.errno = "PAUSED"]
                /\ op' = [op EXCEPT !.result = <<ReqEvent>>]
                /\ pc' = "returned" /\ got' = got
  /\ Fixed

HeadersDone ==
  LET q == [parser EXCEPT !.nread = 0] IN
  /\ At({"headers_done"})
  /\ IF ch # "LF" THEN Error("STRICT")
     ELSE IF \/ q.upgrade \/ "skipbody" \in q.flags
             \/ "chunked" \notin q.flags /\ q.length \in {0, NoLength}
     THEN MessageComplete(q)
     ELSE Step([q EXCEPT !.state = IF "chunked" \in q.flags THEN "chunk_size_start"
                                   ELSE "body_identity"])
  /\ Fixed

----------------------------------------------------------------------------
(* Bodies.  to_read symbols are taken at once.                              *)
ToRead == Min({parser.length, Len(data) - p})

BodyIdentity ==
  LET q == [parser EXCEPT !.length = @ - ToRead]
      last == p + ToRead
  IN
  /\ At({"body_identity"})
  /\ IF q.length = 0      \* the last symbol is seen again by message_done
     THEN CallbackData("body", p, last, [q EXCEPT !.state = "message_done"], last - 1, "byte")
     ELSE parser' = q /\ mark' = MarkAt("body") /\ p' = last /\ pc' = "loop" /\ NoCallback
  /\ Fixed

MessageDone == At({"message_done"}) /\ MessageComplete(parser) /\ Fixed

ChunkSizeStart ==
  /\ At({"chunk_size_start"})
  /\ IF ch \notin DOMAIN Unhex THEN Error("INVALID_CHUNK_SIZE")
     ELSE Step([Goto("chunk_size") EXCEPT !.length = Unhex[ch]])
  /\ Fixed

ChunkSize ==
  /\ At({"chunk_size"})
  /\ CASE ch = "CR" -> Step(Goto("chunk_size_almost_done"))
       [] ch \in {";", " "} -> Step(Goto("chunk_parameters"))
       [] ch \in DOMAIN Unhex ->
            LET t == Grown(16, Unhex[ch]) IN
            IF Overflowed(t) THEN Error("INVALID_CONTENT_LENGTH")
            ELSE Step([parser EXCEPT !.length = t])
       [] OTHER -> Error("INVALID_CHUNK_SIZE")
  /\ Fixed

ChunkParameters ==
  /\ At({"chunk_parameters"})
  /\ Step(IF ch = "CR" THEN Goto("chunk_size_almost_done") ELSE parser)
  /\ Fixed

ChunkSizeAlmostDone ==
  /\ At({"chunk_size_almost_done"})
  /\ IF ch # "LF" THEN Error("STRICT")
     ELSE IF parser.length = 0
     THEN Step([Goto("header_field_start") EXCEPT !.nread = 0, !.flags = @ \cup {"trailing"}])
     ELSE Step([Goto("chunk_data") EXCEPT !.nread = 0])
  /\ Fixed

ChunkData ==
  /\ At({"chunk_data"})
  /\ parser' = [parser EXCEPT !.length = @ - ToRead,
                  !.state = IF parser.length = ToRead THEN "chunk_data_almost_done" ELSE @]
  /\ mark' = MarkAt("body")
  /\ p' = p + ToRead /\ pc' = "loop" /\ NoCallback /\ Fixed

ChunkDataAlmostDone ==
  LET q == Goto("chunk_data_done") IN
  /\ At({"chunk_data_almost_done"})
  /\ IF ch # "CR" THEN Error("STRICT")
     ELSE IF mark["body"] = NULL THEN Step(q) ELSE DataConsume("body", q)
  /\ Fixed

ChunkDataDone ==
  /\ At({"chunk_data_done"})
  /\ IF ch # "LF" THEN Error("STRICT")
     ELSE Step([Goto("chunk_size_start") EXCEPT !.nread = 0])
  /\ Fixed

----------------------------------------------------------------------------
Byte ==
  \/ Dead \/ StartReq \/ ReqMethod \/ SpacesBeforeUrl \/ Url \/ HttpStart \/ Http
  \/ Major \/ Minor \/ LineAlmostDone
  \/ HeaderFieldStart \/ HeaderField \/ HeaderValueStart \/ HeaderValue
  \/ HeaderAlmostDone \/ HeaderValueLws \/ HeadersAlmostDone \/ HeadersDone
  \/ BodyIdentity \/ MessageDone \/ ChunkSizeStart \/ ChunkSize \/ ChunkParameters
  \/ ChunkSizeAlmostDone \/ ChunkData \/ ChunkDataAlmostDone \/ ChunkDataDone

(* The program gave the socket up after an error.                           *)
Over == pc = "over" /\ UNCHANGED vars

Next == AsynReceiveRequest \/ Receive \/ ReceiveEof \/ NextByte \/ Byte \/ Leftover
          \/ Returned \/ Over

Spec == Init /\ [][Next]_vars

----------------------------------------------------------------------------
Due == IF continuous THEN Wires[wire].continuous ELSE Wires[wire].paused

(* However the stream cuts the bytes, the program is given the same events  *)
(* in the same order: each request once with its whole URL and headers,     *)
(* each body byte once, the end of the message, and the error of a broken   *)
(* message (http_parser_execute's marks, http_socket.cpp's callbacks and    *)
(* the left-over bytes of receive_callback, 64-76).                         *)
Delivered == \E due \in Due : IsPrefix(got, due)

(* The assertions of http_parser.c: at most one mark is left over (1829),   *)
(* a body has a length (1651, 1780), a chunk size is the first counted byte *)
(* (1696), no half-recognised header reaches its value (1446), and no       *)
(* callback runs in an error state (64, 85).                                *)
ParserAsserts ==
  /\ pc = "loop" /\ p = Len(data) => Cardinality({m \in Marks : mark[m] # NULL}) =< 1
  /\ pc = "byte" =>
       /\ parser.state \in {"body_identity", "chunk_data"} => parser.length \notin {0, NoLength}
       /\ parser.state = "chunk_size_start" => parser.nread = 1
       /\ parser.state = "header_value" => parser.hstate \notin DOMAIN Values
       /\ parser.errno = "OK"

(* Everything the peer sent is reported in the end: the end of a message    *)
(* never waits for a byte behind it, and no bytes are forgotten between two *)
(* calls of asyn_receive_request.  (Nothing but "over" stops the system:      *)
(* TLC checks deadlock, and every step reads on.)                           *)
AllReported == pc = "over" => got \in Due
=============================================================================
