--------------------------- MODULE HttpRequestMC ---------------------------
(***************************************************************************)
(* Inputs for HttpRequest: well-formed messages are written out from       *)
(* records, which also give the events due; broken ones are written by     *)
(* hand with the error http_parser.c has for them.                         *)
(***************************************************************************)
EXTENDS HttpRequest

Cat(ss) == FlattenSeq(ss)
Crlf == <<"CR", "LF">>

(* A message: method and its spelling, URL, version, headers and body.      *)
Spelled == [GET |-> <<"G", "ET">>, POST |-> <<"P", "OST">>, PUT |-> <<"P", "UT">>,
            CONNECT |-> <<"C", "ONNECT">>]
H(name, value) == [name |-> name, value |-> value]
Plain == H(<<"n1", "n2">>, <<"v1", "v2">>)
Close == H(<<"con", "nection">>, <<"clo", "se">>)
Keep == H(<<"con", "nection">>, <<"keep", "-alive">>)
Length(digits) == H(<<"content", "-length">>, digits)
Chunked == H(<<"transfer", "-encoding">>, <<"chun", "ked">>)
Upgrade == H(<<"up", "grade">>, <<"v1">>)

Line(h) == h.name \o <<":", " ">> \o h.value \o Crlf
Lines(hs) == Cat([i \in DOMAIN hs |-> Line(hs[i])])
RequestLine(method, uri, minor) ==
  Spelled[method] \o <<" ">> \o uri \o <<" ", "H", "TTP/", "1", ".", minor>> \o Crlf

Minors == [v \in {"0", "1"} |-> Digit[v]]
ReqDue(m) == [type |-> "req", method |-> m.method, version |-> <<1, Minors[m.minor]>>,
              uri |-> m.uri, headers |-> m.headers]
FinDue(headers) == [type |-> "fin", headers |-> headers]
None == <<>>

M(method, uri, minor, headers, body, bytes, trailers) ==
  LET m == [method |-> method, uri |-> uri, minor |-> minor, headers |-> headers] IN
  [bytes |-> RequestLine(method, uri, minor) \o Lines(headers) \o Crlf \o bytes,
   continuous |-> <<ReqDue(m)>> \o DatEvents(body) \o <<FinDue(headers \o trailers)>>,
   paused |-> <<ReqDue(m)>> \o DatEvents(body) \o <<FinDue(<<>>)>>]

Simple(method, uri, minor, headers) == M(method, uri, minor, headers, None, None, None)
WithBody(headers, body) == M("POST", <<"/">>, "1", headers, body, body, None)
InChunks(headers, body, bytes, trailers) ==
  M("POST", <<"/">>, "1", <<Chunked>> \o headers, body,
    bytes \o <<"0">> \o Crlf \o Lines(trailers) \o Crlf, trailers)

(* Several messages, perhaps broken bytes behind them, and the last error.  *)
Stream(ms, rest, error) ==
  [bytes |-> Cat([i \in DOMAIN ms |-> ms[i].bytes]) \o rest,
   continuous |-> {Append(Cat([i \in DOMAIN ms |-> ms[i].continuous]), ErrEvent(error))},
   paused |-> {Append(Cat([i \in DOMAIN ms |-> ms[i].paused]), ErrEvent(error))}]
Same(bytes, due) == [bytes |-> bytes, continuous |-> {due}, paused |-> {due}]
Broken(bytes, error) == Stream(<<>>, bytes, error)

Get == RequestLine("GET", <<"/">>, "1")
ChunkedHead == Get \o Line(Chunked) \o Crlf
Announced(headers) == [type |-> "req", method |-> "GET", version |-> <<1, 1>>,
                       uri |-> <<"/">>, headers |-> headers]
AfterHead(headers, bytes, error) ==
  Same(Get \o Lines(headers) \o Crlf \o bytes, <<Announced(headers), ErrEvent(error)>>)
Unannounced(w) == [w EXCEPT !.paused = {Tail(due) : due \in @}]

(* Every way through the URL automaton that is accepted.                    *)
Absolute == <<"a", "a", ":", "/", "/", "a", "9", ":", "9", "9", "/", "a", "?", "?", "a", "?",
              "a", "#", "#", "a", "a", "#">>
Short == <<"a", ":", "/", "/", "a", "?", "#", "?">>

MCWires == <<
  (* what a peer may send                                                  *)
  Stream(<<Simple("GET", <<"/", "a", "?", "a", "#", "a">>, "1", <<Plain, Keep>>),
           WithBody(<<Length(<<"1", "2">>), Plain>>,
                    <<"b1", "b2", "b3", "b4", "b5", "b6", "b1", "b2", "b3", "b4", "b5", "b6">>),
           Simple("PUT", <<"/">>, "1", <<>>)>>, None, "EOF"),
  Stream(<<InChunks(<<Plain>>, <<"b1", "b2", "b3">>,
                    <<"2", ";", "a">> \o Crlf \o <<"b1", "b2">> \o Crlf \o
                    <<"1", " ">> \o Crlf \o <<"b3">> \o Crlf, <<>>),
           WithBody(<<Length(<<"2">>), Close>>, <<"b4", "b5">>)>>,
         <<"CR", "LF", "G">>, "CLOSED_CONNECTION"),
  Stream(<<InChunks(<<>>, <<"b1">>, <<"0", "1">> \o Crlf \o <<"b1">> \o Crlf, <<Plain, Plain>>),
           Simple("GET", <<"/">>, "1", <<>>)>>, <<"CR", "LF">>, "EOF"),
  Stream(<<Simple("GET", Absolute, "0", <<Keep>>), Simple("GET", Short, "0", <<>>)>>,
         <<"G">>, "CLOSED_CONNECTION"),
  Stream(<<Simple("GET", <<"a", ":", "/", "/", "a", "/">>, "1", <<Length(<<"0">>)>>),
           Simple("GET", <<"a", ":", "/", "/", "a", ":", "9", "?">>, "1", <<>>)>>, None, "EOF"),
  Unannounced(Stream(<<[Simple("CONNECT", <<"9", ":", "9">>, "1", <<Plain>>) EXCEPT
                          !.continuous = <<Head(@)>>, !.paused = <<Head(@)>>]>>,
                     <<"b1">>, "UNKNOWN")),
  Unannounced(Stream(<<[Simple("GET", <<"/">>, "1", <<Upgrade>>) EXCEPT
                          !.continuous = <<Head(@)>>, !.paused = <<Head(@)>>]>>,
                     None, "UNKNOWN")),
  (* a port above 65535: the end is reported without its request           *)
  Stream(<<[Simple("GET", <<"a", ":", "/", "/", "a", ":", "99999", "/">>, "1", <<Plain>>) EXCEPT
              !.continuous = Tail(@), !.paused = Tail(@)],
           Simple("GET", <<"/">>, "1", <<>>)>>, None, "EOF"),
  Stream(<<WithBody(<<Length(<<"1", " ">>)>>, <<"b1">>)>>, <<"CR", "G", "ET">>, "EOF"),
  (* line ends without CR, HTTP/0.9, folded and empty values, a     *)
  (* header without a colon (the parser joins it with the next name)       *)
  Stream(<<[Simple("GET", <<"/">>, "1", <<H(<<"n1">>, <<>>), H(<<"n2">>, <<"v1", "v2">>),
                                          H(<<"n1", "n2">>, <<>>)>>) EXCEPT
              !.bytes = <<"G", "ET", " ", " ", "/", " ", " ", "H", "TTP/", "1", ".", "1", "LF",
                          "n1", ":", "LF", "n2", ":", "v1", "LF", " ", "v2", "CR", "LF",
                          "n1", "CR", "LF", "n2", ":", "CR", "LF", "LF">>]>>, None, "EOF"),
  Stream(<<[Simple("GET", <<"/">>, "1", <<H(<<"n1", "n2">>, <<"v1">>)>>) EXCEPT
              !.bytes = Get \o <<"n1", "LF", "n2", ":", "v1", "CR", "LF", "CR", "LF">>]>>,
         None, "EOF"),
  Same(<<"G", "ET", " ", "/", "CR", "LF", "CR", "LF", "LF">>,
       <<[Announced(<<>>) EXCEPT !.version = <<0, 9>>], FinDue(<<>>), ErrEvent("EOF")>>),
  LET due == <<[Announced(<<H(<<"n1">>, <<"v1">>)>>) EXCEPT !.version = <<0, 9>>]>>
      end(hs) == <<FinDue(hs), ErrEvent("CLOSED_CONNECTION")>>
  IN [bytes |-> <<"G", "ET", " ", "/", "LF", "n1", ":", "v1", "LF", "LF", "~">>,
      continuous |-> {due \o end(<<H(<<"n1">>, <<"v1">>)>>)}, paused |-> {due \o end(<<>>)}],
  (* values that only begin like the words the parser knows         *)
  Stream(<<Simple("GET", <<"/">>, "1",
                  <<H(<<"con", "nection">>, <<"clo", "ked">>),
                    H(<<"con", "n2">>, <<"clo", "se">>),
                    H(<<"con", "nection", "n2">>, <<"clo", "se">>),
                    H(<<"transfer", "-encoding">>, <<"v1">>),
                    H(<<"transfer", "-encoding">>, <<"chun", "ked", "v1">>)>>),
           Simple("GET", <<"/">>, "1", <<H(<<"con", "nection">>, <<"clo", "se", " ">>)>>)>>,
         <<"LF", "~">>, "CLOSED_CONNECTION"),
  (* broken messages                                                       *)
  Broken(<<"~">>, "INVALID_METHOD"),
  Broken(<<"G", "OST">>, "INVALID_METHOD"),
  Broken(<<"C", "ET">>, "UNKNOWN"),
  Broken(<<"G", "ET", " ", "?">>, "INVALID_URL"),
  Broken(<<"G", "ET", " ", "a", " ">>, "INVALID_URL"),
  Broken(<<"G", "ET", " ", "/", "~">>, "INVALID_URL"),
  Broken(<<"G", "ET", " ", "/", " ", "~">>, "INVALID_CONSTANT"),
  Broken(<<"G", "ET", " ", "/", " ", "H", "~">>, "STRICT"),
  Broken(<<"G", "ET", " ", "/", " ", "H", "TTP/", "0">>, "INVALID_VERSION"),
  Broken(<<"G", "ET", " ", "/", " ", "H", "TTP/", "~">>, "INVALID_VERSION"),
  Broken(<<"G", "ET", " ", "/", " ", "H", "TTP/", "9", "9", "9", "9">>, "INVALID_VERSION"),
  Broken(<<"G", "ET", " ", "/", " ", "H", "TTP/", "1", ".", "~">>, "INVALID_VERSION"),
  Broken(<<"G", "ET", " ", "/", " ", "H", "TTP/", "1", ".", "9", "9", "9", "9">>,
         "INVALID_VERSION"),
  Broken(<<"G", "ET", " ", "/", "CR", "~">>, "LF_EXPECTED"),
  Broken(Get \o <<"~">>, "INVALID_HEADER_TOKEN"),
  Broken(Get \o <<"n1", " ">>, "INVALID_HEADER_TOKEN"),
  Broken(Get \o <<"n1", ":", "v1", "CR", "~">>, "STRICT"),
  Broken(Get \o <<"CR", "~">>, "STRICT"),
  Broken(Get \o <<"content", "-length", ":", "v1">>, "INVALID_CONTENT_LENGTH"),
  Broken(Get \o <<"content", "-length", ":", "1", "v1">>, "INVALID_CONTENT_LENGTH"),
  Broken(Get \o <<"content", "-length", ":", "2", "5", "5">>, "INVALID_CONTENT_LENGTH"),
  Broken(Get \o Cat([i \in 1..14 |-> Line(Plain)]), "HEADER_OVERFLOW"),
  AfterHead(<<Chunked>>, <<"~">>, "INVALID_CHUNK_SIZE"),
  AfterHead(<<Chunked>>, <<"1", "~">>, "INVALID_CHUNK_SIZE"),
  AfterHead(<<Chunked>>, <<"a", "0", "0">>, "INVALID_CONTENT_LENGTH"),
  AfterHead(<<Chunked>>, <<"1", "CR", "~">>, "STRICT"),
  (* a chunk that is not followed by CR: its bytes are given to the        *)
  (* program only when the cut falls right behind them                      *)
  LET w == AfterHead(<<Chunked>>, <<"1", "CR", "LF", "b1", "~">>, "STRICT")
      or(dues) == dues \cup {InsertAt(due, 2, [type |-> "dat", byte |-> "b1"]) : due \in dues}
  IN [w EXCEPT !.continuous = or(@), !.paused = or(@)],
  LET w == AfterHead(<<Chunked>>, <<"1", "CR", "LF", "b1", "CR", "~">>, "STRICT")
      with(dues) == {InsertAt(due, 2, [type |-> "dat", byte |-> "b1"]) : due \in dues}
  IN [w EXCEPT !.continuous = with(@), !.paused = with(@)]
>>

MCCuts == {1, 2, 5}
=============================================================================
