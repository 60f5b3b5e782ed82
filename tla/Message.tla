-------------------------------- MODULE Message --------------------------------
(* What AirSniffer says to its servers: the data points of one reading, the     *)
(* body, target and header that upload() and xively_update_feed() make of them,  *)
(* and the request that sshttp_request() puts around these; and the server's    *)
(* reading of it.  A text is a sequence of words, in pieces as the code copies  *)
(* them.                                                                       *)
EXTENDS Integers, Sequences, SequencesExt

Word(s) == [text |-> s, number |-> 0]
Number(n) == [text |-> "number", number |-> n]
\* "%10f" and "%10d": in a field of ten, with the blanks in front of a short one.
Printed(n) == [text |-> "number in a field of ten", number |-> n]
Words(strings) == [k \in 1..Len(strings) |-> Word(strings[k])]

CRLF == Word("\r\n")

KEY_RAW_DATA == "pm25raw"
KEY_TEMP == "temp"
TEMP_NO_DEVICE == -128

\* "%10f" of the calibrated mean, in millionths.  The double lies between two
\* numbers that can be printed: here on a 60000th.  printf() rounds to the nearest.
SixDecimals(raw) == (100 * raw + 3) \div 6
-----------------------------------------------------------------------------
(* The data points, and the strings made of them.                              *)

\* append_data_point(): to the front, with copies of both strings.
AppendDataPoint(root, key, value) == <<[key |-> key, value |-> value]>> \o root

\* Mutant: the point holds on to the caller's buffer, overwritten by the next.
DataPoints_Shared(raw, t) ==
    IF t = TEMP_NO_DEVICE
    THEN AppendDataPoint(<<>>, KEY_RAW_DATA, SixDecimals(raw))
    ELSE AppendDataPoint(AppendDataPoint(<<>>, KEY_RAW_DATA, t), KEY_TEMP, t)

\* The points of a reading, printed one after the other into the same buffer.
DataPoints(raw, t) ==
    LET data == AppendDataPoint(<<>>, KEY_RAW_DATA, SixDecimals(raw))
    IN  IF t # TEMP_NO_DEVICE THEN AppendDataPoint(data, KEY_TEMP, t) ELSE data

\* What stands around the key and the value of a point, and around all of them:
\* percent-encoded by hand for aliyun, where it is the value of a form's field.
Aliyun ==
    [open |-> "data=%7B", key |-> "%22", value |-> "%22%3a", end |-> "", close |-> "%7D"]
Xively ==
    [open |-> "{'datastreams':[", key |-> "{'id':'", value |-> "','current_value':'",
     end |-> "'}", close |-> "]}"]
Syntax(backend) == IF backend = "aliyun" THEN Aliyun ELSE Xively

Point(syntax, d) ==
    <<Word(syntax.key), Word(d.key), Word(syntax.value), Printed(d.value), Word(syntax.end)>>

\* Mutant: a comma after every point.
Body_LastComma(backend, data) ==
    LET syntax == Syntax(backend)
        Item(k) == Append(Point(syntax, data[k]), Word(","))
    IN  <<Word(syntax.open)>> \o FlattenSeq([k \in 1..Len(data) |-> Item(k)])
          \o <<Word(syntax.close)>>

Body(backend, data) ==
    LET syntax == Syntax(backend)
        Item(k) == IF k < Len(data) THEN Append(Point(syntax, data[k]), Word(","))
                                    ELSE Point(syntax, data[k])
    IN  <<Word(syntax.open)>> \o FlattenSeq([k \in 1..Len(data) |-> Item(k)])
          \o <<Word(syntax.close)>>

\* The feed of xively, the device of aliyun, as configured.
Target(backend) ==
    IF backend = "aliyun" THEN Words(<<"/dev/", "dev_id">>)
                          ELSE Words(<<"/v2/feeds/", "feed_id", ".json">>)

Header(backend) ==
    IF backend = "aliyun"
    THEN Words(<<"Content-Type: application/x-www-form-urlencoded">>)
    ELSE Words(<<"X-ApiKey:", "api_key">>)

Method(backend) == IF backend = "aliyun" THEN "POST" ELSE "PUT"
Host(backend) == IF backend = "aliyun" THEN "115.29.178.169" ELSE "api.xively.com"

\* The request as it is built in the buffer of sshttp.c; body_len counts words.
HttpRequest(method, target, host, header, body) ==
    Words(<<method, " ">>) \o target \o Words(<<" ", "HTTP/1.1">>) \o <<CRLF>>
      \o Words(<<"Host:", host>>) \o <<CRLF>>
      \o header \o <<CRLF>>
      \o (IF Len(body) > 0
          THEN Words(<<"Content-Length", ":">>) \o <<Number(Len(body)), CRLF>>
          ELSE <<>>)
      \o <<CRLF>> \o body

UploadRequest(backend, raw, t) ==
    HttpRequest(Method(backend), Target(backend), Host(backend), Header(backend),
                Body(backend, DataPoints(raw, t)))
-----------------------------------------------------------------------------
(* The server.                                                                 *)

\* The lines before the blank one, without their ends.
HeaderEnd(text) == CHOOSE k \in 1..Len(text) :
    /\ text[k] = CRLF /\ text[k + 1] = CRLF
    /\ \A j \in 1..(k - 1) : ~(text[j] = CRLF /\ text[j + 1] = CRLF)

HeaderLines(text) ==
    LET ends == {0} \cup {k \in 1..HeaderEnd(text) : text[k] = CRLF}
        Previous(k) == Max({e \in ends : e < k})
    IN  {SubSeq(text, Previous(k) + 1, k - 1) : k \in ends \ {0}}

\* As much of the rest as Content-Length says.
ReceivedBody(text) ==
    LET first == HeaderEnd(text) + 2
        Lengths == {line[3].number : line \in
                      {l \in HeaderLines(text) : l[1] = Word("Content-Length")}}
    IN  SubSeq(text, first, first - 1 + (CHOOSE n \in Lengths : TRUE))

\* A form's field is decoded before it is read.
Decoded(text) ==
    CASE text = "data=%7B" -> "data={"
      [] text = "%22" -> "'"
      [] text = "%22%3a" -> "':"
      [] text = "%7D" -> "}"
      [] OTHER -> text

DecodedBody(backend, body) ==
    IF backend = "aliyun"
    THEN [k \in 1..Len(body) |-> [text |-> Decoded(body[k].text), number |-> body[k].number]]
    ELSE body

\* What the servers take: an object of members, a list of data streams.
Grammar(backend) ==
    IF backend = "aliyun"
    THEN [open |-> "data={", key |-> "'", value |-> "':", end |-> "", close |-> "}"]
    ELSE [open |-> "{'datastreams':[", key |-> "{'id':'", value |-> "','current_value':'",
          end |-> "'}", close |-> "]}"]

\* The points of a body that is in order: separated by commas, with one at least,
\* the blanks in front of a number skipped.
ReadPoints(grammar, body) ==
    LET n == (Len(body) - 1) \div 6
        At(k, j) == body[6 * (k - 1) + 1 + j]
    IN  IF /\ n > 0 /\ Len(body) = 6 * n + 1
           /\ body[1] = Word(grammar.open) /\ body[Len(body)] = Word(grammar.close)
           /\ \A k \in 1..n :
                /\ At(k, 1) = Word(grammar.key) /\ At(k, 3) = Word(grammar.value)
                /\ At(k, 5) = Word(grammar.end)
                /\ k < n => At(k, 6) = Word(",")
        THEN {[key |-> At(k, 2).text, value |-> At(k, 4).number] : k \in 1..n}
        ELSE {}

ReadRequest(backend, text) ==
    [lines |-> HeaderLines(text),
     points |-> ReadPoints(Grammar(backend), DecodedBody(backend, ReceivedBody(text)))]
=============================================================================
