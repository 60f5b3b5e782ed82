----------------------------- MODULE UploadProofs -----------------------------
(* Proofs about Upload.tla for every number of retries, every set of readings    *)
(* and status codes and every limit on descriptors.                             *)
EXTENDS Upload, Recursion, SequenceTheorems

\* A request holds a descriptor between socket() and its return, and every failed
\* connect() keeps its own.
Holding ==
    /\ pc \in {"connect", "send", "wait"} => fds = failed + 1
    /\ OnlyConnectLeaks

\* A 200, once made up by the server or received, says that the server has acted.
Vouched ==
    /\ pc = "wait" /\ replied = 200 => server > 0
    /\ pc = "returned" /\ ret = 200 => server > 0

\* Requests are counted, so the server acts at most once for each.
Counted ==
    /\ pc = "idle" => i = 0
    /\ pc \in {"resolve", "socket", "connect", "send"} => server < i /\ replied = NoReply
    /\ pc = "wait" /\ replied = NoReply => server < i
    /\ server <= i \/ pc = "idle"

\* While a reply is awaited nothing is left in the buffer that could be taken for it.
Cleared == pc = "wait" => buffer = <<>>

IInv == TypeOK /\ Holding /\ Vouched /\ Counted /\ Cleared /\ StatusIsReplied

\* An empty buffer has no status.
LEMMA ParseNothing == ParseResponce(<<>>) = -6
  BY DEF ParseResponce

\* The status of a reply ...
LEMMA ParseReply == \A s \in Statuses : ParseResponce(Reply(s)) = s
  <1> TAKE s \in Statuses
  <1> DEFINE b == Reply(s)
  <1>1. Len(b) = 4 /\ b[3] = CRLF /\ b[4] = CRLF
    BY DEF Reply
  <1>2. \E k \in 1..(Len(b) - 1) : b[k] = CRLF /\ b[k + 1] = CRLF
    <2>1. 3 \in 1..(Len(b) - 1) /\ b[3] = CRLF /\ b[3 + 1] = CRLF
      BY <1>1
    <2> QED BY <2>1
  <1>3. b[1] = Word("HTTP/1.1 ") /\ b[2].number = s
    BY DEF Reply, Number
  <1> QED
    BY <1>2, <1>3 DEF ParseResponce

\* ... or, of a part of it, at most that.
LEMMA ParsePart == \A s \in Statuses : ParseResponce(ReplyPart(s)) \in {s, -6}
  BY UploadAssumption DEF ParseResponce, ReplyPart, Word, Number, CRLF

\* The invariant holds at first.
LEMMA InitInvariant == Init => IInv
  BY UploadAssumption DEF Init, IInv, TypeOK, Holding, OnlyConnectLeaks, Vouched, Counted,
     Cleared, StatusIsReplied, NoReply

\* sshttp_request(), which does not touch i, the icon or, itself, the server.
LEMMA RequestKeeps == IInv /\ RequestStep => IInv'
  <1> SUFFICES ASSUME IInv, RequestStep PROVE IInv'
    OBVIOUS
  <1> USE UploadAssumption DEF IInv, TypeOK, Holding, OnlyConnectLeaks, Vouched, Counted,
          Cleared, StatusIsReplied, NoReply, remote, http
  <1>1. CASE GetAddrInfo
    BY <1>1 DEF GetAddrInfo, Return, Continue
  <1>2. CASE Socket
    BY <1>2 DEF Socket, Return, Continue
  <1>3. CASE Connect
    BY <1>3 DEF Connect, Return, Continue
  <1>4. CASE Send
    BY <1>4 DEF Send, Return, Continue
  <1>5. CASE Timeout
    BY <1>5 DEF Timeout, Return
  <1>6. CASE Receive
    <2>1. PICK r \in {-6, replied} : Return("wait", r, -1) /\ (r = -6 \/ replied # NoReply)
      BY <1>6, ParseNothing, ParseReply, ParsePart DEF Receive, Return
    <2>2. r = -6 \/ r = replied
      BY <2>1
    <2>3. failed' = failed
      BY <1>6 DEF Receive
    <2> QED
      BY <2>1, <2>2, <2>3 DEF Return
  <1> QED
    BY <1>1, <1>2, <1>3, <1>4, <1>5, <1>6 DEF RequestStep

\* Every step keeps it ...
LEMMA NextKeeps == IInv /\ [Next]_vars => IInv'
  <1> SUFFICES ASSUME IInv, [Next]_vars PROVE IInv'
    OBVIOUS
  <1> USE UploadAssumption DEF IInv, TypeOK, Holding, OnlyConnectLeaks, Vouched, Counted,
          Cleared, StatusIsReplied, NoReply, remote, http
  <1>1. CASE StartUpload
    BY <1>1 DEF StartUpload, Begin
  <1>2. CASE RequestStep
    BY <1>2, RequestKeeps
  <1>3. CASE Serve
    <2>1. server' \in {server, server + 1}
      BY <1>3 DEF Serve
    <2>2. /\ pc = "wait" /\ replied = NoReply
          /\ replied' \in Statuses /\ (replied' = 200 => server' > server)
          /\ UNCHANGED <<backend, pc, i, ret, fds, failed, buffer, net>>
      BY <1>3 DEF Serve
    <2>3. server' \in 0..RETRY_TIMES /\ server' <= i /\ server <= server'
      BY <2>1, <2>2
    <2>4. TypeOK'
      BY <2>2, <2>3
    <2>5. replied' # NoReply /\ (replied' = 200 => server' > 0)
      <3>1. replied' \in 0..999
        BY <2>2
      <3>2. server \in Nat
        BY DEF TypeOK
      <3>3. replied' # NoReply
        BY <3>1
      <3>4. replied' = 200 => server' > 0
        BY <2>2, <2>3, <3>2
      <3> QED
        BY <3>3, <3>4
    <2>6. Vouched' /\ Counted'
      BY <2>2, <2>3, <2>5
    <2>7. Holding' /\ Cleared' /\ StatusIsReplied'
      BY <2>2
    <2> QED
      BY <2>4, <2>6, <2>7
  <1>4. CASE Retry
    BY <1>4 DEF Retry, Begin
  <1>5. CASE EndUpload
    BY <1>5 DEF EndUpload, Result
  <1>6. CASE UNCHANGED vars
    BY <1>6 DEF vars
  <1> QED
    BY <1>1, <1>2, <1>3, <1>4, <1>5, <1>6 DEF Next

\* ... so it holds for ever.
LEMMA Invariance == Spec => []IInv
  <1> QED BY InitInvariant, NextKeeps, PTL DEF Spec

(* Upload is type correct: no request returns more descriptors than it holds     *)
(* (sshttp.c:31-205), and the server acts at most RETRY_TIMES times on a reading  *)
(* (upload.c:87-97, xively.c:103-113).                                          *)
THEOREM TypeCorrect == Spec => []TypeOK
  <1>1. IInv => TypeOK
    BY DEF IInv
  <1> QED BY <1>1, Invariance, PTL

(* Descriptors are lost to failed connects only, one to each (sshttp.c:60-205).   *)
THEOREM Leaks == Spec => []OnlyConnectLeaks
  <1>1. IInv => OnlyConnectLeaks
    BY DEF IInv, Holding
  <1> QED BY <1>1, Invariance, PTL

(* No status but the server's answer to the request itself is ever returned,      *)
(* although one buffer holds every request and every reply (sshttp.c:75-204).     *)
THEOREM StatusIsTrue == Spec => []StatusIsReplied
  <1>1. IInv => StatusIsReplied
    BY DEF IInv
  <1> QED BY <1>1, Invariance, PTL

(* The network icon tells what became of the reading, with the exception of       *)
(* aliyun's status 0 (main.c:1196-1208, upload.c:99).                            *)
THEOREM IconIsTrue == Spec => []IconTellsOutcome
  <1>1. Init => IconTellsOutcome
    BY DEF Init, IconTellsOutcome
  <1>2. IInv /\ IconTellsOutcome /\ [Next]_vars => IconTellsOutcome'
    <2> SUFFICES ASSUME IInv, IconTellsOutcome, [Next]_vars PROVE IconTellsOutcome'
      OBVIOUS
    <2>1. CASE EndUpload
      BY <2>1, UploadAssumption
         DEF EndUpload, Result, IInv, TypeOK, Vouched, IconTellsOutcome, remote
    <2>2. CASE StartUpload \/ Retry
      BY <2>2 DEF StartUpload, Retry, Begin, IconTellsOutcome
    <2>3. CASE Serve
      BY <2>3 DEF Serve, IconTellsOutcome
    <2>4. CASE RequestStep
      BY <2>4 DEF RequestStep, GetAddrInfo, Socket, Connect, Send, Timeout, Receive, Return,
                  Continue, IconTellsOutcome
    <2>5. CASE UNCHANGED vars
      BY <2>5 DEF vars, remote, IconTellsOutcome
    <2> QED
      BY <2>1, <2>2, <2>3, <2>4, <2>5 DEF Next
  <1> QED BY <1>1, <1>2, Invariance, PTL DEF Spec
-----------------------------------------------------------------------------
(* The request, from the words that go into it to what the server reads.  First  *)
(* where each word of a request is, then that the server finds them there.       *)

\* The words of requests.
Spoken ==
    {"number", "number in a field of ten", "\r\n", "HTTP/1.1", " ", "POST", "PUT", "/dev/", "dev_id", "/v2/feeds/",
     "feed_id", ".json", "Host:", "115.29.178.169", "api.xively.com", "X-ApiKey:", "api_key",
     "Content-Type: application/x-www-form-urlencoded", "Content-Length", ":",
     "data=%7B", "%22", "%22%3a", "%7D",
     "data={", "'", "':", "", "}", "{'datastreams':[", "{'id':'", "','current_value':'", "'}",
     "]}", ",", KEY_RAW_DATA, KEY_TEMP}

Texts == [text : Spoken, number : Int]

\* Words and numbers.
LEMMA WordsAreTexts ==
  /\ \A s \in Spoken : Word(s) \in Texts
  /\ \A n \in Int : Number(n) \in Texts /\ Printed(n) \in Texts
  /\ CRLF \in Texts
  /\ \A s, t : Word(s) = Word(t) => s = t
  /\ \A n : Number(n) # CRLF
<1>1. ASSUME NEW s \in Spoken, NEW n \in Int PROVE [text |-> s, number |-> n] \in Texts
  BY DEF Texts
<1>2. \A s \in Spoken : Word(s) \in Texts
  BY <1>1 DEF Word
<1>3. "number" \in Spoken /\ "number in a field of ten" \in Spoken /\ "\r\n" \in Spoken
  BY DEF Spoken
<1>4. \A n \in Int : Number(n) \in Texts /\ Printed(n) \in Texts
  BY <1>1, <1>3 DEF Number, Printed
<1>5. CRLF \in Texts
  BY <1>2, <1>3 DEF CRLF
<1>6. ASSUME NEW s, NEW t, Word(s) = Word(t) PROVE s = t
  <2>1. Word(s).text = s /\ Word(t).text = t
    BY DEF Word
  <2> QED
    BY <1>6, <2>1
<1>7. ASSUME NEW n PROVE Number(n) # CRLF
  <2>1. Number(n).text = "number" /\ CRLF.text = "\r\n"
    BY DEF Number, CRLF, Word
  <2> QED
    BY <2>1
<1> QED
  BY <1>2, <1>4, <1>5, <1>6, <1>7

\* A text of a few words.
LEMMA WordsOf ==
  ASSUME NEW n \in Nat, NEW s, Len(s) = n, \A k \in 1..n : s[k] \in Spoken
  PROVE  /\ Words(s) \in Seq(Texts) /\ Len(Words(s)) = n
         /\ \A k \in 1..n : Words(s)[k] = Word(s[k])
<1> DEFINE w == [k \in 1..n |-> Word(s[k])]
<1>1. Words(s) = w
  BY DEF Words
<1>2. \A k \in 1..n : Word(s[k]) \in Texts
  BY WordsAreTexts
<1>3. w \in [1..n -> Texts] /\ \A k \in 1..n : w[k] = Word(s[k])
  BY <1>2
<1> HIDE DEF w
<1> QED
  BY <1>1, <1>3

\* A text of one word, ...
LEMMA OneWord ==
  ASSUME NEW a \in Spoken
  PROVE  /\ Words(<<a>>) \in Seq(Texts) /\ Len(Words(<<a>>)) = 1
         /\ Words(<<a>>)[1] = Word(a)
<1> DEFINE s == <<a>>
<1>1. Len(s) = 1 /\ s[1] = a /\ \A k \in 1..1 : s[k] \in Spoken
  <2>1. \A k \in 1..1 : k = 1
    OBVIOUS
  <2> QED
    BY <2>1
<1> HIDE DEF s
<1>2. /\ Words(s) \in Seq(Texts) /\ Len(Words(s)) = 1
      /\ \A k \in 1..1 : Words(s)[k] = Word(s[k])
  BY <1>1, WordsOf
<1> QED
  BY <1>1, <1>2 DEF s

\* ... of two ...
LEMMA TwoWords ==
  ASSUME NEW a \in Spoken, NEW b \in Spoken
  PROVE  /\ Words(<<a, b>>) \in Seq(Texts) /\ Len(Words(<<a, b>>)) = 2
         /\ Words(<<a, b>>)[1] = Word(a) /\ Words(<<a, b>>)[2] = Word(b)
<1> DEFINE s == <<a, b>>
<1>1. Len(s) = 2 /\ s[1] = a /\ s[2] = b /\ \A k \in 1..2 : s[k] \in Spoken
  <2>1. \A k \in 1..2 : k = 1 \/ k = 2
    OBVIOUS
  <2> QED
    BY <2>1
<1> HIDE DEF s
<1>2. /\ Words(s) \in Seq(Texts) /\ Len(Words(s)) = 2
      /\ \A k \in 1..2 : Words(s)[k] = Word(s[k])
  BY <1>1, WordsOf
<1> QED
  BY <1>1, <1>2 DEF s

\* What is appended to a text comes after it.
LEMMA Joined ==
  ASSUME NEW s \in Seq(Texts), NEW t \in Seq(Texts)
  PROVE  /\ s \o t \in Seq(Texts)
         /\ Len(s \o t) = Len(s) + Len(t)
         /\ Len(s) \in Nat /\ Len(t) \in Nat
         /\ \A k \in 1..Len(s) : (s \o t)[k] = s[k]
         /\ \A k \in Len(s)+1..Len(s)+Len(t) : (s \o t)[k] = t[k - Len(s)]
<1>1. Len(s) \in Nat /\ Len(t) \in Nat
  OBVIOUS
<1>2. /\ s \o t \in Seq(Texts)
      /\ Len(s \o t) = Len(s) + Len(t)
      /\ \A e \in 1 .. Len(s) + Len(t) : (s \o t)[e] =
                     IF e <= Len(s) THEN s[e] ELSE t[e - Len(s)]
  BY ConcatProperties
<1>3. \A k \in 1..Len(s) : (s \o t)[k] = s[k]
  BY <1>1, <1>2
<1>4. \A k \in Len(s)+1..Len(s)+Len(t) : (s \o t)[k] = t[k - Len(s)]
  BY <1>1, <1>2
<1> QED
  BY <1>1, <1>2, <1>3, <1>4

Blank == Word(" ")

Plain(s) == \A k \in 1..Len(s) : s[k] # CRLF

\* Where the words of a request are.
Placed(text, method, target, host, header, body) ==
    LET A == Len(target)
        B == Len(header)
    IN  /\ text \in Seq(Texts) /\ Len(text) = 14 + A + B + Len(body)
        /\ text[1] = Word(method) /\ text[2] = Blank
        /\ \A k \in 3..2+A : text[k] = target[k - 2]
        /\ text[3 + A] = Blank /\ text[4 + A] = Word("HTTP/1.1")
        /\ text[5 + A] = CRLF
        /\ text[6 + A] = Word("Host:") /\ text[7 + A] = Word(host)
        /\ text[8 + A] = CRLF
        /\ \A k \in 9+A..8+A+B : text[k] = header[k - (8 + A)]
        /\ text[9 + A + B] = CRLF
        /\ text[10 + A + B] = Word("Content-Length") /\ text[11 + A + B] = Word(":")
        /\ text[12 + A + B] = Number(Len(body))
        /\ text[13 + A + B] = CRLF /\ text[14 + A + B] = CRLF
        /\ \A k \in 15+A+B..14+A+B+Len(body) : text[k] = body[k - (14 + A + B)]

\* The words of the first line.
RequestLine(method, target) == Words(<<method, " ">>) \o target \o Words(<<" ", "HTTP/1.1">>)

\* Where the words of the first line are.
LEMMA LinePlaced ==
  ASSUME NEW method \in Spoken, NEW target \in Seq(Texts), NEW line,
         line = RequestLine(method, target)
  PROVE  LET A == Len(target)
         IN  /\ line \in Seq(Texts) /\ Len(line) = 4 + A
             /\ line[1] = Word(method) /\ line[2] = Blank
             /\ \A k \in 3..2+A : line[k] = target[k - 2]
             /\ line[3 + A] = Blank /\ line[4 + A] = Word("HTTP/1.1")
<1> DEFINE A == Len(target)
           w0 == Words(<<method, " ">>)
           w1 == Words(<<" ", "HTTP/1.1">>)
           s1 == w0 \o target
           s2 == s1 \o w1
<1>0. line = s2
  BY DEF RequestLine
<1>1. A \in Nat
  OBVIOUS
<1> HIDE DEF A
<1>2. " " \in Spoken /\ "HTTP/1.1" \in Spoken
  BY DEF Spoken
<1>3. w0 \in Seq(Texts) /\ Len(w0) = 2 /\ w0[1] = Word(method) /\ w0[2] = Blank
  BY <1>2, TwoWords DEF Blank
<1>4. w1 \in Seq(Texts) /\ Len(w1) = 2 /\ w1[1] = Blank /\ w1[2] = Word("HTTP/1.1")
  BY <1>2, TwoWords DEF Blank
<1> HIDE DEF w0, w1
<1>10. /\ s1 \in Seq(Texts) /\ Len(s1) = 2 + A
       /\ s1[1] = Word(method) /\ s1[2] = Blank
       /\ \A k \in 3..2+A : s1[k] = target[k - 2]
  <2>1. /\ s1 \in Seq(Texts) /\ Len(s1) = Len(w0) + A
        /\ \A k \in 1..Len(w0) : s1[k] = w0[k]
        /\ \A k \in Len(w0)+1..Len(w0)+A : s1[k] = target[k - Len(w0)]
    BY <1>3, Joined DEF A
  <2> HIDE DEF s1
  <2>2. Len(s1) = 2 + A
    BY <1>1, <1>3, <2>1
  <2>3. s1[1] = w0[1] /\ s1[2] = w0[2]
    BY <1>1, <1>3, <2>1
  <2>4. \A k \in 3..2+A : s1[k] = target[k - 2]
    BY <1>1, <1>3, <2>1
  <2> QED
    BY <1>1, <1>3, <2>1, <2>2, <2>3, <2>4
<1> HIDE DEF s1
<1>11. /\ s2 \in Seq(Texts) /\ Len(s2) = 4 + A
       /\ \A k \in 1..2+A : s2[k] = s1[k]
       /\ s2[3 + A] = Blank /\ s2[4 + A] = Word("HTTP/1.1")
  <2>1. /\ s2 \in Seq(Texts) /\ Len(s2) = Len(s1) + Len(w1)
        /\ \A k \in 1..Len(s1) : s2[k] = s1[k]
        /\ \A k \in Len(s1)+1..Len(s1)+Len(w1) : s2[k] = w1[k - Len(s1)]
    BY <1>4, <1>10, Joined
  <2> HIDE DEF s2
  <2>2. Len(s1) = 2 + A /\ Len(w1) = 2
    BY <1>4, <1>10
  <2>3. /\ 3 + A \in Len(s1)+1..Len(s1)+Len(w1) /\ (3 + A) - Len(s1) = 1
        /\ 4 + A \in Len(s1)+1..Len(s1)+Len(w1) /\ (4 + A) - Len(s1) = 2
    BY <1>1, <2>2
  <2> QED
    BY <1>1, <1>4, <1>10, <2>1, <2>2, <2>3
<1> HIDE DEF s2
<1>12. /\ s2[1] = Word(method) /\ s2[2] = Blank
       /\ \A k \in 3..2+A : s2[k] = target[k - 2]
  BY <1>1, <1>10, <1>11
<1> QED
  BY <1>0, <1>11, <1>12 DEF A

\* Each word of a request is where it was put.
LEMMA RequestPlaced ==
  ASSUME NEW method \in Spoken, NEW host \in Spoken,
         NEW target \in Seq(Texts), NEW header \in Seq(Texts), NEW body \in Seq(Texts),
         Len(body) > 0
  PROVE  Placed(HttpRequest(method, target, host, header, body),
                method, target, host, header, body)
<1> DEFINE A == Len(target)
           B == Len(header)
           N == Len(body)
           w2 == Words(<<"Host:", host>>)
           w3 == Words(<<"Content-Length", ":">>)
           w4 == <<Number(N), CRLF>>
           w5 == w3 \o w4
           e == <<CRLF>>
           s2 == RequestLine(method, target)
           s3 == s2 \o e
           s4 == s3 \o w2
           s5 == s4 \o e
           s6 == s5 \o header
           s7 == s6 \o e
           s8 == s7 \o w5
           s9 == s8 \o e
           s10 == s9 \o body
<1>0. HttpRequest(method, target, host, header, body) = s10
  BY DEF HttpRequest, RequestLine
<1>1. A \in Nat /\ B \in Nat /\ N \in Nat
  OBVIOUS
<1> HIDE DEF A, B, N
<1>2. /\ "Host:" \in Spoken /\ "Content-Length" \in Spoken /\ ":" \in Spoken
  BY DEF Spoken
<1>5. w2 \in Seq(Texts) /\ Len(w2) = 2 /\ w2[1] = Word("Host:") /\ w2[2] = Word(host)
  BY <1>2, TwoWords
<1>6. w3 \in Seq(Texts) /\ Len(w3) = 2 /\ w3[1] = Word("Content-Length") /\ w3[2] = Word(":")
  BY <1>2, TwoWords
<1>7. w4 \in Seq(Texts) /\ Len(w4) = 2 /\ w4[1] = Number(N) /\ w4[2] = CRLF
  BY <1>1, WordsAreTexts
<1>8. e \in Seq(Texts) /\ Len(e) = 1 /\ e[1] = CRLF
  BY WordsAreTexts
<1> HIDE DEF w2, w3, w4, e
<1>9. /\ w5 \in Seq(Texts) /\ Len(w5) = 4
      /\ w5[1] = Word("Content-Length") /\ w5[2] = Word(":") /\ w5[3] = Number(N) /\ w5[4] = CRLF
  <2>1. /\ w5 \in Seq(Texts) /\ Len(w5) = Len(w3) + Len(w4)
        /\ \A k \in 1..Len(w3) : w5[k] = w3[k]
        /\ \A k \in Len(w3)+1..Len(w3)+Len(w4) : w5[k] = w4[k - Len(w3)]
    BY <1>6, <1>7, Joined
  <2> HIDE DEF w5
  <2>2. w5[1] = w3[1] /\ w5[2] = w3[2] /\ w5[2+1] = w4[1] /\ w5[2+2] = w4[2]
    BY <1>6, <1>7, <2>1
  <2> QED
    BY <1>6, <1>7, <2>1, <2>2
<1> HIDE DEF w5
<1>11. /\ s2 \in Seq(Texts) /\ Len(s2) = 4 + A
       /\ s2[1] = Word(method) /\ s2[2] = Blank
       /\ \A k \in 3..2+A : s2[k] = target[k - 2]
       /\ s2[3 + A] = Blank /\ s2[4 + A] = Word("HTTP/1.1")
  BY LinePlaced DEF RequestLine, A
<1> HIDE DEF s2
<1>12. /\ s3 \in Seq(Texts) /\ Len(s3) = 5 + A
       /\ \A k \in 1..4+A : s3[k] = s2[k]
       /\ s3[5 + A] = CRLF
  <2>1. /\ s3 \in Seq(Texts) /\ Len(s3) = Len(s2) + Len(e)
        /\ \A k \in 1..Len(s2) : s3[k] = s2[k]
        /\ \A k \in Len(s2)+1..Len(s2)+Len(e) : s3[k] = e[k - Len(s2)]
    BY <1>8, <1>11, Joined
  <2> HIDE DEF s3
  <2>2. s3[(4+A)+1] = e[1] /\ (4+A)+1 = 5+A
    BY <1>1, <1>8, <1>11, <2>1
  <2> QED
    BY <1>1, <1>8, <1>11, <2>1, <2>2
<1> HIDE DEF s3
<1>13. /\ s4 \in Seq(Texts) /\ Len(s4) = 7 + A
       /\ \A k \in 1..5+A : s4[k] = s3[k]
       /\ s4[6 + A] = Word("Host:") /\ s4[7 + A] = Word(host)
  <2>1. /\ s4 \in Seq(Texts) /\ Len(s4) = Len(s3) + Len(w2)
        /\ \A k \in 1..Len(s3) : s4[k] = s3[k]
        /\ \A k \in Len(s3)+1..Len(s3)+Len(w2) : s4[k] = w2[k - Len(s3)]
    BY <1>5, <1>12, Joined
  <2> HIDE DEF s4
  <2>2. s4[(5+A)+1] = w2[1] /\ s4[(5+A)+2] = w2[2] /\ (5+A)+1 = 6+A /\ (5+A)+2 = 7+A
    BY <1>1, <1>5, <1>12, <2>1
  <2> QED
    BY <1>1, <1>5, <1>12, <2>1, <2>2
<1> HIDE DEF s4
<1>14. /\ s5 \in Seq(Texts) /\ Len(s5) = 8 + A
       /\ \A k \in 1..7+A : s5[k] = s4[k]
       /\ s5[8 + A] = CRLF
  <2>1. /\ s5 \in Seq(Texts) /\ Len(s5) = Len(s4) + Len(e)
        /\ \A k \in 1..Len(s4) : s5[k] = s4[k]
        /\ \A k \in Len(s4)+1..Len(s4)+Len(e) : s5[k] = e[k - Len(s4)]
    BY <1>8, <1>13, Joined
  <2> HIDE DEF s5
  <2>2. s5[(7+A)+1] = e[1] /\ (7+A)+1 = 8+A
    BY <1>1, <1>8, <1>13, <2>1
  <2> QED
    BY <1>1, <1>8, <1>13, <2>1, <2>2
<1> HIDE DEF s5
<1>15. /\ s6 \in Seq(Texts) /\ Len(s6) = 8 + A + B
       /\ \A k \in 1..8+A : s6[k] = s5[k]
       /\ \A k \in 9+A..8+A+B : s6[k] = header[k - (8 + A)]
  <2>1. /\ s6 \in Seq(Texts) /\ Len(s6) = Len(s5) + Len(header)
        /\ \A k \in 1..Len(s5) : s6[k] = s5[k]
        /\ \A k \in Len(s5)+1..Len(s5)+Len(header) : s6[k] = header[k - Len(s5)]
    BY <1>14, Joined
  <2> HIDE DEF s6
  <2> QED
    BY <1>1, <1>14, <2>1 DEF B
<1> HIDE DEF s6
<1>16. /\ s7 \in Seq(Texts) /\ Len(s7) = 9 + A + B
       /\ \A k \in 1..8+A+B : s7[k] = s6[k]
       /\ s7[9 + A + B] = CRLF
  <2>1. /\ s7 \in Seq(Texts) /\ Len(s7) = Len(s6) + Len(e)
        /\ \A k \in 1..Len(s6) : s7[k] = s6[k]
        /\ \A k \in Len(s6)+1..Len(s6)+Len(e) : s7[k] = e[k - Len(s6)]
    BY <1>8, <1>15, Joined
  <2> HIDE DEF s7
  <2>2. s7[(8+A+B)+1] = e[1] /\ (8+A+B)+1 = 9+A+B
    BY <1>1, <1>8, <1>15, <2>1
  <2> QED
    BY <1>1, <1>8, <1>15, <2>1, <2>2
<1> HIDE DEF s7
<1>17. /\ s8 \in Seq(Texts) /\ Len(s8) = 13 + A + B
       /\ \A k \in 1..9+A+B : s8[k] = s7[k]
       /\ s8[10 + A + B] = Word("Content-Length") /\ s8[11 + A + B] = Word(":")
       /\ s8[12 + A + B] = Number(N) /\ s8[13 + A + B] = CRLF
  <2>1. /\ s8 \in Seq(Texts) /\ Len(s8) = Len(s7) + Len(w5)
        /\ \A k \in 1..Len(s7) : s8[k] = s7[k]
        /\ \A k \in Len(s7)+1..Len(s7)+Len(w5) : s8[k] = w5[k - Len(s7)]
    BY <1>9, <1>16, Joined
  <2> HIDE DEF s8
  <2>2. Len(s7) = 9 + A + B /\ Len(w5) = 4
    BY <1>9, <1>16
  <2>3. /\ 10 + A + B \in Len(s7)+1..Len(s7)+Len(w5) /\ (10 + A + B) - Len(s7) = 1
        /\ 11 + A + B \in Len(s7)+1..Len(s7)+Len(w5) /\ (11 + A + B) - Len(s7) = 2
        /\ 12 + A + B \in Len(s7)+1..Len(s7)+Len(w5) /\ (12 + A + B) - Len(s7) = 3
        /\ 13 + A + B \in Len(s7)+1..Len(s7)+Len(w5) /\ (13 + A + B) - Len(s7) = 4
    BY <1>1, <2>2
  <2>4. /\ s8[10 + A + B] = w5[1] /\ s8[11 + A + B] = w5[2]
        /\ s8[12 + A + B] = w5[3] /\ s8[13 + A + B] = w5[4]
    BY <2>1, <2>3
  <2>5. Len(s8) = 13 + A + B
    BY <1>1, <2>1, <2>2
  <2> QED
    BY <1>9, <2>1, <2>2, <2>4, <2>5
<1> HIDE DEF s8
<1>18. /\ s9 \in Seq(Texts) /\ Len(s9) = 14 + A + B
       /\ \A k \in 1..13+A+B : s9[k] = s8[k]
       /\ s9[14 + A + B] = CRLF
  <2>1. /\ s9 \in Seq(Texts) /\ Len(s9) = Len(s8) + Len(e)
        /\ \A k \in 1..Len(s8) : s9[k] = s8[k]
        /\ \A k \in Len(s8)+1..Len(s8)+Len(e) : s9[k] = e[k - Len(s8)]
    BY <1>8, <1>17, Joined
  <2> HIDE DEF s9
  <2>2. s9[(13+A+B)+1] = e[1] /\ (13+A+B)+1 = 14+A+B
    BY <1>1, <1>8, <1>17, <2>1
  <2> QED
    BY <1>1, <1>8, <1>17, <2>1, <2>2
<1> HIDE DEF s9
<1>19. /\ s10 \in Seq(Texts) /\ Len(s10) = 14 + A + B + N
       /\ \A k \in 1..14+A+B : s10[k] = s9[k]
       /\ \A k \in 15+A+B..14+A+B+N : s10[k] = body[k - (14 + A + B)]
  <2>1. /\ s10 \in Seq(Texts) /\ Len(s10) = Len(s9) + Len(body)
        /\ \A k \in 1..Len(s9) : s10[k] = s9[k]
        /\ \A k \in Len(s9)+1..Len(s9)+Len(body) : s10[k] = body[k - Len(s9)]
    BY <1>18, Joined
  <2> HIDE DEF s10
  <2> QED
    BY <1>1, <1>18, <2>1 DEF N
<1> HIDE DEF s10
\* Each part is still where it was put.
<1>20. \A k \in 1..13+A+B : s10[k] = s8[k]
  BY <1>1, <1>18, <1>19
<1>21. \A k \in 1..9+A+B : s10[k] = s7[k]
  BY <1>1, <1>17, <1>20
<1>22. \A k \in 1..8+A+B : s10[k] = s6[k]
  BY <1>1, <1>16, <1>21
<1>23. \A k \in 1..8+A : s10[k] = s5[k]
  BY <1>1, <1>15, <1>22
<1>24. \A k \in 1..7+A : s10[k] = s4[k]
  BY <1>1, <1>14, <1>23
<1>25. \A k \in 1..5+A : s10[k] = s3[k]
  BY <1>1, <1>13, <1>24
<1>26. \A k \in 1..4+A : s10[k] = s2[k]
  BY <1>1, <1>12, <1>25
<1>28. /\ s10[1] = Word(method) /\ s10[2] = Blank
       /\ \A k \in 3..2+A : s10[k] = target[k - 2]
  BY <1>1, <1>11, <1>26
<1>29. /\ s10[3 + A] = Blank /\ s10[4 + A] = Word("HTTP/1.1")
       /\ s10[5 + A] = CRLF
  BY <1>1, <1>11, <1>12, <1>25, <1>26
<1>30. /\ s10[6 + A] = Word("Host:") /\ s10[7 + A] = Word(host)
       /\ s10[8 + A] = CRLF
  BY <1>1, <1>13, <1>14, <1>23, <1>24
<1>31. /\ \A k \in 9+A..8+A+B : s10[k] = header[k - (8 + A)]
       /\ s10[9 + A + B] = CRLF
  BY <1>1, <1>15, <1>16, <1>21, <1>22
<1>32. /\ s10[10 + A + B] = Word("Content-Length") /\ s10[11 + A + B] = Word(":")
       /\ s10[12 + A + B] = Number(N) /\ s10[13 + A + B] = CRLF
       /\ s10[14 + A + B] = CRLF
  BY <1>1, <1>17, <1>18, <1>19, <1>20
<1> QED
  BY <1>0, <1>19, <1>28, <1>29, <1>30, <1>31, <1>32 DEF Placed, A, B, N


\* The lines of a request: its ends, and nothing else, are CRLF.
LEMMA RequestEnds ==
  ASSUME NEW method, NEW host, NEW target \in Seq(Texts), NEW header \in Seq(Texts),
         NEW body, NEW text, Placed(text, method, target, host, header, body),
         Word(method) # CRLF, Word(host) # CRLF, Plain(target), Plain(header)
  PROVE  LET A == Len(target)
             B == Len(header)
         IN  \A k \in 1..13+A+B : text[k] = CRLF <=> k \in {5+A, 8+A, 9+A+B, 13+A+B}
<1> DEFINE A == Len(target)
           B == Len(header)
<1>1. A \in Nat /\ B \in Nat
  OBVIOUS
<1> HIDE DEF A, B
<1>2. ASSUME NEW s, s # "\r\n" PROVE Word(s) # CRLF
  BY <1>2, WordsAreTexts DEF CRLF
<1>3. Blank # CRLF
  BY <1>2 DEF Blank
<1>4. /\ Word("HTTP/1.1") # CRLF /\ Word("Host:") # CRLF
      /\ Word("Content-Length") # CRLF /\ Word(":") # CRLF
  BY <1>2
<1>5. text[1] # CRLF /\ text[2] # CRLF
  BY <1>3 DEF Placed
<1>6. ASSUME NEW k \in 3..2+A PROVE text[k] # CRLF
  <2>1. text[k] = target[k - 2] /\ k - 2 \in 1..Len(target)
    BY <1>1 DEF Placed, A
  <2> QED
    BY <2>1 DEF Plain
<1>7. text[3 + A] # CRLF /\ text[4 + A] # CRLF /\ text[5 + A] = CRLF
  BY <1>3, <1>4 DEF Placed, A
<1>8. text[6 + A] # CRLF /\ text[7 + A] # CRLF /\ text[8 + A] = CRLF
  BY <1>4 DEF Placed, A
<1>9. ASSUME NEW k \in 9+A..8+A+B PROVE text[k] # CRLF
  <2>1. text[k] = header[k - (8 + A)]
    BY DEF Placed, A, B
  <2>2. k - (8 + A) \in 1..Len(header)
    BY <1>1 DEF B
  <2> QED
    BY <2>1, <2>2 DEF Plain
<1>10. text[9 + A + B] = CRLF /\ text[13 + A + B] = CRLF
  BY DEF Placed, A, B
<1>11. text[10 + A + B] # CRLF /\ text[11 + A + B] # CRLF
  BY <1>4 DEF Placed, A, B
<1>12. text[12 + A + B] # CRLF
  BY WordsAreTexts DEF Placed, A, B
<1>13. ASSUME NEW k \in 1..13+A+B
       PROVE  text[k] = CRLF <=> k \in {5+A, 8+A, 9+A+B, 13+A+B}
  <2>1. \/ k = 1 \/ k = 2 \/ k \in 3..2+A \/ k = 3+A \/ k = 4+A \/ k = 5+A
        \/ k = 6+A \/ k = 7+A \/ k = 8+A \/ k \in 9+A..8+A+B
        \/ k = 9+A+B \/ k = 10+A+B \/ k = 11+A+B \/ k = 12+A+B \/ k = 13+A+B
    BY <1>1
  <2>2. CASE k \in {5+A, 8+A, 9+A+B, 13+A+B}
    BY <2>2, <1>7, <1>8, <1>10
  <2>3. CASE k \notin {5+A, 8+A, 9+A+B, 13+A+B}
    BY <2>1, <2>3, <1>5, <1>6, <1>7, <1>8, <1>9, <1>11, <1>12
  <2> QED
    BY <2>2, <2>3
<1> QED
  BY <1>13 DEF A, B

\* What the maximum of a set is.
LEMMA MaxIs ==
  ASSUME NEW S, NEW m \in S, m \in Int, \A n \in S : n \in Int /\ m >= n
  PROVE  Max(S) = m
<1>1. \A n \in S : (\A y \in S : n >= y) => n = m
  OBVIOUS
<1> QED
  BY <1>1 DEF Max

\* The server finds the line of the request, the header it was given and the body.
LEMMA RequestRead ==
  ASSUME NEW method \in Spoken, NEW host \in Spoken, NEW target \in Seq(Texts),
         NEW header \in Seq(Texts), NEW body \in Seq(Texts), NEW text,
         Placed(text, method, target, host, header, body),
         Word(method) # CRLF, Word(host) # CRLF, Plain(target), Plain(header),
         Len(header) > 0, header[1] # Word("Content-Length"), method # "Content-Length"
  PROVE  /\ RequestLine(method, target) \in HeaderLines(text)
         /\ header \in HeaderLines(text)
         /\ ReceivedBody(text) = body
<1> DEFINE A == Len(target)
           B == Len(header)
           E == 13 + A + B
           N == Len(body)
<1>1. A \in Nat /\ B \in Nat /\ B > 0 /\ N \in Nat /\ E \in Nat
  OBVIOUS
<1>2. \A k \in 1..E : text[k] = CRLF <=> k \in {5+A, 8+A, 9+A+B, 13+A+B}
  BY RequestEnds
<1>3. text[14+A+B] = CRLF
  BY DEF Placed
<1>4. text \in Seq(Texts) /\ Len(text) = 14 + A + B + N
  BY DEF Placed
<1> HIDE DEF A, B, N
<1>5. HeaderEnd(text) = E
  <2> DEFINE P(k) == /\ text[k] = CRLF /\ text[k + 1] = CRLF
                     /\ \A j \in 1..(k - 1) : ~(text[j] = CRLF /\ text[j + 1] = CRLF)
  <2>1. ASSUME NEW j \in 1..E-1 PROVE ~(text[j] = CRLF /\ text[j + 1] = CRLF)
    <3>1. j \in 1..E /\ j + 1 \in 1..E
      BY <1>1
    <3>2. ~(j \in {5+A, 8+A, 9+A+B, 13+A+B} /\ j + 1 \in {5+A, 8+A, 9+A+B, 13+A+B})
      BY <1>1
    <3> QED
      BY <1>2, <3>1, <3>2
  <2>2. E \in 1..Len(text) /\ P(E)
    <3>1. E \in 1..E /\ E + 1 = 14 + A + B /\ E \in 1..Len(text)
      BY <1>1, <1>4
    <3>2. text[E] = CRLF
      BY <1>2, <3>1
    <3> QED
      BY <1>3, <2>1, <3>1, <3>2
  <2>3. ASSUME NEW k \in 1..Len(text), P(k) PROVE k = E
    <3>1. ~(k < E)
      <4> SUFFICES ASSUME k < E PROVE FALSE
        OBVIOUS
      <4>1. k \in 1..E-1
        BY <1>1
      <4> QED
        BY <2>1, <2>3, <4>1
    <3>2. ~(E < k)
      <4> SUFFICES ASSUME E < k PROVE FALSE
        OBVIOUS
      <4>1. E \in 1..k-1
        BY <1>1
      <4>2. text[E] = CRLF /\ text[E+1] = CRLF
        BY <2>2
      <4> QED
        BY <2>3, <4>1, <4>2
    <3>3. k \in Int /\ E \in Int
      BY <1>1
    <3> QED
      BY <3>1, <3>2, <3>3
  <2>4. HeaderEnd(text) = CHOOSE k \in 1..Len(text) : P(k)
    BY DEF HeaderEnd
  <2> HIDE DEF P, E
  <2> QED
    BY <2>2, <2>3, <2>4
<1> DEFINE ends == {0} \cup {k \in 1..HeaderEnd(text) : text[k] = CRLF}
           Previous(k) == Max({e \in ends : e < k})
<1>6. HeaderLines(text) = {SubSeq(text, Previous(k) + 1, k - 1) : k \in ends \ {0}}
  BY DEF HeaderLines
<1>7. ends = {0, 5+A, 8+A, 9+A+B, 13+A+B}
  <2>1. \A k \in {5+A, 8+A, 9+A+B, 13+A+B} : k \in 1..E
    BY <1>1
  <2>2. {k \in 1..E : text[k] = CRLF} = {5+A, 8+A, 9+A+B, 13+A+B}
    BY <1>2, <2>1
  <2> QED
    BY <1>5, <2>2
<1> HIDE DEF ends
<1>9. Previous(5+A) = 0
  <2> DEFINE S == {e \in ends : e < 5+A}
  <2>1. S = {0}
    BY <1>1, <1>7
  <2>2. 0 \in S /\ 0 \in Int /\ \A n \in S : n \in Int /\ 0 >= n
    BY <1>1, <2>1
  <2> HIDE DEF S
  <2>3. Max(S) = 0
    BY <2>2, MaxIs
  <2> QED
    BY <2>3 DEF S
<1>10. Previous(8+A) = 5+A
  <2> DEFINE S == {e \in ends : e < 8+A}
  <2>1. S = {0, 5+A}
    BY <1>1, <1>7
  <2>2. 5+A \in S /\ 5+A \in Int /\ \A n \in S : n \in Int /\ 5+A >= n
    BY <1>1, <2>1
  <2> HIDE DEF S
  <2>3. Max(S) = 5+A
    BY <2>2, MaxIs
  <2> QED
    BY <2>3 DEF S
<1>11. Previous(9+A+B) = 8+A
  <2> DEFINE S == {e \in ends : e < 9+A+B}
  <2>1. S = {0, 5+A, 8+A}
    BY <1>1, <1>7
  <2>2. 8+A \in S /\ 8+A \in Int /\ \A n \in S : n \in Int /\ 8+A >= n
    BY <1>1, <2>1
  <2> HIDE DEF S
  <2>3. Max(S) = 8+A
    BY <2>2, MaxIs
  <2> QED
    BY <2>3 DEF S
<1>12. Previous(13+A+B) = 9+A+B
  <2> DEFINE S == {e \in ends : e < 13+A+B}
  <2>1. S = {0, 5+A, 8+A, 9+A+B}
    BY <1>1, <1>7
  <2>2. 9+A+B \in S /\ 9+A+B \in Int /\ \A n \in S : n \in Int /\ 9+A+B >= n
    BY <1>1, <2>1
  <2> HIDE DEF S
  <2>3. Max(S) = 9+A+B
    BY <2>2, MaxIs
  <2> QED
    BY <2>3 DEF S
<1> DEFINE L1 == SubSeq(text, 0 + 1, (5+A) - 1)
           L2 == SubSeq(text, (5+A) + 1, (8+A) - 1)
           L3 == SubSeq(text, (8+A) + 1, (9+A+B) - 1)
           L4 == SubSeq(text, (9+A+B) + 1, (13+A+B) - 1)
<1>13. HeaderLines(text) = {L1, L2, L3, L4}
  <2>1. ends \ {0} = {5+A, 8+A, 9+A+B, 13+A+B}
    BY <1>1, <1>7
  <2> HIDE DEF Previous
  <2>2. {SubSeq(text, Previous(k) + 1, k - 1) : k \in {5+A, 8+A, 9+A+B, 13+A+B}}
          = {L1, L2, L3, L4}
    BY <1>9, <1>10, <1>11, <1>12
  <2> QED
    BY <1>6, <2>1, <2>2
<1>14. ASSUME NEW m \in Nat, NEW n \in Nat, n < Len(text)
       PROVE  /\ SubSeq(text, m + 1, n) \in Seq(Texts)
              /\ Len(SubSeq(text, m + 1, n)) = IF m < n THEN n - m ELSE 0
              /\ \A k \in 1..n-m : SubSeq(text, m + 1, n)[k] = text[m + k]
  <2>1. \A k \in m+1..n : text[k] \in Texts
    BY <1>4, <1>14, ElementOfSeq
  <2>2. m + 1 \in Int /\ n \in Int
    OBVIOUS
  <2>3. /\ SubSeq(text, m+1, n) \in Seq(Texts)
        /\ Len(SubSeq(text, m+1, n)) = IF m+1<=n THEN n-(m+1)+1 ELSE 0
        /\ \A k \in 1 .. n-(m+1)+1 : SubSeq(text, m+1, n)[k] = text[(m+1)+k-1]
    BY <2>1, <2>2, SubSeqProperties
  <2> QED
    BY <2>2, <2>3
<1>15. L1 = RequestLine(method, target)
  <2> DEFINE line == RequestLine(method, target)
  <2>1. /\ line \in Seq(Texts) /\ Len(line) = 4 + A
        /\ line[1] = Word(method) /\ line[2] = Blank
        /\ \A k \in 3..2+A : line[k] = target[k - 2]
        /\ line[3 + A] = Blank /\ line[4 + A] = Word("HTTP/1.1")
    BY LinePlaced DEF A
  <2>2. 0 \in Nat /\ 4 + A \in Nat /\ 4 + A < Len(text) /\ (5+A) - 1 = 4 + A
        /\ 0 < 4 + A /\ (4 + A) - 0 = 4 + A
    BY <1>1, <1>4
  <2>3. /\ L1 \in Seq(Texts) /\ Len(L1) = 4 + A
        /\ \A k \in 1..4+A : L1[k] = text[0 + k]
    <3> DEFINE m == 0
               n == 4 + A
    <3>1. m \in Nat /\ n \in Nat /\ n < Len(text) /\ m < n /\ n - m = n
      BY <2>2
    <3>2. L1 = SubSeq(text, m + 1, n)
      BY <2>2
    <3> HIDE DEF m, n, L1
    <3>3. /\ SubSeq(text, m + 1, n) \in Seq(Texts)
          /\ Len(SubSeq(text, m + 1, n)) = IF m < n THEN n - m ELSE 0
          /\ \A k \in 1..n-m : SubSeq(text, m + 1, n)[k] = text[m + k]
      BY <3>1, <1>14
    <3>4. L1 \in Seq(Texts) /\ Len(L1) = n /\ \A k \in 1..n : L1[k] = text[m + k]
      BY <3>1, <3>2, <3>3
    <3> QED
      BY <3>4 DEF m, n
  <2> HIDE DEF L1, line
  <2>4. /\ text[1] = Word(method) /\ text[2] = Blank
        /\ \A k \in 3..2+A : text[k] = target[k - 2]
        /\ text[3 + A] = Blank /\ text[4 + A] = Word("HTTP/1.1")
    BY DEF Placed, A
  <2>5. \A k \in 1..4+A : L1[k] = line[k]
    <3> SUFFICES ASSUME NEW k \in 1..4+A PROVE L1[k] = line[k]
      OBVIOUS
    <3>1. L1[k] = text[k]
      BY <2>3
    <3>2. k = 1 \/ k = 2 \/ k \in 3..2+A \/ k = 3+A \/ k = 4+A
      BY <1>1
    <3> QED
      BY <2>1, <2>4, <3>1, <3>2
  <2>6. L1 = line
    BY <2>1, <2>3, <2>5, SeqEqual
  <2> QED
    BY <2>6 DEF line
<1>16. L3 = header
  <2>1. 8 + A \in Nat /\ 8 + A + B \in Nat /\ 8+A+B < Len(text) /\ (9+A+B) - 1 = 8+A+B
        /\ (8+A+B) - (8+A) = B
    BY <1>1, <1>4
  <2>2. /\ L3 \in Seq(Texts) /\ Len(L3) = B
        /\ \A k \in 1..B : L3[k] = text[(8+A) + k]
    <3> DEFINE m == 8+A
               n == 8+A+B
    <3>1. m \in Nat /\ n \in Nat /\ n < Len(text) /\ n - m = B /\ (IF m < n THEN n - m ELSE 0) = B
      BY <1>1, <1>4
    <3>2. L3 = SubSeq(text, m + 1, n)
      BY <2>1
    <3> HIDE DEF m, n, L3
    <3>3. /\ SubSeq(text, m + 1, n) \in Seq(Texts)
          /\ Len(SubSeq(text, m + 1, n)) = IF m < n THEN n - m ELSE 0
          /\ \A k \in 1..n-m : SubSeq(text, m + 1, n)[k] = text[m + k]
      BY <3>1, <1>14
    <3>4. L3 \in Seq(Texts) /\ Len(L3) = B /\ \A k \in 1..B : L3[k] = text[m + k]
      BY <3>1, <3>2, <3>3
    <3> QED
      BY <3>4 DEF m
  <2> HIDE DEF L3
  <2>3. \A k \in 9+A..8+A+B : text[k] = header[k - (8 + A)]
    BY DEF Placed, A, B
  <2>4. \A k \in 1..B : L3[k] = header[k]
    <3> SUFFICES ASSUME NEW k \in 1..B PROVE L3[k] = header[k]
      OBVIOUS
    <3>1. (8+A) + k \in 9+A..8+A+B /\ ((8+A) + k) - (8 + A) = k
      BY <1>1
    <3> QED
      BY <2>2, <2>3, <3>1
  <2> QED
    BY <2>2, <2>4, SeqEqual DEF B
\* The lines by their first words.
<1>17. L1[1] # Word("Content-Length")
  <2>1. L1[1] = Word(method)
    BY <1>15, LinePlaced
  <2> QED
    BY <2>1, WordsAreTexts
<1>18. L2[1] # Word("Content-Length")
  <2>1. 5 + A \in Nat /\ 7 + A \in Nat /\ 7+A < Len(text) /\ (8+A) - 1 = 7+A
        /\ (7+A) - (5+A) = 2 /\ 1 \in 1..2
    BY <1>1, <1>4
  <2>2. L2[1] = text[(5+A) + 1]
    BY <1>14, <2>1
  <2>3. text[6+A] = Word("Host:") /\ (5+A) + 1 = 6+A
    BY <1>1 DEF Placed, A
  <2> QED
    BY <2>2, <2>3, WordsAreTexts
<1>19. L4[1] = Word("Content-Length") /\ L4[3] = Number(N)
  <2>1. 9+A+B \in Nat /\ 12+A+B \in Nat /\ 12+A+B < Len(text) /\ (13+A+B) - 1 = 12+A+B
        /\ (12+A+B) - (9+A+B) = 3 /\ 1 \in 1..3 /\ 3 \in 1..3
    BY <1>1, <1>4
  <2>2. L4[1] = text[(9+A+B) + 1] /\ L4[3] = text[(9+A+B) + 3]
    BY <1>14, <2>1
  <2>3. text[10+A+B] = Word("Content-Length") /\ text[12+A+B] = Number(N)
    BY DEF Placed, A, B, N
  <2>4. (9+A+B) + 1 = 10+A+B /\ (9+A+B) + 3 = 12+A+B
    BY <1>1
  <2> QED
    BY <2>2, <2>3, <2>4
<1>20. ReceivedBody(text) = body
  <2> DEFINE Lengths == {line[3].number : line \in
                           {l \in HeaderLines(text) : l[1] = Word("Content-Length")}}
             first == HeaderEnd(text) + 2
             R == SubSeq(text, first, first - 1 + (CHOOSE n \in Lengths : TRUE))
  <2>1. ReceivedBody(text) = R
    BY DEF ReceivedBody
  <2>2. {l \in HeaderLines(text) : l[1] = Word("Content-Length")} = {L4}
    <3> HIDE DEF L1, L2, L3, L4
    <3> QED
      BY <1>13, <1>16, <1>17, <1>18, <1>19
  <2>3. Lengths = {N}
    <3>1. Lengths = {L4[3].number}
      BY <2>2
    <3>2. Number(N).number = N
      BY DEF Number
    <3> QED
      BY <1>19, <3>1, <3>2
  <2>4. (CHOOSE n \in Lengths : TRUE) = N
    BY <2>3
  <2>5. first = (14+A+B) + 1 /\ first - 1 + N = 14+A+B+N
    BY <1>1, <1>5
  <2>6. R = SubSeq(text, (14+A+B) + 1, 14+A+B+N)
    BY <2>4, <2>5
  <2> HIDE DEF Lengths, first, R
  <2>7. /\ SubSeq(text, (14+A+B) + 1, 14+A+B+N) \in Seq(Texts)
        /\ Len(SubSeq(text, (14+A+B) + 1, 14+A+B+N)) = N
        /\ \A k \in 1..N : SubSeq(text, (14+A+B) + 1, 14+A+B+N)[k] = text[(14+A+B) + k]
    <3> DEFINE m == 14+A+B
               n == 14+A+B+N
    <3>1. m \in Nat /\ n \in Nat /\ m + 1 \in Int /\ n \in Int
          /\ n - (m+1) + 1 = N /\ (m + 1 <= n <=> N > 0) /\ n = Len(text)
      BY <1>1, <1>4
    <3>2. \A k \in m+1..n : text[k] \in Texts
      BY <1>4, <3>1, ElementOfSeq
    <3> HIDE DEF m, n
    <3>3. /\ SubSeq(text, m+1, n) \in Seq(Texts)
          /\ Len(SubSeq(text, m+1, n)) = IF m+1<=n THEN n-(m+1)+1 ELSE 0
          /\ \A k \in 1 .. n-(m+1)+1 : SubSeq(text, m+1, n)[k] = text[(m+1)+k-1]
      BY <3>1, <3>2, SubSeqProperties
    <3>4. \A k \in 1..N : (m+1)+k-1 = m + k
      BY <3>1
    <3> QED
      BY <1>1, <3>1, <3>3, <3>4 DEF m, n
  <2>8. \A k \in 15+A+B..14+A+B+N : text[k] = body[k - (14 + A + B)]
    BY DEF Placed, A, B, N
  <2>9. \A k \in 1..N : R[k] = body[k]
    <3> SUFFICES ASSUME NEW k \in 1..N PROVE R[k] = body[k]
      OBVIOUS
    <3>1. (14+A+B) + k \in 15+A+B..14+A+B+N /\ ((14+A+B) + k) - (14+A+B) = k
      BY <1>1
    <3> QED
      BY <2>6, <2>7, <2>8, <3>1
  <2>10. R = body
    BY <2>6, <2>7, <2>9, SeqEqual DEF N
  <2> QED
    BY <2>1, <2>10
<1> QED
  BY <1>13, <1>15, <1>16, <1>20

\* N texts, of six words each and the last of five.
Pieces(seqs, N) ==
    /\ Len(seqs) = N
    /\ \A k \in 1..N : seqs[k] \in Seq(Texts) /\ Len(seqs[k]) = IF k < N THEN 6 ELSE 5

\* The texts that FlattenSeq goes through.
LEMMA FlattenSteps ==
  ASSUME NEW N \in Nat, N > 0, NEW seqs, Pieces(seqs, N)
  PROVE  \E f : /\ f[1] = seqs[1]
                /\ \A n \in 2..N : f[n] = f[n-1] \o seqs[n]
                /\ FlattenSeq(seqs) = f[N]
<1> DEFINE Next1(n, t) == IF n = 1 THEN seqs[n] ELSE t \o seqs[n]
           Def(g) == [e \in 1..N |-> IF e = 1 THEN seqs[e] ELSE g[e-1] \o seqs[e]]
           T == Seq(Texts)
           step == {p \in (1..N) \X T \X T : p[3] = Next1(p[1], p[2])}
<1>1. \A n \in 1..N, t \in T : Next1(n, t) \in T
  <2>1. \A n \in 1..N : seqs[n] \in T
    BY DEF Pieces
  <2>2. \A s, t \in T : s \o t \in T
    OBVIOUS
  <2> HIDE DEF T
  <2> QED
    BY <2>1, <2>2
<1> HIDE DEF Next1
<1>2. \A n \in 1..N, t, u \in T : <<n, t, u>> \in step <=> u = Next1(n, t)
  OBVIOUS
<1>3. \A n \in 1..N, t \in T : \E u \in T : <<n, t, u>> \in step
  BY <1>1, <1>2
<1> DEFINE none == <<>>
<1>4. none \in T
  OBVIOUS
<1> HIDE DEF step, T, none
<1>5. PICK f : /\ f[0] = none
               /\ \A n \in 0..N : f[n] \in T
               /\ \A n \in 1..N : <<n, f[n-1], f[n]>> \in step
  BY <1>3, <1>4, Recursion
<1>6. \A n \in 1..N : f[n] = Next1(n, f[n-1])
  <2> SUFFICES ASSUME NEW n \in 1..N PROVE f[n] = Next1(n, f[n-1])
    OBVIOUS
  <2>1. f[n-1] \in T /\ f[n] \in T
    BY <1>5
  <2>2. <<n, f[n-1], f[n]>> \in step
    BY <1>5
  <2> QED
    BY <1>2, <2>1, <2>2
<1> DEFINE g == [n \in 1..N |-> f[n]]
<1>7. g = Def(g)
  <2>1. \A n \in 1..N : g[n] = Def(g)[n]
    BY <1>6 DEF Next1
  <2> QED
    BY <2>1
<1>8. FlattenSeq(seqs) = (CHOOSE h : h = Def(h))[N]
  BY DEF FlattenSeq, Pieces
<1> HIDE DEF g
<1>9. PICK h : h = Def(h) /\ FlattenSeq(seqs) = h[N]
  <2>1. \E h : h = Def(h)
    BY <1>7
  <2> HIDE DEF Def
  <2> QED
    BY <1>8, <2>1
<1>10. h[1] = seqs[1]
  BY <1>9
<1>11. \A n \in 2..N : h[n] = h[n-1] \o seqs[n]
  <2> SUFFICES ASSUME NEW n \in 2..N PROVE h[n] = h[n-1] \o seqs[n]
    OBVIOUS
  <2>1. n \in 1..N /\ n # 1
    OBVIOUS
  <2>2. h[n] = Def(h)[n]
    BY <1>9
  <2> QED
    BY <2>1, <2>2
<1> QED
  BY <1>9, <1>10, <1>11

\* Put one after the other: where each word goes.
LEMMA Flattened ==
  ASSUME NEW N \in Nat, N > 0, NEW seqs, Pieces(seqs, N)
  PROVE  /\ FlattenSeq(seqs) \in Seq(Texts)
         /\ Len(FlattenSeq(seqs)) = 6 * N - 1
         /\ \A k \in 1..N : \A m \in 1..Len(seqs[k]) :
              FlattenSeq(seqs)[6 * (k - 1) + m] = seqs[k][m]
<1>1. PICK f : /\ f[1] = seqs[1]
               /\ \A n \in 2..N : f[n] = f[n-1] \o seqs[n]
               /\ FlattenSeq(seqs) = f[N]
  BY FlattenSteps
<1> DEFINE Size(n) == IF n < N THEN 6 * n ELSE 6 * n - 1
           Done(n) == /\ f[n] \in Seq(Texts)
                      /\ Len(f[n]) = Size(n)
                      /\ \A k \in 1..n : \A m \in 1..Len(seqs[k]) :
                           f[n][6 * (k - 1) + m] = seqs[k][m]
           S == {n \in 0..N : n = 0 \/ Done(n)}
<1>2. 0 \in S
  OBVIOUS
<1>3. 1 \in 1..N
  OBVIOUS
<1>4. Done(1)
  <2>1. f[1] \in Seq(Texts) /\ Len(f[1]) = Size(1)
    BY <1>1, <1>3 DEF Pieces
  <2>2. ASSUME NEW k \in 1..1, NEW m \in 1..Len(seqs[k]) PROVE f[1][6 * (k - 1) + m] = seqs[k][m]
    <3>1. k = 1
      OBVIOUS
    <3>2. 6 * (k - 1) + m = m
      <4>1. Len(seqs[1]) \in Nat
        BY <1>3 DEF Pieces
      <4> QED
        BY <3>1, <4>1
    <3> QED
      BY <1>1, <3>1, <3>2
  <2> QED
    BY <2>1, <2>2
<1>5. ASSUME NEW n \in 1..N-1, Done(n) PROVE Done(n + 1)
  <2> DEFINE s == f[n]
             t == seqs[n+1]
  <2>1. n + 1 \in 2..N /\ n + 1 \in 1..N /\ (n + 1) - 1 = n /\ n < N
    OBVIOUS
  <2>2. f[n+1] = s \o t
    BY <1>1, <2>1
  <2>3. t \in Seq(Texts) /\ Len(t) = IF n + 1 < N THEN 6 ELSE 5
    BY <2>1 DEF Pieces
  <2>4. s \in Seq(Texts) /\ Len(s) = 6 * n
    BY <1>5, <2>1
  <2> HIDE DEF t
  <2>5. /\ s \o t \in Seq(Texts)
        /\ Len(s \o t) = Len(s) + Len(t)
        /\ \A k \in 1..Len(s) : (s \o t)[k] = s[k]
        /\ \A k \in Len(s)+1..Len(s)+Len(t) : (s \o t)[k] = t[k - Len(s)]
    BY <2>3, <2>4, Joined
  <2>6. ASSUME NEW k \in 1..n+1, NEW m \in 1..Len(seqs[k])
        PROVE  f[n+1][6 * (k - 1) + m] = seqs[k][m]
    <3> DEFINE p == 6 * (k - 1) + m
    <3>1. CASE k \in 1..n
      <4>1. k \in 1..N /\ k < N
        BY <3>1
      <4>2. Len(seqs[k]) = 6
        BY <4>1 DEF Pieces
      <4>3. p \in 1..6*n
        BY <3>1, <4>2
      <4>4. s[p] = seqs[k][m]
        BY <1>5, <3>1
      <4> QED
        BY <2>2, <2>4, <2>5, <4>3, <4>4
    <3>2. CASE k = n + 1
      <4>1. m \in 1..Len(t) /\ seqs[k][m] = t[m]
        BY <3>2 DEF t
      <4>2. p = 6 * n + m
        BY <3>2, <4>1, <2>3
      <4>3. p \in Len(s)+1..Len(s)+Len(t) /\ p - Len(s) = m
        BY <4>1, <4>2, <2>3, <2>4
      <4> QED
        BY <2>2, <2>5, <4>1, <4>3
    <3> QED
      BY <3>1, <3>2
  <2>7. Len(f[n+1]) = Size(n + 1)
    BY <2>1, <2>2, <2>3, <2>4, <2>5
  <2> QED
    BY <2>2, <2>5, <2>6, <2>7
<1> HIDE DEF Done
<1>6. ASSUME NEW n \in 0..N-1, n \in S PROVE n + 1 \in S
  <2>1. CASE n = 0
    BY <2>1, <1>3, <1>4
  <2>2. CASE n # 0
    BY <2>2, <1>5, <1>6
  <2> QED
    BY <2>1, <2>2
<1> HIDE DEF S
<1>7. 0..N \subseteq S
  BY <1>2, <1>6, InductionTo
<1>8. Done(N)
  BY <1>7 DEF S
<1> QED
  BY <1>1, <1>8 DEF Done

\* Of the words around the points, those in Spoken.
Spelled(syntax) ==
    /\ syntax.open \in Spoken /\ syntax.key \in Spoken /\ syntax.value \in Spoken
    /\ syntax.end \in Spoken /\ syntax.close \in Spoken

\* The words of a point.
PointWords(p, syntax, key, value) ==
    /\ p[1] = Word(syntax.key) /\ p[2] = Word(key)
    /\ p[3] = Word(syntax.value) /\ p[4] = Printed(value)
    /\ p[5] = Word(syntax.end)

\* A point of five words.
LEMMA PointRead ==
  ASSUME NEW syntax, Spelled(syntax), NEW key \in Spoken, NEW value \in Int, NEW d,
         d.key = key, d.value = value
  PROVE  /\ Point(syntax, d) \in Seq(Texts) /\ Len(Point(syntax, d)) = 5
         /\ Point(syntax, d)[1] = Word(syntax.key) /\ Point(syntax, d)[2] = Word(key)
         /\ Point(syntax, d)[3] = Word(syntax.value) /\ Point(syntax, d)[4] = Printed(value)
         /\ Point(syntax, d)[5] = Word(syntax.end)
<1> DEFINE p1 == Word(syntax.key)
           p2 == Word(key)
           p3 == Word(syntax.value)
           p4 == Printed(value)
           p5 == Word(syntax.end)
<1>1. p1 \in Texts /\ p2 \in Texts /\ p3 \in Texts /\ p4 \in Texts /\ p5 \in Texts
  BY WordsAreTexts DEF Spelled
<1>2. Point(syntax, d) = <<p1, p2, p3, p4, p5>>
  BY DEF Point
<1> HIDE DEF p1, p2, p3, p4, p5
<1>3. /\ <<p1, p2, p3, p4, p5>> \in Seq(Texts) /\ Len(<<p1, p2, p3, p4, p5>>) = 5
  BY <1>1
<1>4. /\ <<p1, p2, p3, p4, p5>>[1] = p1 /\ <<p1, p2, p3, p4, p5>>[2] = p2
      /\ <<p1, p2, p3, p4, p5>>[3] = p3 /\ <<p1, p2, p3, p4, p5>>[4] = p4
      /\ <<p1, p2, p3, p4, p5>>[5] = p5
  OBVIOUS
<1> QED
  BY <1>2, <1>3, <1>4 DEF p1, p2, p3, p4, p5

\* A word more.
LEMMA Appended ==
  ASSUME NEW s \in Seq(Texts), NEW w \in Texts
  PROVE  /\ Append(s, w) \in Seq(Texts) /\ Len(Append(s, w)) = Len(s) + 1
         /\ \A k \in 1..Len(s) : Append(s, w)[k] = s[k]
         /\ Append(s, w)[Len(s) + 1] = w
  BY AppendProperties

Comma == Word(",")

\* The same with the comma that follows all points but the last.
LEMMA ItemRead ==
  ASSUME NEW syntax, Spelled(syntax), NEW key \in Spoken, NEW value \in Int, NEW d,
         d.key = key, d.value = value, NEW item, item = Append(Point(syntax, d), Comma)
  PROVE  item \in Seq(Texts) /\ Len(item) = 6 /\ PointWords(item, syntax, key, value)
         /\ item[6] = Comma
<1> DEFINE point == Point(syntax, d)
           w == Comma
<1>1. /\ point \in Seq(Texts) /\ Len(point) = 5
      /\ point[1] = Word(syntax.key) /\ point[2] = Word(key)
      /\ point[3] = Word(syntax.value) /\ point[4] = Printed(value)
      /\ point[5] = Word(syntax.end)
  BY PointRead
<1>2. "," \in Spoken
  BY DEF Spoken
<1>3. w \in Texts
  BY <1>2, WordsAreTexts DEF Comma
<1>0. item = Append(point, w)
  OBVIOUS
<1> HIDE DEF point, w
<1>4. /\ item \in Seq(Texts) /\ Len(item) = Len(point) + 1
      /\ \A k \in 1..Len(point) : item[k] = point[k]
      /\ item[Len(point) + 1] = w
  <2>1. point \in Seq(Texts)
    BY <1>1
  <2>2. /\ Append(point, w) \in Seq(Texts) /\ Len(Append(point, w)) = Len(point) + 1
        /\ \A k \in 1..Len(point) : Append(point, w)[k] = point[k]
        /\ Append(point, w)[Len(point) + 1] = w
    BY <2>1, <1>3, Appended
  <2> QED
    BY <1>0, <2>2
<1>5. /\ Len(item) = 6 /\ item[6] = w
      /\ item[1] = point[1] /\ item[2] = point[2] /\ item[3] = point[3]
      /\ item[4] = point[4] /\ item[5] = point[5]
  BY <1>1, <1>4
<1> QED
  BY <1>1, <1>4, <1>5 DEF point, w, PointWords

\* N data points, with the keys of readings.
Keys == {KEY_RAW_DATA, KEY_TEMP}

Points(data, N) ==
    /\ Len(data) = N
    /\ \A k \in 1..N : data[k].key \in Keys /\ data[k].value \in Int

LEMMA KeysAreSpoken == Keys \subseteq Spoken
  BY Zenon DEF Keys, Spoken

\* Where the words of a body are.
BodyWords(body, syntax, data, N) ==
    /\ body \in Seq(Texts) /\ Len(body) = 6 * N + 1
    /\ body[1] = Word(syntax.open) /\ body[6 * N + 1] = Word(syntax.close)
    /\ \A k \in 1..N :
         /\ body[6 * (k - 1) + 2] = Word(syntax.key)
         /\ body[6 * (k - 1) + 3] = Word(data[k].key)
         /\ body[6 * (k - 1) + 4] = Word(syntax.value)
         /\ body[6 * (k - 1) + 5] = Printed(data[k].value)
         /\ body[6 * (k - 1) + 6] = Word(syntax.end)
         /\ k < N => body[6 * (k - 1) + 7] = Comma

\* Each word of a body is where it was put.
LEMMA BodyPlaced ==
  ASSUME NEW N \in Nat, N > 0, NEW data, Points(data, N), NEW who, NEW syntax,
         syntax = Syntax(who), Spelled(syntax)
  PROVE  BodyWords(Body(who, data), syntax, data, N)
<1> DEFINE Item(k) == IF k < N THEN Append(Point(syntax, data[k]), Comma)
                               ELSE Point(syntax, data[k])
           seqs == [k \in 1..N |-> Item(k)]
           front == <<Word(syntax.open)>>
           flat == FlattenSeq(seqs)
           back == <<Word(syntax.close)>>
           whole == (front \o flat) \o back
           body == Body(who, data)
<1>1. body = whole
  BY DEF Body, Points, Comma
<1> HIDE DEF body
<1>2. ASSUME NEW k \in 1..N
      PROVE  /\ Item(k) \in Seq(Texts) /\ Len(Item(k)) = IF k < N THEN 6 ELSE 5
             /\ Item(k)[1] = Word(syntax.key) /\ Item(k)[2] = Word(data[k].key)
             /\ Item(k)[3] = Word(syntax.value) /\ Item(k)[4] = Printed(data[k].value)
             /\ Item(k)[5] = Word(syntax.end) /\ (k < N => Item(k)[6] = Comma)
  <2> DEFINE d == data[k]
             key == d.key
             value == d.value
  <2>1. key \in Spoken /\ value \in Int /\ d.key = key /\ d.value = value
    BY KeysAreSpoken DEF Points
  <2> HIDE DEF d, key, value
  <2>2. CASE k < N
    <3> DEFINE item == Append(Point(syntax, d), Comma)
    <3>1. Item(k) = item
      BY <2>2 DEF d
    <3>3. item = Append(Point(syntax, d), Comma)
      OBVIOUS
    <3> HIDE DEF item
    <3>2. item \in Seq(Texts) /\ Len(item) = 6 /\ PointWords(item, syntax, key, value)
          /\ item[6] = Comma
      BY <2>1, <3>3, ItemRead
    <3> HIDE DEF item, Item
    <3> QED
      BY <2>2, <3>1, <3>2 DEF d, key, value, PointWords
  <2>3. CASE ~(k < N)
    <3> DEFINE item == Point(syntax, d)
    <3>1. Item(k) = item
      BY <2>3 DEF d
    <3>2. /\ item \in Seq(Texts) /\ Len(item) = 5
          /\ item[1] = Word(syntax.key) /\ item[2] = Word(key)
          /\ item[3] = Word(syntax.value) /\ item[4] = Printed(value)
          /\ item[5] = Word(syntax.end)
      BY <2>1, PointRead
    <3> HIDE DEF item, Item
    <3> QED
      BY <2>3, <3>1, <3>2 DEF d, key, value
  <2> QED
    BY <2>2, <2>3
<1> HIDE DEF Item
<1>3. \A k \in 1..N : seqs[k] = Item(k)
  OBVIOUS
<1>4. Len(seqs) = N
  OBVIOUS
<1> HIDE DEF seqs
<1>5. Pieces(seqs, N)
  BY <1>2, <1>3, <1>4 DEF Pieces
<1>6. /\ flat \in Seq(Texts) /\ Len(flat) = 6 * N - 1
      /\ \A k \in 1..N : \A m \in 1..Len(seqs[k]) : flat[6 * (k - 1) + m] = seqs[k][m]
  BY <1>5, Flattened
<1> HIDE DEF flat
<1>7. ASSUME NEW k \in 1..N
      PROVE  /\ flat[6 * (k - 1) + 1] = Word(syntax.key)
             /\ flat[6 * (k - 1) + 2] = Word(data[k].key)
             /\ flat[6 * (k - 1) + 3] = Word(syntax.value)
             /\ flat[6 * (k - 1) + 4] = Printed(data[k].value)
             /\ flat[6 * (k - 1) + 5] = Word(syntax.end)
             /\ k < N => flat[6 * (k - 1) + 6] = Comma
  <2>1. seqs[k] = Item(k) /\ Len(seqs[k]) = IF k < N THEN 6 ELSE 5
    BY <1>3, <1>5 DEF Pieces
  <2>2. \A m \in 1..Len(seqs[k]) : flat[6 * (k - 1) + m] = seqs[k][m]
    BY <1>6
  <2>3. /\ 1 \in 1..Len(seqs[k]) /\ 2 \in 1..Len(seqs[k]) /\ 3 \in 1..Len(seqs[k])
        /\ 4 \in 1..Len(seqs[k]) /\ 5 \in 1..Len(seqs[k])
        /\ k < N => 6 \in 1..Len(seqs[k])
    BY <2>1
  <2>4. /\ flat[6 * (k - 1) + 1] = Item(k)[1] /\ flat[6 * (k - 1) + 2] = Item(k)[2]
        /\ flat[6 * (k - 1) + 3] = Item(k)[3] /\ flat[6 * (k - 1) + 4] = Item(k)[4]
        /\ flat[6 * (k - 1) + 5] = Item(k)[5]
        /\ k < N => flat[6 * (k - 1) + 6] = Item(k)[6]
    <3> DEFINE c == 6 * (k - 1)
    <3>1. \A m \in 1..Len(seqs[k]) : flat[c + m] = Item(k)[m]
      BY <2>1, <2>2
    <3> HIDE DEF c
    <3>2. /\ flat[c + 1] = Item(k)[1] /\ flat[c + 2] = Item(k)[2]
          /\ flat[c + 3] = Item(k)[3] /\ flat[c + 4] = Item(k)[4]
          /\ flat[c + 5] = Item(k)[5]
          /\ k < N => flat[c + 6] = Item(k)[6]
      BY <2>3, <3>1
    <3> QED
      BY <3>2 DEF c
  <2>5. /\ Item(k)[1] = Word(syntax.key) /\ Item(k)[2] = Word(data[k].key)
        /\ Item(k)[3] = Word(syntax.value) /\ Item(k)[4] = Printed(data[k].value)
        /\ Item(k)[5] = Word(syntax.end) /\ (k < N => Item(k)[6] = Comma)
    BY <1>2
  <2> QED
    BY <2>4, <2>5
<1>8. /\ front \in Seq(Texts) /\ Len(front) = 1 /\ front[1] = Word(syntax.open)
      /\ back \in Seq(Texts) /\ Len(back) = 1 /\ back[1] = Word(syntax.close)
  BY WordsAreTexts DEF Spelled
<1> HIDE DEF front, back
<1> DEFINE ahead == front \o flat
<1>9. /\ ahead \in Seq(Texts) /\ Len(ahead) = Len(front) + Len(flat)
      /\ \A k \in 1..Len(front) : ahead[k] = front[k]
      /\ \A k \in Len(front)+1..Len(front)+Len(flat) : ahead[k] = flat[k - Len(front)]
  BY <1>6, <1>8, Joined
<1> HIDE DEF ahead
<1>10. /\ Len(ahead) = 6 * N /\ ahead[1] = Word(syntax.open)
       /\ \A k \in 2..6*N : ahead[k] = flat[k - 1]
  BY <1>6, <1>8, <1>9
<1>11. /\ ahead \o back \in Seq(Texts) /\ Len(ahead \o back) = Len(ahead) + Len(back)
       /\ \A k \in 1..Len(ahead) : (ahead \o back)[k] = ahead[k]
       /\ \A k \in Len(ahead)+1..Len(ahead)+Len(back) :
            (ahead \o back)[k] = back[k - Len(ahead)]
  BY <1>8, <1>9, Joined
<1>12. body = ahead \o back
  BY <1>1 DEF ahead
<1>13. /\ body \in Seq(Texts) /\ Len(body) = 6 * N + 1
       /\ \A k \in 1..6*N : body[k] = ahead[k]
       /\ body[6 * N + 1] = Word(syntax.close)
  <2>1. 6 * N + 1 \in Len(ahead)+1..Len(ahead)+Len(back) /\ (6 * N + 1) - Len(ahead) = 1
    BY <1>8, <1>10
  <2> QED
    BY <1>8, <1>10, <1>11, <1>12, <2>1
<1>14. body[1] = Word(syntax.open)
  BY <1>10, <1>13
<1>15. \A p \in 2..6*N : body[p] = flat[p - 1]
  BY <1>10, <1>13
<1>16. ASSUME NEW k \in 1..N
       PROVE  /\ body[6 * (k - 1) + 2] = Word(syntax.key)
              /\ body[6 * (k - 1) + 3] = Word(data[k].key)
              /\ body[6 * (k - 1) + 4] = Word(syntax.value)
              /\ body[6 * (k - 1) + 5] = Printed(data[k].value)
              /\ body[6 * (k - 1) + 6] = Word(syntax.end)
              /\ k < N => body[6 * (k - 1) + 7] = Comma
  <2> DEFINE b == 6 * (k - 1)
  <2>1. b \in Nat /\ b + 6 <= 6 * N /\ (k < N => b + 7 <= 6 * N)
    OBVIOUS
  <2>2. /\ flat[b + 1] = Word(syntax.key) /\ flat[b + 2] = Word(data[k].key)
        /\ flat[b + 3] = Word(syntax.value) /\ flat[b + 4] = Printed(data[k].value)
        /\ flat[b + 5] = Word(syntax.end) /\ (k < N => flat[b + 6] = Comma)
    BY <1>7
  <2>3. /\ body[b + 2] = flat[(b + 2) - 1] /\ body[b + 3] = flat[(b + 3) - 1]
        /\ body[b + 4] = flat[(b + 4) - 1] /\ body[b + 5] = flat[(b + 5) - 1]
        /\ body[b + 6] = flat[(b + 6) - 1]
        /\ k < N => body[b + 7] = flat[(b + 7) - 1]
    <3> HIDE DEF b
    <3>1. /\ b + 2 \in 2..6*N /\ b + 3 \in 2..6*N /\ b + 4 \in 2..6*N
          /\ b + 5 \in 2..6*N /\ b + 6 \in 2..6*N
          /\ k < N => b + 7 \in 2..6*N
      BY <2>1
    <3> QED
      BY <1>15, <3>1
  <2> HIDE DEF b
  <2>4. /\ (b + 2) - 1 = b + 1 /\ (b + 3) - 1 = b + 2 /\ (b + 4) - 1 = b + 3
        /\ (b + 5) - 1 = b + 4 /\ (b + 6) - 1 = b + 5 /\ (b + 7) - 1 = b + 6
    BY <2>1
  <2> QED
    BY <2>2, <2>3, <2>4 DEF b
<1> QED
  BY <1>13, <1>14, <1>16 DEF BodyWords, body

\* The server decodes what aliyun's body has encoded, and nothing else.
LEMMA BodyDecoded ==
  ASSUME NEW N \in Nat, N > 0, NEW data, Points(data, N), NEW b \in {"aliyun", "xively"},
         NEW body, BodyWords(body, Syntax(b), data, N)
  PROVE  BodyWords(DecodedBody(b, body), Grammar(b), data, N)
<1>1. CASE b = "xively"
  <2>1. Grammar(b) = Xively /\ Syntax(b) = Xively
    BY Zenon, <1>1 DEF Grammar, Syntax, Xively
  <2>2. DecodedBody(b, body) = body
    BY <1>1 DEF DecodedBody
  <2> QED
    BY <2>1, <2>2
<1>2. CASE b = "aliyun"
  <2> DEFINE W == [k \in 1..Len(body) |->
                     [text |-> Decoded(body[k].text), number |-> body[k].number]]
             size == 6 * N + 1
  <2>1. DecodedBody(b, body) = W
    BY <1>2 DEF DecodedBody
  <2>2. body \in Seq(Texts) /\ Len(body) = size
    BY DEF BodyWords
  <2>3. /\ Decoded("data=%7B") = "data={" /\ Decoded("%22") = "'" /\ Decoded("%22%3a") = "':"
        /\ Decoded("%7D") = "}" /\ Decoded("") = "" /\ Decoded(",") = ","
        /\ Decoded("number in a field of ten") = "number in a field of ten"
        /\ \A key \in Keys : Decoded(key) = key
    BY DEF Decoded, Keys, KEY_RAW_DATA, KEY_TEMP
  <2>4. /\ Grammar(b).open = "data={" /\ Grammar(b).key = "'" /\ Grammar(b).value = "':"
        /\ Grammar(b).end = "" /\ Grammar(b).close = "}"
    BY Zenon, <1>2 DEF Grammar
  <2>5. /\ Syntax(b).open = "data=%7B" /\ Syntax(b).key = "%22" /\ Syntax(b).value = "%22%3a"
        /\ Syntax(b).end = "" /\ Syntax(b).close = "%7D"
    BY Zenon, <1>2 DEF Syntax, Aliyun
  <2>6. \A s \in Spoken : Decoded(s) \in Spoken
    <3>1. {"data={", "'", "':", "}"} \subseteq Spoken
      BY Zenon DEF Spoken
    <3> QED
      BY <3>1 DEF Decoded
  <2>7. ASSUME NEW k \in 1..size PROVE W[k] \in Texts
    <3>1. body[k] \in Texts
      BY <2>2
    <3>2. body[k].text \in Spoken /\ body[k].number \in Int
      BY <3>1 DEF Texts
    <3>3. Decoded(body[k].text) \in Spoken
      BY <2>6, <3>2
    <3>4. W[k] = [text |-> Decoded(body[k].text), number |-> body[k].number]
      BY <2>2
    <3> QED
      BY <3>2, <3>3, <3>4 DEF Texts
  <2>8. W = [k \in 1..size |-> [text |-> Decoded(body[k].text), number |-> body[k].number]]
    BY <2>2
  <2>9. size \in Nat
    OBVIOUS
  <2>10. ASSUME NEW k \in 1..size, NEW s, body[k] = Word(s) PROVE W[k] = Word(Decoded(s))
    <3>1. W[k] = [text |-> Decoded(body[k].text), number |-> body[k].number]
      BY <2>2
    <3>2. body[k].text = s /\ body[k].number = 0
      BY <2>10 DEF Word
    <3> QED
      BY <3>1, <3>2 DEF Word
  <2>11. ASSUME NEW k \in 1..size, NEW n, body[k] = Printed(n) PROVE W[k] = Printed(n)
    <3>1. W[k] = [text |-> Decoded(body[k].text), number |-> body[k].number]
      BY <2>2
    <3>2. body[k].text = "number in a field of ten" /\ body[k].number = n
      <4>1. Printed(n).text = "number in a field of ten" /\ Printed(n).number = n
        BY DEF Printed
      <4> QED
        BY Zenon, <2>11, <4>1
    <3> QED
      BY <2>3, <3>1, <3>2 DEF Printed
  <2> HIDE DEF W
  <2>12. W \in Seq(Texts) /\ Len(W) = size
    <3>1. W \in [1..size -> Texts]
      BY <2>7, <2>8
    <3> HIDE DEF size
    <3> QED
      BY <2>9, <3>1
  <2>13. W[1] = Word(Grammar(b).open) /\ W[size] = Word(Grammar(b).close)
    <3>1. body[1] = Word("data=%7B") /\ body[size] = Word("%7D")
      BY <2>5 DEF BodyWords
    <3>2. 1 \in 1..size /\ size \in 1..size
      OBVIOUS
    <3> HIDE DEF size
    <3>3. /\ W[1] = Word(Decoded("data=%7B")) /\ W[size] = Word(Decoded("%7D"))
      BY Zenon, <2>10, <3>1, <3>2
    <3> QED
      BY Zenon, <2>3, <2>4, <3>3
  <2>14. ASSUME NEW k \in 1..N
         PROVE  /\ W[6 * (k - 1) + 2] = Word(Grammar(b).key)
                /\ W[6 * (k - 1) + 3] = Word(data[k].key)
                /\ W[6 * (k - 1) + 4] = Word(Grammar(b).value)
                /\ W[6 * (k - 1) + 5] = Printed(data[k].value)
                /\ W[6 * (k - 1) + 6] = Word(Grammar(b).end)
                /\ k < N => W[6 * (k - 1) + 7] = Comma
    <3> DEFINE c == 6 * (k - 1)
    <3>1. /\ c + 2 \in 1..size /\ c + 3 \in 1..size /\ c + 4 \in 1..size
          /\ c + 5 \in 1..size /\ c + 6 \in 1..size /\ (k < N => c + 7 \in 1..size)
      OBVIOUS
    <3>2. /\ body[c + 2] = Word("%22") /\ body[c + 3] = Word(data[k].key)
          /\ body[c + 4] = Word("%22%3a") /\ body[c + 5] = Printed(data[k].value)
          /\ body[c + 6] = Word("") /\ (k < N => body[c + 7] = Word(","))
      BY <2>5 DEF BodyWords, Comma
    <3>3. data[k].key \in Keys
      BY DEF Points
    <3> HIDE DEF c, size
    <3>4. /\ W[c + 2] = Word(Decoded("%22")) /\ W[c + 3] = Word(Decoded(data[k].key))
          /\ W[c + 4] = Word(Decoded("%22%3a")) /\ W[c + 6] = Word(Decoded(""))
          /\ (k < N => W[c + 7] = Word(Decoded(",")))
      BY Zenon, <2>10, <3>1, <3>2
    <3>5. W[c + 5] = Printed(data[k].value)
      BY Zenon, <2>11, <3>1, <3>2
    <3>6. /\ W[c + 2] = Word("'") /\ W[c + 3] = Word(data[k].key)
          /\ W[c + 4] = Word("':") /\ W[c + 6] = Word("") /\ (k < N => W[c + 7] = Word(","))
      BY Zenon, <2>3, <3>3, <3>4
    <3> QED
      BY Zenon, <2>4, <3>5, <3>6 DEF c, Comma
  <2> QED
    BY <2>1, <2>12, <2>13, <2>14 DEF BodyWords
<1> QED
  BY <1>1, <1>2

\* The server reads the data points where their words are.
LEMMA BodyRead ==
  ASSUME NEW N \in Nat, N > 0, NEW data, NEW syntax, NEW body,
         BodyWords(body, syntax, data, N)
  PROVE  ReadPoints(syntax, body)
           = {[key |-> data[k].key, value |-> data[k].value] : k \in 1..N}
<1> DEFINE n == (Len(body) - 1) \div 6
           At(k, j) == body[6 * (k - 1) + 1 + j]
<1>1. /\ body \in Seq(Texts) /\ Len(body) = 6 * N + 1
      /\ body[1] = Word(syntax.open) /\ body[6 * N + 1] = Word(syntax.close)
      /\ \A k \in 1..N :
           /\ body[6 * (k - 1) + 2] = Word(syntax.key)
           /\ body[6 * (k - 1) + 3] = Word(data[k].key)
           /\ body[6 * (k - 1) + 4] = Word(syntax.value)
           /\ body[6 * (k - 1) + 5] = Printed(data[k].value)
           /\ body[6 * (k - 1) + 6] = Word(syntax.end)
           /\ k < N => body[6 * (k - 1) + 7] = Comma
  BY DEF BodyWords
<1>2. n = N
  <2>1. Len(body) = 6 * N + 1
    BY <1>1
  <2>2. ((6 * N + 1) - 1) \div 6 = N
    OBVIOUS
  <2> QED
    BY <2>1, <2>2
<1>3. ASSUME NEW k \in 1..N
      PROVE  /\ At(k, 1) = Word(syntax.key) /\ At(k, 2) = Word(data[k].key)
             /\ At(k, 3) = Word(syntax.value) /\ At(k, 4) = Printed(data[k].value)
             /\ At(k, 5) = Word(syntax.end) /\ (k < N => At(k, 6) = Comma)
  <2> DEFINE b == 6 * (k - 1)
  <2>1. b \in Int
    OBVIOUS
  <2>2. /\ body[b + 2] = Word(syntax.key) /\ body[b + 3] = Word(data[k].key)
        /\ body[b + 4] = Word(syntax.value) /\ body[b + 5] = Printed(data[k].value)
        /\ body[b + 6] = Word(syntax.end) /\ (k < N => body[b + 7] = Comma)
    BY <1>1
  <2> HIDE DEF b
  <2>3. /\ b + 1 + 1 = b + 2 /\ b + 1 + 2 = b + 3 /\ b + 1 + 3 = b + 4
        /\ b + 1 + 4 = b + 5 /\ b + 1 + 5 = b + 6 /\ b + 1 + 6 = b + 7
    BY <2>1
  <2> QED
    BY <2>2, <2>3 DEF b
<1> HIDE DEF At
<1>4. /\ n > 0 /\ Len(body) = 6 * n + 1
      /\ body[1] = Word(syntax.open) /\ body[Len(body)] = Word(syntax.close)
      /\ \A k \in 1..n :
           /\ At(k, 1) = Word(syntax.key) /\ At(k, 3) = Word(syntax.value)
           /\ At(k, 5) = Word(syntax.end)
           /\ k < n => At(k, 6) = Comma
  <2> HIDE DEF n
  <2> QED
    BY <1>1, <1>2, <1>3
<1>5. ReadPoints(syntax, body) = {[key |-> At(k, 2).text, value |-> At(k, 4).number] : k \in 1..n}
  <2> HIDE DEF n
  <2>1. ReadPoints(syntax, body) =
          IF /\ n > 0 /\ Len(body) = 6 * n + 1
             /\ body[1] = Word(syntax.open) /\ body[Len(body)] = Word(syntax.close)
             /\ \A k \in 1..n :
                  /\ At(k, 1) = Word(syntax.key) /\ At(k, 3) = Word(syntax.value)
                  /\ At(k, 5) = Word(syntax.end)
                  /\ k < n => At(k, 6) = Comma
          THEN {[key |-> At(k, 2).text, value |-> At(k, 4).number] : k \in 1..n}
          ELSE {}
    BY Zenon DEF ReadPoints, n, At, Comma
  <2> QED
    BY <1>4, <2>1
<1>6. \A k \in 1..N : At(k, 2).text = data[k].key /\ At(k, 4).number = data[k].value
  <2> SUFFICES ASSUME NEW k \in 1..N
               PROVE  At(k, 2).text = data[k].key /\ At(k, 4).number = data[k].value
    OBVIOUS
  <2>1. At(k, 2) = Word(data[k].key) /\ At(k, 4) = Printed(data[k].value)
    BY <1>3
  <2>2. Word(data[k].key).text = data[k].key /\ Printed(data[k].value).number = data[k].value
    BY DEF Word, Printed
  <2> QED
    BY <2>1, <2>2
<1> HIDE DEF n
<1>7. {[key |-> At(k, 2).text, value |-> At(k, 4).number] : k \in 1..n}
        = {[key |-> data[k].key, value |-> data[k].value] : k \in 1..N}
  BY <1>2, <1>6
<1> QED
  BY <1>5, <1>7

\* A text of three words.
LEMMA ThreeWords ==
  ASSUME NEW a \in Spoken, NEW b \in Spoken, NEW c \in Spoken
  PROVE  /\ Words(<<a, b, c>>) \in Seq(Texts) /\ Len(Words(<<a, b, c>>)) = 3
         /\ Words(<<a, b, c>>)[1] = Word(a) /\ Words(<<a, b, c>>)[2] = Word(b)
         /\ Words(<<a, b, c>>)[3] = Word(c)
<1> DEFINE s == <<a, b, c>>
<1>1. Len(s) = 3 /\ s[1] = a /\ s[2] = b /\ s[3] = c /\ \A k \in 1..3 : s[k] \in Spoken
  <2>1. \A k \in 1..3 : k = 1 \/ k = 2 \/ k = 3
    OBVIOUS
  <2> QED
    BY <2>1
<1> HIDE DEF s
<1>2. /\ Words(s) \in Seq(Texts) /\ Len(Words(s)) = 3
      /\ \A k \in 1..3 : Words(s)[k] = Word(s[k])
  BY <1>1, WordsOf
<1> QED
  BY <1>1, <1>2 DEF s

\* A word that is no end of a line.
LEMMA NoEnd == \A s : s # "\r\n" => Word(s) # CRLF
BY WordsAreTexts DEF CRLF

\* The targets are in order: words, none of them the end of a line.
LEMMA TargetPlain ==
  ASSUME NEW b \in {"aliyun", "xively"}
  PROVE  Target(b) \in Seq(Texts) /\ Plain(Target(b))
<1>1. /\ "/dev/" \in Spoken /\ "dev_id" \in Spoken /\ "/v2/feeds/" \in Spoken
      /\ "feed_id" \in Spoken /\ ".json" \in Spoken
  BY Zenon DEF Spoken
<1>2. /\ Word("/dev/") # CRLF /\ Word("dev_id") # CRLF /\ Word("/v2/feeds/") # CRLF
      /\ Word("feed_id") # CRLF /\ Word(".json") # CRLF
  BY NoEnd
<1>3. CASE b = "aliyun"
  <2> DEFINE w == Words(<<"/dev/", "dev_id">>)
  <2>1. Target(b) = w
    BY <1>3 DEF Target
  <2>2. w \in Seq(Texts) /\ Len(w) = 2 /\ w[1] = Word("/dev/") /\ w[2] = Word("dev_id")
    BY <1>1, TwoWords
  <2> HIDE DEF w
  <2>3. \A k \in 1..2 : k = 1 \/ k = 2
    OBVIOUS
  <2> QED
    BY <1>2, <2>1, <2>2, <2>3 DEF Plain
<1>4. CASE b = "xively"
  <2> DEFINE w == Words(<<"/v2/feeds/", "feed_id", ".json">>)
  <2>1. Target(b) = w
    BY <1>4 DEF Target
  <2>2. w \in Seq(Texts) /\ Len(w) = 3 /\ w[1] = Word("/v2/feeds/") /\ w[2] = Word("feed_id")
        /\ w[3] = Word(".json")
    BY <1>1, ThreeWords
  <2> HIDE DEF w
  <2>3. \A k \in 1..3 : k = 1 \/ k = 2 \/ k = 3
    OBVIOUS
  <2> QED
    BY <1>2, <2>1, <2>2, <2>3 DEF Plain
<1> QED
  BY <1>3, <1>4

\* So are the headers, which are not taken for the length of the body.
LEMMA HeaderPlain ==
  ASSUME NEW b \in {"aliyun", "xively"}
  PROVE  /\ Header(b) \in Seq(Texts) /\ Plain(Header(b))
         /\ Len(Header(b)) > 0 /\ Header(b)[1] # Word("Content-Length")
<1>1. /\ "Content-Type: application/x-www-form-urlencoded" \in Spoken
      /\ "X-ApiKey:" \in Spoken /\ "api_key" \in Spoken
  BY Zenon DEF Spoken
<1>2. /\ Word("Content-Type: application/x-www-form-urlencoded") # CRLF
      /\ Word("X-ApiKey:") # CRLF /\ Word("api_key") # CRLF
  BY NoEnd
<1>3. /\ Word("Content-Type: application/x-www-form-urlencoded") # Word("Content-Length")
      /\ Word("X-ApiKey:") # Word("Content-Length")
  BY WordsAreTexts
<1>4. CASE b = "aliyun"
  <2> DEFINE v == "Content-Type: application/x-www-form-urlencoded"
             w == Words(<<v>>)
  <2>1. Header(b) = w
    BY <1>4 DEF Header
  <2>2. v \in Spoken /\ Word(v) # CRLF /\ Word(v) # Word("Content-Length")
    BY <1>1, <1>2, <1>3
  <2> HIDE DEF v
  <2>3. w \in Seq(Texts) /\ Len(w) = 1 /\ w[1] = Word(v)
    BY <2>2, OneWord
  <2> HIDE DEF w
  <2>4. \A k \in 1..1 : k = 1
    OBVIOUS
  <2> QED
    BY <2>1, <2>2, <2>3, <2>4 DEF Plain
<1>5. CASE b = "xively"
  <2> DEFINE w == Words(<<"X-ApiKey:", "api_key">>)
  <2>1. Header(b) = w
    BY <1>5 DEF Header
  <2>2. w \in Seq(Texts) /\ Len(w) = 2 /\ w[1] = Word("X-ApiKey:") /\ w[2] = Word("api_key")
    BY <1>1, TwoWords
  <2> HIDE DEF w
  <2>3. \A k \in 1..2 : k = 1 \/ k = 2
    OBVIOUS
  <2>4. /\ Word("X-ApiKey:") # CRLF /\ Word("api_key") # CRLF
        /\ Word("X-ApiKey:") # Word("Content-Length")
    BY Zenon, <1>2, <1>3
  <2> QED
    BY <2>1, <2>2, <2>3, <2>4 DEF Plain
<1> QED
  BY <1>4, <1>5

\* The points of a reading.
LEMMA PointsOfReading ==
  ASSUME NEW raw \in Int, NEW t \in Int
  PROVE  \E N \in Nat : /\ N > 0 /\ Points(DataPoints(raw, t), N)
                        /\ {[key |-> DataPoints(raw, t)[k].key,
                             value |-> DataPoints(raw, t)[k].value] : k \in 1..N} =
                             {[key |-> KEY_RAW_DATA, value |-> SixDecimals(raw)]} \cup
                             IF t = TEMP_NO_DEVICE THEN {}
                             ELSE {[key |-> KEY_TEMP, value |-> t]}
<1> DEFINE data == DataPoints(raw, t)
           p == [key |-> KEY_RAW_DATA, value |-> SixDecimals(raw)]
           q == [key |-> KEY_TEMP, value |-> t]
           Same(k) == [key |-> data[k].key, value |-> data[k].value]
<1>1. SixDecimals(raw) \in Int
  BY DEF SixDecimals
<1>2. KEY_RAW_DATA \in Keys /\ KEY_TEMP \in Keys
  BY DEF Keys
<1>3. /\ p.key = KEY_RAW_DATA /\ p.value = SixDecimals(raw) /\ q.key = KEY_TEMP /\ q.value = t
      /\ [key |-> p.key, value |-> p.value] = p /\ [key |-> q.key, value |-> q.value] = q
  OBVIOUS
<1>4. CASE t = TEMP_NO_DEVICE
  <2>1. data = <<p>>
    BY <1>4 DEF DataPoints, AppendDataPoint
  <2> HIDE DEF data, p
  <2>2. Len(data) = 1 /\ data[1] = p /\ \A k \in 1..1 : k = 1
    BY <2>1
  <2>3. Points(data, 1)
    BY <1>1, <1>2, <1>3, <2>2 DEF Points
  <2>4. {Same(k) : k \in 1..1} = {p}
    BY <1>3, <2>2
  <2> QED
    BY <1>4, <2>3, <2>4 DEF data, p
<1>5. CASE t # TEMP_NO_DEVICE
  <2>1. data = <<q>> \o (<<p>> \o <<>>)
    BY <1>5 DEF DataPoints, AppendDataPoint
  <2> HIDE DEF data, p, q
  <2>2. Len(data) = 2 /\ data[1] = q /\ data[2] = p /\ \A k \in 1..2 : k = 1 \/ k = 2
    <3>1. <<p>> \o <<>> = <<p>>
      OBVIOUS
    <3>2. /\ <<q>> \in Seq({p, q}) /\ <<p>> \in Seq({p, q})
          /\ Len(<<q>>) = 1 /\ Len(<<p>>) = 1 /\ <<q>>[1] = q /\ <<p>>[1] = p
      OBVIOUS
    <3> DEFINE a == <<q>>
               c == <<p>>
    <3> HIDE DEF a, c
    <3>3. /\ Len(a \o c) = Len(a) + Len(c)
          /\ \A k \in 1..Len(a) + Len(c) : (a \o c)[k] = IF k <= Len(a) THEN a[k] ELSE c[k - Len(a)]
      BY <3>2, ConcatProperties DEF a, c
    <3>4. Len(a \o c) = 2 /\ (a \o c)[1] = q /\ (a \o c)[2] = p
      <4>1. Len(a) = 1 /\ Len(c) = 1 /\ a[1] = q /\ c[1] = p
        BY <3>2 DEF a, c
      <4> QED
        BY <3>3, <4>1
    <3>5. data = <<q>> \o <<p>>
      BY Zenon, <2>1, <3>1
    <3>6. data = a \o c
      BY Zenon, <3>5 DEF a, c
    <3>7. \A k \in 1..2 : k = 1 \/ k = 2
      OBVIOUS
    <3> QED
      BY <3>4, <3>6, <3>7
  <2>3. Points(data, 2)
    BY <1>1, <1>2, <1>3, <2>2 DEF Points
  <2>4. {Same(k) : k \in 1..2} = {p} \cup {q}
    BY <1>3, <2>2
  <2> QED
    BY <1>5, <2>3, <2>4 DEF data, p, q
<1> QED
  BY <1>4, <1>5

\* What the server makes of a request.
LEMMA ServerReads ==
  ASSUME NEW b \in {"aliyun", "xively"}, NEW raw \in Int, NEW t \in Int
  PROVE  /\ RequestLine(Method(b), Target(b)) \in ReadRequest(b, UploadRequest(b, raw, t)).lines
         /\ Header(b) \in ReadRequest(b, UploadRequest(b, raw, t)).lines
         /\ ReadRequest(b, UploadRequest(b, raw, t)).points =
              {[key |-> KEY_RAW_DATA, value |-> SixDecimals(raw)]} \cup
              IF t = TEMP_NO_DEVICE THEN {} ELSE {[key |-> KEY_TEMP, value |-> t]}
<1> DEFINE method == Method(b)
           target == Target(b)
           host == Host(b)
           header == Header(b)
           data == DataPoints(raw, t)
           syntax == Syntax(b)
           body == Body(b, data)
           text == UploadRequest(b, raw, t)
<1>1. text = HttpRequest(method, target, host, header, body)
  BY DEF UploadRequest
<1>2. method \in Spoken /\ Word(method) # CRLF /\ method # "Content-Length"
  <2>1. "POST" \in Spoken /\ "PUT" \in Spoken
    BY Zenon DEF Spoken
  <2>2. Word("POST") # CRLF /\ Word("PUT") # CRLF
    BY NoEnd
  <2>3. method \in {"POST", "PUT"}
    BY DEF Method
  <2> QED
    BY <2>1, <2>2, <2>3
<1>3. host \in Spoken /\ Word(host) # CRLF
  <2>1. "115.29.178.169" \in Spoken /\ "api.xively.com" \in Spoken
    BY Zenon DEF Spoken
  <2>2. Word("115.29.178.169") # CRLF /\ Word("api.xively.com") # CRLF
    BY NoEnd
  <2>3. host \in {"115.29.178.169", "api.xively.com"}
    BY DEF Host
  <2> QED
    BY <2>1, <2>2, <2>3
<1>4. target \in Seq(Texts) /\ Plain(target)
  BY TargetPlain
<1>5. /\ header \in Seq(Texts) /\ Plain(header)
      /\ Len(header) > 0 /\ header[1] # Word("Content-Length")
  BY HeaderPlain
<1>6. Spelled(syntax)
  <2>1. Spelled(Aliyun)
    <3>1. /\ Aliyun.open = "data=%7B" /\ Aliyun.key = "%22" /\ Aliyun.value = "%22%3a"
          /\ Aliyun.end = "" /\ Aliyun.close = "%7D"
      BY Zenon DEF Aliyun
    <3>2. /\ "data=%7B" \in Spoken /\ "%22" \in Spoken /\ "%22%3a" \in Spoken
          /\ "" \in Spoken /\ "%7D" \in Spoken
      BY Zenon DEF Spoken
    <3> QED
      BY Zenon, <3>1, <3>2 DEF Spelled
  <2>2. Spelled(Xively)
    <3>1. /\ Xively.open = "{'datastreams':[" /\ Xively.key = "{'id':'"
          /\ Xively.value = "','current_value':'"
          /\ Xively.end = "'}" /\ Xively.close = "]}"
      BY Zenon DEF Xively
    <3>2. /\ "{'datastreams':[" \in Spoken /\ "{'id':'" \in Spoken
          /\ "','current_value':'" \in Spoken
          /\ "'}" \in Spoken /\ "]}" \in Spoken
      BY Zenon DEF Spoken
    <3> QED
      BY Zenon, <3>1, <3>2 DEF Spelled
  <2> QED
    BY <2>1, <2>2 DEF Syntax
<1>7. PICK N \in Nat : /\ N > 0 /\ Points(data, N)
                       /\ {[key |-> data[k].key, value |-> data[k].value] : k \in 1..N} =
                            {[key |-> KEY_RAW_DATA, value |-> SixDecimals(raw)]} \cup
                            IF t = TEMP_NO_DEVICE THEN {}
                            ELSE {[key |-> KEY_TEMP, value |-> t]}
  BY PointsOfReading
<1>8. body \in Seq(Texts) /\ Len(body) > 0
  <2>1. BodyWords(body, syntax, data, N)
    BY <1>6, <1>7, BodyPlaced
  <2>2. Len(body) = 6 * N + 1 /\ body \in Seq(Texts)
    BY <2>1 DEF BodyWords
  <2> QED
    BY <1>7, <2>2
<1>9. ReadPoints(Grammar(b), DecodedBody(b, body))
        = {[key |-> data[k].key, value |-> data[k].value] : k \in 1..N}
  <2>1. BodyWords(body, syntax, data, N)
    BY <1>6, <1>7, BodyPlaced
  <2>2. BodyWords(DecodedBody(b, body), Grammar(b), data, N)
    BY <1>7, <2>1, BodyDecoded
  <2> QED
    BY <1>7, <2>2, BodyRead
<1> HIDE DEF method, target, host, header, data, syntax, body, text
<1>10. Placed(text, method, target, host, header, body)
  BY <1>1, <1>2, <1>3, <1>4, <1>5, <1>8, RequestPlaced
<1>11. /\ RequestLine(method, target) \in HeaderLines(text)
       /\ header \in HeaderLines(text)
       /\ ReceivedBody(text) = body
  BY <1>2, <1>3, <1>4, <1>5, <1>8, <1>10, RequestRead
<1>12. /\ ReadRequest(b, text).lines = HeaderLines(text)
       /\ ReadRequest(b, text).points
            = ReadPoints(Grammar(b), DecodedBody(b, ReceivedBody(text)))
  BY DEF ReadRequest
<1> QED
  BY <1>7, <1>9, <1>11, <1>12 DEF method, target, header, text

(* What the server has read of a reading is what a request made of it says, and   *)
(* the request on its way is made of the reading that is being uploaded.          *)
Understood ==
    /\ backend \in {"aliyun", "xively"} /\ reading.raw \in Int /\ reading.t \in Int
    /\ pc = "wait" => sent = Request
    /\ server > 0 => stored = ReadRequest(backend, Request)

\* The server has read nothing at first.
LEMMA InitUnderstood == Init => Understood
BY UploadAssumption DEF Init, Understood, TEMP_NO_DEVICE

\* No step makes it misread.
LEMMA NextUnderstood ==
  ASSUME Understood, server \in Nat, [Next]_vars
  PROVE  Understood'
<1>1. CASE StartUpload
  <2>1. reading' \in [raw : Readings, t : Temperatures] /\ server' = 0 /\ pc' = "resolve"
        /\ backend' = backend
    BY <1>1 DEF StartUpload, Begin
  <2>2. reading'.raw \in Int /\ reading'.t \in Int
    BY <2>1, UploadAssumption
  <2> QED
    BY <2>1, <2>2 DEF Understood
<1>2. ASSUME UNCHANGED <<backend, reading, remote>>, pc' # "wait" PROVE Understood'
  BY <1>2 DEF Understood, Request, remote
<1>3. CASE Send
  <2>1. UNCHANGED <<backend, reading, remote>>
    BY <1>3 DEF Send, Return, Continue
  <2>2. pc' = "wait" => sent' = Request
    BY <1>3 DEF Send, Return, Continue
  <2> QED
    BY <2>1, <2>2 DEF Understood, Request, remote
<1>4. CASE GetAddrInfo \/ Socket \/ Connect \/ Timeout \/ Receive
  <2>1. UNCHANGED <<backend, reading, remote>> /\ pc' # "wait"
    BY <1>4 DEF GetAddrInfo, Socket, Connect, Timeout, Receive, Return, Continue
  <2> QED
    BY <1>2, <2>1
<1>5. CASE Serve
  <2>1. UNCHANGED <<backend, reading, pc, sent>> /\ pc = "wait"
    BY <1>5 DEF Serve, http
  <2>2. (server' = server /\ stored' = stored) \/ stored' = ReadRequest(backend, sent)
    BY <1>5 DEF Serve, remote
  <2> QED
    BY <2>1, <2>2 DEF Understood, Request
<1>6. CASE Retry
  <2>1. UNCHANGED <<backend, reading, remote>> /\ pc' # "wait"
    BY <1>6 DEF Retry, Begin
  <2> QED
    BY <1>2, <2>1
<1>7. CASE EndUpload
  <2>1. UNCHANGED <<backend, reading, remote>> /\ pc' # "wait"
    BY <1>7 DEF EndUpload
  <2> QED
    BY <1>2, <2>1
<1>8. CASE UNCHANGED vars
  BY <1>8 DEF vars, http, remote, Understood, Request
<1> QED
  BY <1>1, <1>3, <1>4, <1>5, <1>6, <1>7, <1>8 DEF Next, RequestStep

\* Then it has the reading.
LEMMA UnderstoodIsRight == Understood => ServerGetsReading
<1> SUFFICES ASSUME Understood, server > 0 PROVE ServerGetsReading
  BY DEF ServerGetsReading
<1> DEFINE raw == reading.raw
           t == reading.t
           p == [key |-> KEY_RAW_DATA, value |-> SixDecimals(raw)]
           q == [key |-> KEY_TEMP, value |-> t]
<1>1. /\ RequestLine(Method(backend), Target(backend)) \in stored.lines
      /\ Header(backend) \in stored.lines
      /\ stored.points = {p} \cup IF t = TEMP_NO_DEVICE THEN {} ELSE {q}
  <2>1. backend \in {"aliyun", "xively"} /\ raw \in Int /\ t \in Int
    BY DEF Understood
  <2>2. stored = ReadRequest(backend, UploadRequest(backend, raw, t))
    BY DEF Understood, Request
  <2> HIDE DEF raw, t
  <2> QED
    BY <2>1, <2>2, ServerReads
<1>2. p \in stored.points /\ p = [key |-> KEY_RAW_DATA, value |-> SixDecimals(reading.raw)]
  <2>1. p = [key |-> KEY_RAW_DATA, value |-> SixDecimals(reading.raw)]
    OBVIOUS
  <2> HIDE DEF p, q, raw
  <2> QED
    BY <1>1, <2>1
<1>3. p # q
  <2>1. p.key = KEY_RAW_DATA /\ q.key = KEY_TEMP
    OBVIOUS
  <2> HIDE DEF p, q
  <2> QED
    BY <2>1 DEF KEY_RAW_DATA, KEY_TEMP
<1>4. stored.points \ {p} = IF t = TEMP_NO_DEVICE THEN {} ELSE {q}
  <2> HIDE DEF p, q, t
  <2> QED
    BY <1>1, <1>3
<1> HIDE DEF p
<1> QED
  BY <1>1, <1>2, <1>4 DEF ServerGetsReading, RequestLine

\* It never misreads.
LEMMA UnderstoodAlways == Spec => []Understood
<1>1. IInv => server \in Nat
  BY UploadAssumption DEF IInv, TypeOK
<1>2. IInv /\ Understood /\ [Next]_vars => Understood'
  BY <1>1, NextUnderstood
<1> QED
  BY <1>2, InitUnderstood, Invariance, PTL DEF Spec

(* Whatever was refused, lost or sent again, the server reads the reading that    *)
(* was uploaded: the mean as it was printed, and the temperature if there         *)
(* is one, under the request line and header of the device (main.c:1166-1192,    *)
(* upload.c:37-86, xively.c:31-101, sshttp.c:75-157).                            *)
THEOREM ServerReadsReading == Spec => []ServerGetsReading
<1> QED
  BY UnderstoodIsRight, UnderstoodAlways, PTL
=============================================================================
