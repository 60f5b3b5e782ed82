-------------------------------- MODULE Upload --------------------------------
(* One reading goes to the server: the upload section of the main loop, the    *)
(* retry loops of upload() and xively_update_feed(), and sshttp_request(),     *)
(* against a network that may refuse, lose or garble anything.  The process's  *)
(* file descriptors are counted because a request does not always give its own *)
(* back.  The timer is stopped throughout: nothing interleaves but the server. *)
EXTENDS Message

CONSTANTS
    Backends,       \* CONFIG_KEY_UPLOAD: "aliyun" (upload.c), "xively" (xively.c)
    Readings,       \* calibrated means, in 60000ths
    Temperatures,   \* of the thermometer, or TEMP_NO_DEVICE
    RETRY_TIMES,    \* requests per upload (upload.h, xively.h: 3)
    Statuses,       \* what atoi() makes of the three characters at the status code
    MaxFds          \* descriptors the process may open

ASSUME UploadAssumption ==
    /\ Backends \subseteq {"aliyun", "xively"}
    /\ Readings \subseteq Int /\ Temperatures \subseteq Int
    /\ RETRY_TIMES \in Nat \ {0}
    /\ Statuses \subseteq 0..999
    /\ MaxFds \in Nat \ {0}

VARIABLES
    backend,    \* CONFIG_KEY_UPLOAD of this device
    pc,         \* where the request is; "idle": no upload
    i,          \* requests of this upload so far
    ret,        \* result of the last request
    fds,        \* descriptors open
    failed,     \* connect() calls that failed
    reading,    \* the mean and temperature uploaded
    buffer,     \* buff of sshttp.c: nothing, the request, or what came of the reply
    sent,       \* the request on its way to the server
    server,     \* requests of this upload the server acted on
    stored,     \* what it read of the last of them
    replied,    \* what the server says to the current request, if anything
    net         \* network icon: -1 blank, 0 disconnected, 1 connected

http == <<buffer, sent>>
remote == <<server, stored>>
vars == <<backend, pc, i, ret, fds, failed, reading, http, remote, replied, net>>

NoReply == -1

Nothing == [lines |-> {}, points |-> {}]

Init ==
    /\ backend \in Backends
    /\ pc = "idle"
    /\ i = 0 /\ ret = 0
    /\ fds = 0 /\ failed = 0
    /\ reading = [raw |-> 0, t |-> TEMP_NO_DEVICE]
    /\ buffer = <<>> /\ sent = <<>>
    /\ server = 0 /\ stored = Nothing
    /\ replied = NoReply
    /\ net = -1

-----------------------------------------------------------------------------
(* sshttp_request().                                                           *)

\* The request goes on at `to`.
Continue(from, to) ==
    /\ pc = from /\ pc' = to
    /\ UNCHANGED <<backend, i, ret, failed, reading, remote, replied, net>>

\* The request ends with result r, holding on to `held` of its descriptors.
Return(from, r, held) ==
    /\ pc = from /\ pc' = "returned"
    /\ ret' = r
    /\ fds' = fds + held
    /\ UNCHANGED <<backend, i, reading, sent, remote, replied, net>>

GetAddrInfo ==
    \/ Return("resolve", -1, 0) /\ UNCHANGED <<buffer, failed>>
    \/ Continue("resolve", "socket") /\ UNCHANGED <<fds, http>>

Socket ==
    \/ Return("socket", -2, 0) /\ UNCHANGED <<buffer, failed>>
    \/ /\ fds < MaxFds
       /\ Continue("socket", "connect")
       /\ fds' = fds + 1
       /\ UNCHANGED http

\* The failing branch frees the address but not the socket.
Connect ==
    \/ Return("connect", -3, 0) /\ failed' = failed + 1 /\ UNCHANGED buffer
    \/ Continue("connect", "send") /\ UNCHANGED <<fds, http>>

Request == UploadRequest(backend, reading.raw, reading.t)

\* Mutant: the request is left in the buffer.
Send_NotCleared ==
    \/ Return("send", -4, -1) /\ buffer' = Request /\ UNCHANGED failed
    \/ Continue("send", "wait") /\ buffer' = Request /\ sent' = Request /\ UNCHANGED fds

\* The request is built in the buffer, which is cleared when it is sent.
Send ==
    \/ Return("send", -4, -1) /\ buffer' = Request /\ UNCHANGED failed
    \/ Continue("send", "wait") /\ buffer' = <<>> /\ sent' = Request /\ UNCHANGED fds

\* The server gets the request, acts on it or not, and makes up its reply.
Serve ==
    /\ pc = "wait" /\ replied = NoReply
    /\ \/ server' = server + 1 /\ stored' = ReadRequest(backend, sent)
       \/ UNCHANGED remote
    /\ \E s \in Statuses :
         /\ s = 200 => server' > server
         /\ replied' = s
    /\ UNCHANGED <<backend, pc, i, ret, fds, failed, reading, http, net>>

\* Mutant: the descriptor is not closed when no reply comes.
Timeout_Leaks == Return("wait", -5, 0) /\ UNCHANGED <<buffer, failed>>

\* poll() fails or times out: the reply, if there is one, was lost or too late.
Timeout == Return("wait", -5, -1) /\ UNCHANGED <<buffer, failed>>

\* A reply, or its first part.
Reply(s) == <<Word("HTTP/1.1 "), Number(s), CRLF, CRLF>>
ReplyPart(s) == <<Word("HTTP/1.1 "), Number(s), CRLF>>

\* parse_responce(): without the blank line that ends the header there is no
\* status; atoi() of the three characters at its place is 0 if they are no number.
ParseResponce(b) ==
    IF \E k \in 1..(Len(b) - 1) : b[k] = CRLF /\ b[k + 1] = CRLF
    THEN IF b[1] = Word("HTTP/1.1 ") THEN b[2].number ELSE 0
    ELSE -6

\* One recv(): the connection has ended, or failed (-1 as a size_t is no error to
\* the code), or part of the reply or all of it has come.
Receive ==
    /\ UNCHANGED failed
    /\ \/ Return("wait", -6, -1) /\ UNCHANGED buffer
       \/ Return("wait", ParseResponce(buffer), -1) /\ UNCHANGED buffer
       \/ /\ replied # NoReply
          /\ buffer' \in {Reply(replied), ReplyPart(replied)}
          /\ Return("wait", ParseResponce(buffer'), -1)

-----------------------------------------------------------------------------
(* The retry loop and the main loop around it.                                 *)

\* Mutant: the requests are not counted.
Begin_Uncounted ==
    /\ i' = i
    /\ pc' = "resolve"
    /\ replied' = NoReply

Begin ==
    /\ i' = i + 1
    /\ pc' = "resolve"
    /\ replied' = NoReply

\* DATA_SEND_INTERVAL samples have been averaged.
StartUpload ==
    /\ pc = "idle"
    /\ Begin
    /\ reading' \in [raw : Readings, t : Temperatures]
    /\ server' = 0 /\ stored' = Nothing
    /\ ret' = 0
    /\ UNCHANGED <<backend, fds, failed, http, net>>

\* Mutant: one request too many.
Retry_OneMore ==
    /\ pc = "returned" /\ ret # 200 /\ i <= RETRY_TIMES
    /\ Begin
    /\ UNCHANGED <<backend, ret, fds, failed, reading, http, remote, net>>

\* The loop ends with 0 on a 200; when it has run out of retries upload() returns
\* the result of the last request, xively_update_feed() -1.
Retry ==
    /\ pc = "returned" /\ ret # 200 /\ i < RETRY_TIMES
    /\ Begin
    /\ UNCHANGED <<backend, ret, fds, failed, reading, http, remote, net>>

\* Mutant: any answer is a success.
Result_AnyAnswer == IF ret > 0 THEN 0 ELSE -1

Result ==
    IF ret = 200 THEN 0 ELSE IF backend = "xively" THEN -1 ELSE ret

\* display() draws the icon, from an image that it opens and loads: without a
\* descriptor the old one stays.
EndUpload ==
    /\ pc = "returned" /\ (ret = 200 \/ i >= RETRY_TIMES)
    /\ pc' = "idle"
    /\ i' = 0
    /\ net' = IF fds = MaxFds THEN net ELSE IF Result = 0 THEN 1 ELSE 0
    /\ UNCHANGED <<backend, ret, fds, failed, reading, http, remote, replied>>

RequestStep == GetAddrInfo \/ Socket \/ Connect \/ Send \/ Timeout \/ Receive

Next == StartUpload \/ RequestStep \/ Serve \/ Retry \/ EndUpload

Spec == Init /\ [][Next]_vars

\* Every call of a request returns: resolver and connect() by their own time-outs,
\* the reply by poll()'s.
FairSpec == Spec /\ WF_vars(RequestStep \/ Retry \/ EndUpload)
-----------------------------------------------------------------------------
TypeOK ==
    /\ backend \in Backends
    /\ pc \in {"idle", "resolve", "socket", "connect", "send", "wait", "returned"}
    /\ i \in 0..RETRY_TIMES
    /\ ret \in Statuses \cup -6..0
    /\ fds \in 0..MaxFds /\ failed \in 0..MaxFds
    /\ server \in 0..RETRY_TIMES
    /\ replied \in Statuses \cup {NoReply}
    /\ net \in {-1, 0, 1}

(* As long as a descriptor is left to load it, the icon says connected only if   *)
(* the server acted on this very reading, and disconnected only if no request of  *)
(* it was answered with 200 (main.c:1196-1207) - with aliyun unless the last      *)
(* answer had a status that is no number (upload.c:99).                          *)
IconTellsOutcome ==
    pc = "idle" /\ fds < MaxFds =>
      /\ net = 1 => (server > 0 /\ ret = 200) \/ (backend = "aliyun" /\ ret = 0)
      /\ net = 0 => ret # 200

(* A status that a request returns is the server's answer to that very request:   *)
(* not to the one before, nor read from the request's own text, which is built in *)
(* the same buffer, when recv() fails and the failure is not noticed             *)
(* (sshttp.c:75-76, 169, 191-204).                                              *)
StatusIsReplied == pc = "returned" /\ ret >= 0 => ret = replied

(* Only a failed connect() costs a descriptor (sshttp.c:68-73): uploads may be    *)
(* refused, time out or be garbled for ever, and give back all they took.         *)
OnlyConnectLeaks == pc \in {"idle", "resolve", "socket", "returned"} => fds = failed

(* What the server reads is the reading, in a well formed body under a request    *)
(* line and header of the device's own: the mean as it was printed, and the       *)
(* temperature if there is one, however often the request was sent                *)
(* (main.c:1166-1192, upload.c:37-86, xively.c:31-101, sshttp.c:75-157).         *)
ServerGetsReading ==
    server > 0 =>
      /\ \E p \in stored.points :
           /\ p = [key |-> KEY_RAW_DATA, value |-> SixDecimals(reading.raw)]
           /\ stored.points \ {p} =
                IF reading.t = TEMP_NO_DEVICE THEN {}
                ELSE {[key |-> KEY_TEMP, value |-> reading.t]}
      /\ Words(<<Method(backend), " ">>) \o Target(backend) \o Words(<<" ", "HTTP/1.1">>)
           \in stored.lines
      /\ Header(backend) \in stored.lines

(* Every upload comes to an end, and with it the time the sampling stands still *)
(* (main.c:1161, 1212).                                                        *)
UploadEnds == pc = "resolve" ~> pc = "idle"
=============================================================================
