------------------------------- MODULE WifiScan -------------------------------
(* The page ask beside Wi-Fi setup: wifi_setup_agent without arguments scans    *)
(* for hosts to offer.  The page is served at any time, so that its agent works *)
(* on the wpa_supplicant that a setup stops, starts and talks to.  One such     *)
(* page is served at a time.                                                    *)
EXTENDS WifiSetup

CONSTANT Pids               \* process ids of these agents

VARIABLES
    ask,        \* where the agent is; "none": no page is being served
    pid,        \* its process id
    sockets,    \* ids whose socket file is there
    peer,       \* its socket is connected to the wpa_supplicant that runs
    scanning,   \* wpa_supplicant scans
    results     \* a SCAN_RESULTS event waits on the agent's socket

scan == <<ask, pid, sockets, peer, scanning, results>>
allvars == <<vars, scan>>

Attached == {"remove", "empty", "scan", "wait", "spin", "list", "detach"}

ScanInit ==
    /\ Init
    /\ ask = "none" /\ pid \in Pids
    /\ sockets = {}
    /\ peer = FALSE /\ scanning = FALSE /\ results = FALSE

AskAt(from, to) == ask = from /\ ask' = to

\* Mutant: a file that is in the way is left there.
Open_NoUnlink(p) ==
    /\ pid' = p
    /\ \/ p \notin sockets /\ AskAt("none", "connect") /\ sockets' = sockets \cup {p}
       \/ p \in sockets /\ AskAt("none", "again") /\ UNCHANGED sockets
    /\ UNCHANGED <<vars, peer, scanning, results>>

\* wpa_ctrl_open(): the socket is bound to a file named for the process; the file
\* of an earlier agent of that id is in the way, and removed.
Open(p) ==
    /\ pid' = p
    /\ \/ p \notin sockets /\ AskAt("none", "connect") /\ sockets' = sockets \cup {p}
       \/ p \in sockets /\ AskAt("none", "again") /\ sockets' = sockets \ {p}
    /\ UNCHANGED <<vars, peer, scanning, results>>

\* The second and last try.
OpenAgain ==
    /\ \/ pid \notin sockets /\ AskAt("again", "connect") /\ sockets' = sockets \cup {pid}
       \/ pid \in sockets /\ AskAt("again", "refused") /\ UNCHANGED sockets
    /\ UNCHANGED <<vars, pid, peer, scanning, results>>

\* The file stays if wpa_supplicant runs.
ConnectCtrl ==
    /\ \/ /\ "wpa_supplicant" \in running
          /\ AskAt("connect", "attach")
          /\ peer' = TRUE
          /\ UNCHANGED sockets
       \/ /\ "wpa_supplicant" \notin running
          /\ AskAt("connect", "refused")
          /\ sockets' = sockets \ {pid}
          /\ UNCHANGED peer
    /\ UNCHANGED <<vars, pid, scanning, results>>

\* The end of the process: its socket is closed.
EndAsk ==
    /\ ask' = "none"
    /\ peer' = FALSE /\ results' = FALSE

\* Without wpa_supplicant main() returns at once, and the page is empty; without
\* an answer it leaves the socket file.
AttachScan ==
    /\ \/ ask \in {"attach", "refused"} /\ EndAsk
       \/ peer /\ AskAt("attach", "remove") /\ UNCHANGED <<peer, results>>
    /\ UNCHANGED <<vars, pid, sockets, scanning>>

\* The events before the reply are thrown away; nothing answers for a
\* wpa_supplicant that is gone.
ScanRequest == results' = (results /\ ~peer)

\* DISCONNECT, REMOVE_NETWORK all.
RemoveNetworks ==
    /\ AskAt("remove", "empty")
    /\ nets' = IF peer THEN {} ELSE nets
    /\ wiped' = (wiped \/ peer)
    /\ ScanRequest
    /\ UNCHANGED <<pc, ret, running, fifo, shell, saved, event, submitted, refused,
                   pid, sockets, peer, scanning>>

EmptyEvents ==
    /\ AskAt("empty", "scan")
    /\ results' = FALSE
    /\ UNCHANGED <<vars, pid, sockets, peer, scanning>>

\* Mutant: the events are emptied after the request, perhaps its results with them.
Scan_LateEmpty ==
    /\ \/ peer /\ AskAt("scan", "wait") /\ scanning' \in BOOLEAN
       \/ AskAt("scan", "spin") /\ UNCHANGED scanning
    /\ results' = FALSE
    /\ UNCHANGED <<vars, pid, sockets, peer>>

\* SCAN may be refused; the loop behind it does not know.
Scan ==
    /\ \/ peer /\ AskAt("scan", "wait") /\ scanning' = TRUE
       \/ AskAt("scan", "spin") /\ UNCHANGED scanning
    /\ ScanRequest
    /\ UNCHANGED <<vars, pid, sockets, peer>>

\* Polls for ever if there is no event.
AwaitResults ==
    /\ AskAt("wait", "list") \/ AskAt("spin", "list")
    /\ results
    /\ results' = FALSE
    /\ UNCHANGED <<vars, pid, sockets, peer, scanning>>

\* A reply longer than the buffer is cut, and read past its end for a fourth tab,
\* which may be the end of the process.
ListHosts ==
    /\ \/ AskAt("list", "detach") /\ ScanRequest /\ UNCHANGED peer
       \/ ask = "list" /\ peer /\ EndAsk
    /\ UNCHANGED <<vars, pid, sockets, scanning>>

\* DETACH, and wpa_ctrl_close().
CloseCtrl ==
    /\ ask = "detach" /\ EndAsk
    /\ sockets' = sockets \ {pid}
    /\ UNCHANGED <<vars, pid, scanning>>

\* The web server gives up a page and ends its processes.
GiveUp ==
    /\ ask # "none" /\ EndAsk
    /\ UNCHANGED <<vars, pid, sockets, scanning>>

AskStep ==
    \/ OpenAgain \/ ConnectCtrl \/ AttachScan \/ RemoveNetworks \/ EmptyEvents
    \/ Scan \/ AwaitResults \/ ListHosts \/ CloseCtrl
-----------------------------------------------------------------------------
(* wpa_supplicant scans when it is asked to, by the agent of a setup too, and   *)
(* where it has networks to find.                                              *)

ScanStarts ==
    /\ "wpa_supplicant" \in running /\ ~scanning
    /\ nets # {} \/ pc = "scan"
    /\ scanning' = TRUE
    /\ UNCHANGED <<vars, ask, pid, sockets, peer, results>>

ScanDone ==
    /\ scanning
    /\ scanning' = FALSE
    /\ results' = (results \/ (peer /\ ask \in Attached))
    /\ UNCHANGED <<vars, ask, pid, sockets, peer>>

\* A setup kills wpa_supplicant, with whatever it was doing.
SetupStarts ==
    /\ StartSetup
    /\ peer' = FALSE /\ scanning' = FALSE
    /\ UNCHANGED <<ask, pid, sockets, results>>

SetupStep == Setup /\ UNCHANGED scan

WifiStep ==
    \/ SetupStarts \/ SetupStep
    \/ (Offer \/ Lease \/ Connect \/ \E h \in Hosts : Sethost(h) \/ Unblock(h)) /\ UNCHANGED scan

ScanNext ==
    \/ WifiStep \/ AskStep \/ GiveUp
    \/ \E p \in Pids : Open(p)
    \/ ScanStarts \/ ScanDone

ScanSpec == ScanInit /\ [][ScanNext]_allvars

\* The agent of the page polls; a scan that was started ends.  A setup may wait for
\* ever.
FairSpec == ScanSpec /\ WF_allvars(AskStep) /\ WF_allvars(ScanDone)
-----------------------------------------------------------------------------
ScanTypeOK ==
    /\ TypeOK
    /\ ask \in {"none", "again", "connect", "refused", "attach"} \cup Attached
    /\ pid \in Pids /\ sockets \subseteq Pids
    /\ peer \in BOOLEAN /\ scanning \in BOOLEAN /\ results \in BOOLEAN
    /\ "wpa_supplicant" \notin running => ~peer /\ ~scanning

(* An agent finds wpa_supplicant's socket if it runs, whatever files agents that  *)
(* ended uncleanly left in its way (wpa_ctrl.c:124-140, CGI/main.c:91-95).        *)
OpensAnyway == [][ask' = "refused" /\ ask # ask' => "wpa_supplicant" \notin running]_allvars

(* An agent whose scan was accepted comes to an end or is given up, unless       *)
(* wpa_supplicant is killed under it: neither empty_events() nor a request throws *)
(* away the event that its loop waits for (CGI/main.c:103-119, wpa_ctrl.c:525-546). *)
ScanEnds == ask = "wait" /\ peer ~> ask # "wait" \/ ~peer
=============================================================================
