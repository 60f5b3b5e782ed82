------------------------------ MODULE WifiSetup ------------------------------
(* Wi-Fi setup: wifi_setup() turns the device into an access point, waits on   *)
(* /tmp/assigfifo for the line that the page sethost writes there, turns it    *)
(* back into a station and runs the line, wifi_setup_agent <ssid> <key>, which  *)
(* talks to wpa_supplicant.  The pages are served at any time, each by a        *)
(* process of its own; daemons are started and killed by name.                  *)
EXTENDS Integers, Sequences, SequencesExt

CONSTANTS
    Hosts,          \* what may be submitted: a name and a key
    Keyless,        \* those of them without a key (or with a blank inside)
    Blank,          \* ... and without a name
    Known,          \* networks that wpa_supplicant's configuration may hold at boot
    MaxPipe         \* most lines in the FIFO

ASSUME WifiSetupAssumption ==
    /\ Blank \subseteq Keyless /\ Keyless \subseteq Hosts
    /\ MaxPipe \in Nat \ {0}

VARIABLES
    pc,             \* where wifi_setup(), or the agent it runs, is
    ret,            \* result of the last setup
    running,        \* daemons that run
    signal,         \* what SIGNAL_FIFO is: "none", "fifo" or "file", a regular one
    lines,          \* hosts in it that are not read
    writers,        \* hosts whose page is blocked opening the FIFO
    cmd, line,      \* lines read (buff), and the one the shell is at, if there is one
    status,         \* exit status of the last agent of that shell
    nets, saved,    \* networks enabled in wpa_supplicant, and in its configuration
    event,          \* a CONNECTED event, to whichever network, waits on the agent's socket
    submitted,      \* a page was submitted since a setup waits for its line
    wiped,          \* networks were removed since wpa_supplicant was stopped
    refused         \* ... and it has refused a request

fifo == <<signal, lines, writers>>
shell == <<cmd, line, status>>
wpa == <<nets, saved, event, wiped, refused>>
vars == <<pc, ret, running, fifo, shell, wpa, submitted>>

Daemons == {"hostapd", "udhcpd", "wpa_supplicant", "udhcpc"}
Station == {"wpa_supplicant"}
AccessPoint == {"hostapd", "udhcpd"}

Networks == Hosts \cup Known

Agent == {"line", "remove", "scan", "add", "reassociate", "event", "save"}

\* The FIFO is open for reading until the setup is over.
FdOpen == {"select", "read", "station", "lease", "close", "exit_close_fd"} \cup Agent

\* Started, and not yet acting on what it was sent.
Waiting == {"dhcpd", "fifo", "open", "select", "read", "station"}

Init ==
    /\ pc = "loop" /\ ret = 0
    /\ running \in {{"udhcpc"}, {"wpa_supplicant", "udhcpc"}}
    /\ signal = "none" /\ lines = <<>> /\ writers = {}
    /\ cmd = <<>> /\ line = 1 /\ status = 0
    /\ saved \in SUBSET Known /\ event = FALSE
    /\ nets = IF "wpa_supplicant" \in running THEN saved ELSE {}
    /\ submitted = FALSE /\ wiped = FALSE /\ refused = FALSE
-----------------------------------------------------------------------------
(* wifi_setup().                                                               *)

Goto(from, to) == pc = from /\ pc' = to

StartSetup ==
    /\ Goto("loop", "dhcpd")
    /\ running' = (running \ {"udhcpc", "wpa_supplicant"}) \cup {"hostapd"}
    /\ ret' = 0
    /\ nets' = {} /\ event' = FALSE
    /\ wiped' = FALSE /\ refused' = FALSE
    /\ UNCHANGED <<fifo, shell, saved, submitted>>

\* Started again until pgrep finds it.
StartDhcpd ==
    /\ pc = "dhcpd"
    /\ \/ running' = running \cup {"udhcpd"} /\ pc' = "fifo"
       \/ UNCHANGED <<pc, running>>
    /\ UNCHANGED <<ret, fifo, shell, wpa, submitted>>

\* access() asks for a file of that name, not for a FIFO.
MakeFifo ==
    /\ pc = "fifo"
    /\ \/ signal = "none" /\ signal' = "fifo" /\ pc' = "open" /\ UNCHANGED ret
       \/ signal = "none" /\ ret' = -4 /\ pc' = "exit" /\ UNCHANGED signal
       \/ signal # "none" /\ pc' = "open" /\ UNCHANGED <<ret, signal>>
    /\ UNCHANGED <<running, lines, writers, shell, wpa, submitted>>

OpenFifo ==
    /\ pc = "open"
    /\ \/ pc' = "select" /\ UNCHANGED ret
       \/ pc' = "exit" /\ ret' = -3
    /\ UNCHANGED <<running, fifo, shell, wpa, submitted>>

\* Mutant: select() waits without a time-out.
Select_Forever ==
    /\ pc = "select"
    /\ lines # <<>> /\ pc' = "read"
    /\ UNCHANGED <<ret, running, fifo, shell, wpa, submitted>>

\* select(): a line has come, or WIFI_SETUP_TIMEOUT has passed without one.
Select ==
    /\ pc = "select"
    /\ \/ lines # <<>> /\ pc' = "read" /\ UNCHANGED ret
       \/ lines = <<>> /\ pc' = "exit_close_fd" /\ ret' = -2
    /\ UNCHANGED <<running, fifo, shell, wpa, submitted>>

\* Everything in the FIFO is read and gone from it; a file keeps what it holds.
ReadFifo ==
    /\ Goto("read", "station")
    /\ cmd' = lines
    /\ line' = 1
    /\ lines' = IF signal = "fifo" THEN <<>> ELSE lines
    /\ UNCHANGED <<ret, running, signal, writers, status, wpa, submitted>>

\* wpa_supplicant starts with the networks of its configuration, or not at all.
StartSupplicant(others) ==
    \/ running' = others \cup Station /\ nets' = saved
    \/ running' = others /\ nets' = {}

\* Mutants: the access point is left running; wpa_supplicant is not started, or
\* without its configuration.
BecomeStation_KeepsAp(to) ==
    /\ pc' = to
    /\ StartSupplicant(running)
    /\ event' = FALSE

BecomeStation_NoStart(to) ==
    /\ pc' = to
    /\ running' = running \ AccessPoint /\ nets' = saved
    /\ event' = FALSE

BecomeStation_Forgets(to) ==
    /\ pc' = to
    /\ running' = (running \ AccessPoint) \cup Station /\ nets' = {}
    /\ event' = FALSE

\* The access point's daemons are killed; whether wpa_supplicant starts again is
\* not looked at.
BecomeStation(to) ==
    /\ pc' = to
    /\ StartSupplicant(running \ AccessPoint)
    /\ event' = FALSE

StartAgent ==
    /\ pc = "station"
    /\ BecomeStation("line")
    /\ submitted' = FALSE
    /\ UNCHANGED <<ret, fifo, shell, saved, wiped, refused>>

\* system() returns the status of the last line.
AgentDone ==
    /\ pc = "line" /\ line > Len(cmd)
    /\ \/ status = 0 /\ pc' = "lease" /\ UNCHANGED ret
       \/ status # 0 /\ pc' = "close" /\ ret' = -1
    /\ UNCHANGED <<running, fifo, shell, wpa, submitted>>

\* udhcpc is not told to go to the background or to give up: it returns with a
\* lease.
Lease ==
    /\ Goto("lease", "close")
    /\ running' = running \cup {"udhcpc"}
    /\ ret' = 0
    /\ UNCHANGED <<fifo, shell, wpa, submitted>>

\* With the last reader what is in a FIFO is gone.
CloseFifo ==
    /\ Goto("close", "loop") \/ Goto("exit_close_fd", "exit")
    /\ lines' = IF signal = "fifo" THEN <<>> ELSE lines
    /\ cmd' = <<>> /\ line' = 1 /\ status' = 0
    /\ UNCHANGED <<ret, running, signal, writers, wpa, submitted>>

Exit ==
    /\ pc = "exit"
    /\ BecomeStation("loop")
    /\ submitted' = FALSE
    /\ UNCHANGED <<ret, fifo, shell, saved, wiped, refused>>
-----------------------------------------------------------------------------
(* wifi_setup_agent <ssid> <key>, once for each line.                          *)

\* wpa_ctrl_request(): the events that arrive before the reply are thrown away;
\* one may follow it if wpa_supplicant has a network to connect to.
Request(networks) == event' \in {FALSE, networks # {}}

AgentEnds(s) ==
    /\ status' = s
    /\ line' = line + 1
    /\ pc' = "line"

\* With one argument or more than two main() does nothing and returns 0; without
\* any it takes itself for the page that scans.
Attach ==
    /\ pc = "line" /\ line <= Len(cmd)
    /\ \/ AgentEnds(-1) /\ UNCHANGED event
       \/ /\ "wpa_supplicant" \in running
          /\ \/ cmd[line] \in Keyless \ Blank /\ AgentEnds(0) /\ UNCHANGED event
             \/ cmd[line] \in Blank /\ pc' = "remove" /\ UNCHANGED <<line, status, event>>
             \/ cmd[line] \notin Keyless /\ pc' = "add" /\ Request(nets)
                                         /\ UNCHANGED <<line, status>>
    /\ UNCHANGED <<ret, running, fifo, cmd, nets, saved, submitted, wiped, refused>>

\* REMOVE_NETWORK all, in the middle of the setup.
WipeNetworks ==
    /\ Goto("remove", "scan")
    /\ nets' = {} /\ event' = FALSE
    /\ wiped' = TRUE
    /\ UNCHANGED <<ret, running, fifo, shell, saved, submitted, refused>>

\* Polls without a time-out; then the page is printed, or main() reads past the
\* end of what it was sent.
Offer ==
    /\ pc = "scan"
    /\ AgentEnds(0) \/ AgentEnds(1)
    /\ UNCHANGED <<ret, running, fifo, cmd, wpa, submitted>>

\* ADD_NETWORK, twice SET_NETWORK, ENABLE_NETWORK.  What is refused is not looked
\* at: there is no such network then, or, as the id is not set, another network
\* that has this id is overwritten.
AddNetwork ==
    /\ Goto("add", "reassociate")
    /\ \/ nets' = nets \cup {cmd[line]} /\ UNCHANGED refused
       \/ /\ refused' = TRUE
          /\ \/ UNCHANGED nets
             \/ \E h \in nets : nets' \in {nets \ {h}, (nets \ {h}) \cup {cmd[line]}}
    /\ Request(nets')
    /\ UNCHANGED <<ret, running, fifo, shell, saved, submitted, wiped>>

Reassociate ==
    /\ Goto("reassociate", "event")
    /\ Request(nets)
    /\ UNCHANGED <<ret, running, fifo, shell, nets, saved, submitted, wiped, refused>>

\* wpa_supplicant connects to one of its networks, whichever.
Connect ==
    /\ pc = "event" /\ nets # {}
    /\ event' = TRUE
    /\ UNCHANGED <<pc, ret, running, fifo, shell, nets, saved, submitted, wiped, refused>>

\* Mutant: an alarm that goes off ends the wait like an event.
AwaitEvent_AnyEnd ==
    /\ pc = "event"
    /\ AgentEnds(0) \/ (event /\ pc' = "save" /\ UNCHANGED <<line, status>>)
    /\ event' = FALSE
    /\ UNCHANGED <<ret, running, fifo, cmd, nets, saved, submitted, wiped, refused>>

\* The event, or the alarm after TIME_OUT seconds.
AwaitEvent ==
    /\ pc = "event"
    /\ \/ event /\ pc' = "save" /\ UNCHANGED <<line, status>>
       \/ AgentEnds(1)
    /\ event' = FALSE
    /\ UNCHANGED <<ret, running, fifo, cmd, nets, saved, submitted, wiped, refused>>

\* SAVE_CONFIG; a refusal is not looked at either.
SaveConfig ==
    /\ pc = "save"
    /\ AgentEnds(0)
    /\ \/ saved' = nets /\ UNCHANGED refused
       \/ refused' = TRUE /\ UNCHANGED saved
    /\ UNCHANGED <<ret, running, fifo, cmd, nets, event, submitted, wiped>>
-----------------------------------------------------------------------------
(* The page sethost: echo ... > /tmp/assigfifo.                                *)

\* Without a file the shell makes a regular one; a FIFO blocks the page until
\* it is open for reading.
Sethost(h) ==
    /\ submitted' = (submitted \/ pc \in Waiting)
    /\ \/ /\ signal \in {"none", "file"}
          /\ signal' = "file" /\ lines' = <<h>>
          /\ UNCHANGED writers
       \/ /\ signal = "fifo" /\ pc \in FdOpen /\ Len(lines) < MaxPipe
          /\ lines' = Append(lines, h)
          /\ UNCHANGED <<signal, writers>>
       \/ /\ signal = "fifo" /\ pc \notin FdOpen
          /\ writers' = writers \cup {h}
          /\ UNCHANGED <<signal, lines>>
    /\ UNCHANGED <<pc, ret, running, shell, wpa>>

\* A blocked page goes on, or is given up by the web server.
Unblock(h) ==
    /\ h \in writers
    /\ writers' = writers \ {h}
    /\ \/ pc \in FdOpen /\ Len(lines) < MaxPipe /\ lines' = Append(lines, h)
       \/ UNCHANGED lines
    /\ UNCHANGED <<pc, ret, running, signal, shell, wpa, submitted>>

Setup ==
    \/ StartDhcpd \/ MakeFifo \/ OpenFifo \/ Select \/ ReadFifo \/ StartAgent
    \/ Attach \/ WipeNetworks \/ AddNetwork \/ Reassociate \/ AwaitEvent \/ SaveConfig
    \/ AgentDone \/ CloseFifo \/ Exit

Next ==
    \/ StartSetup \/ Setup \/ Offer \/ Lease \/ Connect
    \/ \E h \in Hosts : Sethost(h) \/ Unblock(h)

Spec == Init /\ [][Next]_vars

\* udhcpd, which is started again and again, the lease of udhcpc and the scan of a
\* blank form need not come: Lease and Offer are not in Setup.  Every other wait of
\* wifi_setup() and of its agent has a time-out.
FairSetup == Spec /\ WF_vars(pc # "dhcpd" /\ Setup)
-----------------------------------------------------------------------------
TypeOK ==
    /\ pc \in {"loop", "dhcpd", "fifo", "open", "exit"} \cup FdOpen
    /\ ret \in -4..0
    /\ running \subseteq Daemons
    /\ signal \in {"none", "fifo", "file"}
    /\ lines \in SeqOf(Hosts, MaxPipe) /\ cmd \in SeqOf(Hosts, MaxPipe)
    /\ writers \subseteq Hosts
    /\ submitted \in BOOLEAN /\ wiped \in BOOLEAN /\ refused \in BOOLEAN
    /\ line \in 1..(MaxPipe + 1)
    /\ status \in {-1, 0, 1}
    /\ nets \subseteq Networks /\ saved \subseteq Networks
    /\ event \in BOOLEAN
    /\ "wpa_supplicant" \notin running => nets = {} /\ ~event

(* However a setup ends, the device is no access point any more; it asks for an   *)
(* address only if that was a success, as only main.c:503 starts the udhcpc that   *)
(* 418 killed, and a success is never reported without wpa_supplicant, which       *)
(* main.c:488 may have failed to start.                                         *)
BackAsStation ==
    /\ pc = "loop" =>
          /\ running \cap AccessPoint = {}
          /\ "udhcpc" \in running <=> ret = 0
    /\ pc = "close" /\ ret = 0 => Station \subseteq running

(* A setup acts on a line only if one was submitted in its course: the FIFO of   *)
(* main.c:446 is there to bring its "finishing signal".                         *)
ActsOnItsOwn == pc = "station" => submitted

LastLine == cmd[Len(cmd)]

\* A setup is about to end that reports success, its last line with a key, and
\* meanwhile no networks were removed and no request was refused.
Succeeded == pc = "close" /\ ret = 0 /\ LastLine \notin Keyless /\ ~wiped /\ ~refused

(* A setup that reports success has saved the host of its last line, whatever   *)
(* became of the lines before it (CGI/main.c:204-225), provided that line has a *)
(* key, wpa_supplicant has refused nothing, and neither the page ask nor a blank  *)
(* line has removed the networks in between.                                    *)
SuccessSaves == Succeeded => LastLine \in saved

(* No setup forgets a network saved earlier, unless the page ask or a blank line  *)
(* has removed the networks from the wpa_supplicant whose configuration it saves, *)
(* or a refused request has overwritten one: it starts with all of them          *)
(* (main.c:488, 521, CGI/main.c:97-101, 185-222).                                *)
KeepsHosts == [][saved \subseteq saved' \/ wiped \/ refused]_vars

(* Once the access point is up a setup ends, or has come to wait for a lease or,  *)
(* on a blank form, for the results of a scan, neither of which need ever come    *)
(* (main.c:446-521, CGI/main.c:107-119, 201-215).                                *)
SetupEnds == pc = "fifo" ~> pc \in {"loop", "lease", "scan"}
=============================================================================
