------------------------------ MODULE WifiProofs ------------------------------
(* Proofs about WifiScan.tla: setups and scanning pages in any order, for every   *)
(* set of hosts, of networks known before, of process ids and every FIFO size.    *)
EXTENDS WifiScan, TLAPS

ApOn == {"dhcpd", "fifo", "open", "select", "read", "station", "exit_close_fd", "exit"}
Acting == Agent \cup {"lease", "close"}

\* Which daemons run where.
Radio ==
    /\ pc \in ApOn => running \cap {"udhcpc", "wpa_supplicant"} = {}
    /\ pc \in {"exit", "exit_close_fd"} => ret # 0
    /\ pc \in Acting \cup {"loop"} => running \cap AccessPoint = {}
    /\ pc \in Agent \ {"line"} => Station \subseteq running
    /\ (pc = "line" /\ line > 1 /\ status = 0) \/ pc = "lease" \/ (pc = "close" /\ ret = 0)
         => Station \subseteq running
    /\ pc \in Agent \cup {"lease"} => "udhcpc" \notin running
    /\ pc \in {"close", "loop"} => ("udhcpc" \in running <=> ret = 0)

\* There are lines to act on, and the agents work through them.
Lines ==
    /\ pc = "read" => lines # <<>>
    /\ pc \in Acting \cup {"station"} => cmd # <<>>
    /\ pc \in Agent \ {"line"} => line <= Len(cmd)
    /\ pc = "line" => line <= Len(cmd) + 1
    /\ pc \in {"lease", "close"} => line = Len(cmd) + 1
    /\ pc = "lease" \/ (pc = "close" /\ ret = 0) => status = 0
    /\ pc \in {"loop", "exit"} \cup ApOn => line = 1

\* As long as no networks are removed and no request is refused, wpa_supplicant
\* knows what is saved, and then the network of the line.
Nets ==
    /\ pc = "scan" => wiped
    /\ ~wiped /\ ~refused =>
         /\ "wpa_supplicant" \in running => saved \subseteq nets
         /\ pc \in {"reassociate", "event", "save"} => cmd[line] \in nets

\* The agent of the line before the current one has ended with 0, having a key.
Ended == line > 1 /\ status = 0 /\ cmd[line - 1] \notin Keyless /\ ~wiped /\ ~refused

Kept == Ended /\ pc \in Acting => cmd[line - 1] \in saved

\* The other agent's socket leads to a wpa_supplicant that runs.
Peer == "wpa_supplicant" \notin running => ~peer /\ ~scanning

\* What was in the way of a second try is gone.
Cleared == ask = "again" => pid \notin sockets

-----------------------------------------------------------------------------
\* The sequences that are enumerated are those of bounded length.
LEMMA SeqOfIsSeq ==
  ASSUME NEW S, NEW n \in Nat, NEW s
  PROVE  s \in SeqOf(S, n) <=> s \in Seq(S) /\ Len(s) <= n
  <1>1. ASSUME s \in SeqOf(S, n) PROVE s \in Seq(S) /\ Len(s) <= n
    <2>1. PICK m \in 0..n : s \in [1..m -> S]
      BY <1>1 DEF SeqOf
    <2> QED BY <2>1
  <1>2. ASSUME s \in Seq(S), Len(s) <= n PROVE s \in SeqOf(S, n)
    <2>1. Len(s) \in 0..n /\ s \in [1..Len(s) -> S]
      BY <1>2
    <2> QED BY <2>1 DEF SeqOf
  <1> QED BY <1>1, <1>2

\* The type invariant with sequences that the provers know.
Types ==
    /\ pc \in {"loop", "dhcpd", "fifo", "open", "exit"} \cup FdOpen
    /\ ret \in -4..0
    /\ running \subseteq Daemons
    /\ signal \in {"none", "fifo", "file"}
    /\ lines \in Seq(Hosts) /\ Len(lines) <= MaxPipe
    /\ cmd \in Seq(Hosts) /\ Len(cmd) <= MaxPipe
    /\ writers \subseteq Hosts /\ submitted \in BOOLEAN
    /\ line \in 1..(MaxPipe + 1)
    /\ status \in {-1, 0, 1}
    /\ nets \subseteq Networks /\ saved \subseteq Networks
    /\ event \in BOOLEAN
    /\ "wpa_supplicant" \notin running => nets = {} /\ ~event
    /\ ask \in {"none", "again", "connect", "refused", "attach"} \cup Attached
    /\ pid \in Pids /\ sockets \subseteq Pids
    /\ peer \in BOOLEAN /\ scanning \in BOOLEAN /\ results \in BOOLEAN
    /\ wiped \in BOOLEAN /\ refused \in BOOLEAN

Inv == Types /\ Radio /\ Lines /\ Nets /\ Kept /\ Peer /\ Cleared

\* The parts of the type invariant.
LEMMA TypesSuffice == Types /\ Peer => ScanTypeOK
  <1> SUFFICES ASSUME Types, Peer PROVE ScanTypeOK
    OBVIOUS
  <1>1. lines \in SeqOf(Hosts, MaxPipe) /\ cmd \in SeqOf(Hosts, MaxPipe)
    BY SeqOfIsSeq, WifiSetupAssumption DEF Types
  <1> QED BY <1>1 DEF Types, Peer, ScanTypeOK, TypeOK

\* The invariant holds at first.
LEMMA InitInvariant == ScanInit => Inv
  <1> SUFFICES ASSUME ScanInit PROVE Inv
    OBVIOUS
  <1> USE WifiSetupAssumption DEF ScanInit, Init
  <1>1. Types
    <2>1. lines \in Seq(Hosts) /\ Len(lines) <= MaxPipe /\ cmd \in Seq(Hosts) /\ Len(cmd) <= MaxPipe
      OBVIOUS
    <2>2. /\ ret \in -4..0 /\ line \in 1..(MaxPipe + 1) /\ status \in {-1, 0, 1}
          /\ running \subseteq Daemons /\ writers \subseteq Hosts
      BY DEF Daemons
    <2>3. nets \subseteq Networks /\ saved \subseteq Networks /\ event \in BOOLEAN
      BY DEF Networks
    <2> QED BY <2>1, <2>2, <2>3 DEF Types
  <1>2. Radio /\ Lines /\ Nets /\ Kept /\ Peer /\ Cleared
    BY DEF Radio, ApOn, Acting, Agent, Station, AccessPoint, Lines, Nets, Kept, Ended, Peer,
           Cleared
  <1> QED BY <1>1, <1>2 DEF Inv

\* wifi_setup() and its agent.
LEMMA SetupKeeps == Inv /\ SetupStep => Inv'
  <1> SUFFICES ASSUME Inv, SetupStep PROVE Inv'
    OBVIOUS
  <1> UNCHANGED scan
    BY DEF SetupStep
  <1> USE WifiSetupAssumption DEF Inv, Types, Radio, ApOn, Acting, Agent, Station, AccessPoint,
          FdOpen, Waiting, Lines, Nets, Kept, Ended, Peer, Cleared, Daemons, Networks, Goto,
          Request, AgentEnds, BecomeStation, StartSupplicant, fifo, shell, wpa, scan
  <1>1. CASE StartDhcpd
    <2>1. Types'
      <3> HIDE DEF Radio, Lines, Nets, Kept, Peer, Cleared
      <3>1. running' \subseteq Daemons /\ pc' \in {"dhcpd", "fifo"}
        BY <1>1 DEF StartDhcpd
      <3>2. "wpa_supplicant" \notin running' => "wpa_supplicant" \notin running
        BY <1>1 DEF StartDhcpd
      <3> QED BY <1>1, <3>1, <3>2 DEF StartDhcpd
    <2>2. Radio'
      BY <1>1 DEF StartDhcpd
    <2>3. Lines'
      BY <1>1 DEF StartDhcpd
    <2>4. Nets' /\ Kept'
      BY <1>1 DEF StartDhcpd
    <2>5. Peer' /\ Cleared'
      BY <1>1 DEF StartDhcpd
    <2> QED BY <2>1, <2>2, <2>3, <2>4, <2>5
  <1>2. CASE MakeFifo
    BY <1>2 DEF MakeFifo
  <1>3. CASE OpenFifo
    BY <1>3 DEF OpenFifo
  <1>4. CASE Select
    BY <1>4 DEF Select
  <1>5. CASE ReadFifo
    BY <1>5 DEF ReadFifo
  <1>6. CASE StartAgent
    <2>1. Types'
      BY <1>6 DEF StartAgent
    <2>2. Radio'
      BY <1>6 DEF StartAgent
    <2>3. Lines'
      BY <1>6 DEF StartAgent
    <2>4. Nets' /\ Kept'
      BY <1>6 DEF StartAgent
    <2>5. Peer' /\ Cleared'
      BY <1>6 DEF StartAgent
    <2> QED BY <2>1, <2>2, <2>3, <2>4, <2>5
  <1>7. CASE Attach
    <2>1. event' \in BOOLEAN
      BY <1>7 DEF Attach
    <2>2. "wpa_supplicant" \notin running => ~event'
      <3>1. "wpa_supplicant" \notin running => ~event
        OBVIOUS
      <3> HIDE DEF Inv, Types, Radio, Lines, Nets, Kept, Peer, Cleared, fifo, shell, wpa, scan
      <3> QED BY <1>7, <3>1, Zenon DEF Attach
    <2>3. /\ pc = "line" /\ line <= Len(cmd)
          /\ UNCHANGED <<ret, running, signal, lines, writers, cmd, nets, saved, submitted, wiped,
                         refused>>
      BY <1>7 DEF Attach
    <2>4. \/ /\ pc' = "line" /\ line' = line + 1
             /\ \/ status' = -1
                \/ status' = 0 /\ cmd[line] \in Keyless /\ "wpa_supplicant" \in running
          \/ pc' \in {"remove", "add"} /\ "wpa_supplicant" \in running /\ UNCHANGED <<line, status>>
      <3> HIDE DEF Inv, Types, Radio, Lines, Nets, Kept, Peer, Cleared, Request, fifo, shell, wpa, scan
      <3> QED BY <1>7 DEF Attach
    <2>5. Types'
      <3> HIDE DEF Radio, Lines, Nets, Kept, Peer, Cleared
      <3> QED BY <2>1, <2>2, <2>3, <2>4
    <2>6. Radio'
      BY <2>1, <2>2, <2>3, <2>4
    <2>7. Lines'
      BY <2>1, <2>2, <2>3, <2>4
    <2>8. Nets' /\ Kept'
      BY <2>1, <2>2, <2>3, <2>4
    <2>9. Peer' /\ Cleared'
      BY <2>1, <2>2, <2>3, <2>4
    <2> QED BY <2>5, <2>6, <2>7, <2>8, <2>9
  <1>8. CASE AddNetwork
    <2>1. Types'
      <3>1. cmd[line] \in Networks
        BY <1>8 DEF AddNetwork
      <3>2. /\ pc' = "reassociate" /\ "wpa_supplicant" \in running /\ refused' \in BOOLEAN
            /\ UNCHANGED <<ret, running, signal, lines, writers, cmd, line, status, saved,
                           submitted, wiped>>
        BY <1>8 DEF AddNetwork
      <3>3. nets' \subseteq Networks
        BY <3>1, <1>8 DEF AddNetwork
      <3>4. event' \in BOOLEAN
        BY <3>3, <1>8 DEF AddNetwork
      <3> HIDE DEF Radio, Lines, Nets, Kept, Peer, Cleared
      <3> QED BY <3>2, <3>3, <3>4
    <2>2. Radio'
      BY <1>8 DEF AddNetwork
    <2>3. Lines'
      BY <1>8 DEF AddNetwork
    <2>4. Nets' /\ Kept'
      BY <1>8 DEF AddNetwork
    <2>5. Peer' /\ Cleared'
      BY <1>8 DEF AddNetwork
    <2> QED BY <2>1, <2>2, <2>3, <2>4, <2>5
  <1>9. CASE Reassociate
    <2>1. event' \in BOOLEAN
      BY <1>9 DEF Reassociate
    <2>2. /\ pc = "reassociate" /\ pc' = "event" /\ "wpa_supplicant" \in running
          /\ UNCHANGED <<ret, running, signal, lines, writers, cmd, line, status, nets, saved,
                         submitted, wiped, refused>>
      BY <1>9 DEF Reassociate
    <2>3. Types'
      <3> HIDE DEF Radio, Lines, Nets, Kept, Peer, Cleared
      <3> QED BY <2>1, <2>2
    <2>4. Radio'
      BY <2>1, <2>2
    <2>5. Lines'
      BY <2>1, <2>2
    <2>6. Nets' /\ Kept'
      BY <2>1, <2>2
    <2>7. Peer' /\ Cleared'
      BY <2>1, <2>2
    <2> QED BY <2>3, <2>4, <2>5, <2>6, <2>7
  <1>10. CASE AwaitEvent
    <2>1. event' \in BOOLEAN /\ ~event'
      BY <1>10 DEF AwaitEvent
    <2>2. /\ pc = "event" /\ line <= Len(cmd)
          /\ UNCHANGED <<ret, running, signal, lines, writers, cmd, nets, saved, submitted, wiped,
                         refused>>
      BY <1>10 DEF AwaitEvent
    <2>3. \/ pc' = "save" /\ UNCHANGED <<line, status>>
          \/ pc' = "line" /\ line' = line + 1 /\ status' = 1
      BY <1>10 DEF AwaitEvent
    <2>4. Types'
      <3> HIDE DEF Radio, Lines, Nets, Kept, Peer, Cleared
      <3> QED BY <2>1, <2>2, <2>3
    <2>5. Radio'
      BY <2>1, <2>2, <2>3
    <2>6. Lines'
      BY <2>1, <2>2, <2>3
    <2>7. Nets' /\ Kept'
      BY <2>1, <2>2, <2>3
    <2>8. Peer' /\ Cleared'
      BY <2>1, <2>2, <2>3
    <2> QED BY <2>4, <2>5, <2>6, <2>7, <2>8
  <1>11. CASE SaveConfig
    <2>1. Types'
      <3>1. line + 1 \in 1..(MaxPipe + 1)
        BY <1>11 DEF SaveConfig
      <3>2. saved' \subseteq Networks /\ refused' \in BOOLEAN
        BY <1>11 DEF SaveConfig
      <3>3. UNCHANGED event /\ event \in BOOLEAN
        BY <1>11 DEF SaveConfig
      <3> HIDE DEF Radio, Lines, Nets, Kept, Peer, Cleared
      <3> QED BY <1>11, <3>1, <3>2, <3>3 DEF SaveConfig
    <2>2. Radio'
      BY <1>11 DEF SaveConfig
    <2>3. Lines'
      BY <1>11 DEF SaveConfig
    <2>4. Nets' /\ Kept'
      BY <1>11 DEF SaveConfig
    <2>5. Peer' /\ Cleared'
      BY <1>11 DEF SaveConfig
    <2> QED BY <2>1, <2>2, <2>3, <2>4, <2>5
  <1>12. CASE AgentDone
    BY <1>12 DEF AgentDone
  <1>13. CASE CloseFifo
    BY <1>13 DEF CloseFifo
  <1>14. CASE Exit
    <2>1. Types'
      BY <1>14 DEF Exit
    <2>2. Radio'
      BY <1>14 DEF Exit
    <2>3. Lines'
      BY <1>14 DEF Exit
    <2>4. Nets' /\ Kept'
      BY <1>14 DEF Exit
    <2>5. Peer' /\ Cleared'
      BY <1>14 DEF Exit
    <2> QED BY <2>1, <2>2, <2>3, <2>4, <2>5
  <1>15. CASE WipeNetworks
    <2>1. Types'
      <3>1. event' \in BOOLEAN
        BY <1>15 DEF WipeNetworks
      <3> HIDE DEF Radio, Lines, Nets, Kept, Peer, Cleared
      <3> QED BY <1>15, <3>1 DEF WipeNetworks
    <2>2. Radio'
      BY <1>15 DEF WipeNetworks
    <2>3. Lines'
      BY <1>15 DEF WipeNetworks
    <2>4. Nets' /\ Kept'
      BY <1>15 DEF WipeNetworks
    <2>5. Peer' /\ Cleared'
      BY <1>15 DEF WipeNetworks
    <2> QED BY <2>1, <2>2, <2>3, <2>4, <2>5
  <1> QED
    BY <1>1, <1>2, <1>3, <1>4, <1>5, <1>6, <1>7, <1>8, <1>9, <1>10, <1>11, <1>12, <1>13, <1>14,
       <1>15 DEF SetupStep, Setup

\* The start of a setup, its waits for others, and the page sethost.
LEMMA PagesKeep ==
    Inv /\ (SetupStarts \/ Offer \/ Lease \/ Connect \/ \E h \in Hosts : Sethost(h) \/ Unblock(h))
      /\ (SetupStarts \/ UNCHANGED scan) => Inv'
  <1> SUFFICES ASSUME Inv,
                      SetupStarts \/ Offer \/ Lease \/ Connect \/ \E h \in Hosts : Sethost(h) \/ Unblock(h),
                      SetupStarts \/ UNCHANGED scan
               PROVE  Inv'
    OBVIOUS
  <1> USE WifiSetupAssumption DEF Inv, Types, Radio, ApOn, Acting, Agent, Station, AccessPoint,
          FdOpen, Waiting, Lines, Nets, Kept, Ended, Peer, Cleared, Daemons, Networks, Goto,
          AgentEnds, fifo, shell, wpa, scan
  <1>1. CASE SetupStarts
    <2>1. /\ pc = "loop" /\ pc' = "dhcpd" /\ ret' = 0 /\ nets' = {} /\ event' = FALSE
          /\ peer' = FALSE /\ scanning' = FALSE /\ wiped' = FALSE /\ refused' = FALSE
          /\ UNCHANGED <<signal, lines, writers, cmd, line, status, saved, submitted,
                         ask, pid, sockets, results>>
      BY <1>1 DEF SetupStarts, StartSetup
    <2>2. running' = (running \ {"udhcpc", "wpa_supplicant"}) \cup {"hostapd"}
      BY <1>1 DEF SetupStarts, StartSetup
    <2>3. running' \subseteq Daemons /\ running' \cap {"udhcpc", "wpa_supplicant"} = {}
      BY <2>2
    <2>4. Types'
      <3>1. /\ pc' \in {"loop", "dhcpd", "fifo", "open", "exit"} \cup FdOpen
            /\ ret' \in -4..0 /\ running' \subseteq Daemons
            /\ signal' \in {"none", "fifo", "file"} /\ writers' \subseteq Hosts
            /\ submitted' \in BOOLEAN
        BY <2>1, <2>3
      <3>2. /\ lines' \in Seq(Hosts) /\ Len(lines') <= MaxPipe
            /\ cmd' \in Seq(Hosts) /\ Len(cmd') <= MaxPipe
            /\ line' \in 1..(MaxPipe + 1) /\ status' \in {-1, 0, 1}
        BY <2>1
      <3>3. /\ nets' \subseteq Networks /\ saved' \subseteq Networks
            /\ event' \in BOOLEAN
            /\ nets' = {} /\ event' = FALSE
        BY <2>1
      <3>4. /\ ask' \in {"none", "again", "connect", "refused", "attach"} \cup Attached
            /\ pid' \in Pids /\ sockets' \subseteq Pids
            /\ peer' \in BOOLEAN /\ scanning' \in BOOLEAN /\ results' \in BOOLEAN
            /\ wiped' \in BOOLEAN /\ refused' \in BOOLEAN
        BY <2>1
      <3> QED BY <3>1, <3>2, <3>3, <3>4
    <2>5. Radio' /\ Peer'
      BY <2>1, <2>3
    <2>6. Lines' /\ Nets' /\ Kept' /\ Cleared'
      BY <2>1, <2>3
    <2> QED BY <2>4, <2>5, <2>6
  <1>2. CASE Lease /\ UNCHANGED scan
    BY <1>2 DEF Lease
  <1>3. CASE Connect /\ UNCHANGED scan
    BY <1>3 DEF Connect
  <1>4. ASSUME NEW h \in Hosts, Sethost(h), UNCHANGED scan PROVE Inv'
    <2>1. UNCHANGED <<pc, ret, running, cmd, line, status, nets, saved, event, ask, pid,
                      sockets, peer, scanning, results, wiped, refused>>
      BY <1>4 DEF Sethost
    <2>2. submitted' \in BOOLEAN /\ signal' \in {"none", "fifo", "file"} /\ writers' \subseteq Hosts
      BY <1>4 DEF Sethost
    <2>3. lines' \in Seq(Hosts) /\ Len(lines') <= MaxPipe /\ (lines # <<>> => lines' # <<>>)
      <3>1. \/ lines' = <<h>> \/ lines' = lines
            \/ Len(lines) < MaxPipe /\ lines' = Append(lines, h)
        BY <1>4 DEF Sethost
      <3>2. CASE lines' = <<h>>
        BY <3>2
      <3>3. CASE lines' = lines
        BY <3>3
      <3>4. CASE Len(lines) < MaxPipe /\ lines' = Append(lines, h)
        BY <3>4
      <3> QED BY <3>1, <3>2, <3>3, <3>4
    <2>4. Types' /\ Radio' /\ Peer'
      BY <2>1, <2>2, <2>3
    <2>5. Lines' /\ Nets' /\ Kept' /\ Cleared'
      BY <2>1, <2>3
    <2> QED BY <2>4, <2>5
  <1>5. ASSUME NEW h \in Hosts, Unblock(h), UNCHANGED scan PROVE Inv'
    <2>1. UNCHANGED <<pc, ret, running, signal, cmd, line, status, nets, saved, event,
                      submitted, ask, pid, sockets, peer, scanning, results, wiped, refused>>
      BY <1>5 DEF Unblock
    <2>2. writers' \subseteq Hosts
      BY <1>5 DEF Unblock
    <2>3. lines' \in Seq(Hosts) /\ Len(lines') <= MaxPipe /\ (lines # <<>> => lines' # <<>>)
      BY <1>5 DEF Unblock
    <2>4. Types' /\ Radio' /\ Peer'
      BY <2>1, <2>2, <2>3
    <2>5. Lines' /\ Nets' /\ Kept' /\ Cleared'
      BY <2>1, <2>3
    <2> QED BY <2>4, <2>5
  <1>6. CASE Offer /\ UNCHANGED scan
    <2>1. Types'
      <3>1. line + 1 \in 1..(MaxPipe + 1)
        BY <1>6 DEF Offer
      <3> HIDE DEF Radio, Lines, Nets, Kept, Peer, Cleared
      <3> QED BY <1>6, <3>1 DEF Offer
    <2>2. Radio'
      BY <1>6 DEF Offer
    <2>3. Lines'
      BY <1>6 DEF Offer
    <2>4. Nets' /\ Kept'
      BY <1>6 DEF Offer
    <2>5. Peer' /\ Cleared'
      BY <1>6 DEF Offer
    <2> QED BY <2>1, <2>2, <2>3, <2>4, <2>5
  <1> QED
    BY <1>1, <1>2, <1>3, <1>4, <1>5, <1>6

\* What the page ask and wpa_supplicant's scans may do: all they touch of a setup is
\* that networks are removed, which is remembered.
AskFrame ==
    /\ UNCHANGED <<pc, ret, running, signal, lines, writers, cmd, line, status,
                   saved, event, submitted, refused>>
    /\ \/ UNCHANGED <<nets, wiped>>
       \/ nets' = {} /\ wiped' /\ wiped' \in BOOLEAN /\ "wpa_supplicant" \in running
    /\ ask' \in {"none", "again", "connect", "refused", "attach"} \cup Attached
    /\ pid' \in Pids /\ sockets' \subseteq Pids
    /\ peer' \in BOOLEAN /\ (peer' => "wpa_supplicant" \in running)
    /\ scanning' \in BOOLEAN /\ (scanning' => "wpa_supplicant" \in running)
    /\ results' \in BOOLEAN
    /\ ask' = "again" => pid' \notin sockets'

\* A frame keeps it ...
LEMMA FrameKeeps == Inv /\ AskFrame => Inv'
  <1> SUFFICES ASSUME Inv, AskFrame PROVE Inv'
    OBVIOUS
  <1> USE DEF Inv, AskFrame
  <1>1. Types'
    BY DEF Types
  <1>2. Radio' /\ Lines'
    BY DEF Types, Radio, Lines
  <1>3. Nets' /\ Kept'
    <2>1. CASE UNCHANGED <<nets, wiped>>
      BY <2>1 DEF Nets, Kept, Ended
    <2>2. CASE wiped' /\ ~UNCHANGED <<nets, wiped>>
      BY <2>2 DEF Nets, Kept, Ended
    <2> QED BY <2>1, <2>2
  <1>4. Peer' /\ Cleared'
    BY DEF Types, Peer, Cleared
  <1> QED BY <1>1, <1>2, <1>3, <1>4

\* ... and so do the questions to the agent ...
LEMMA AskKeeps ==
    Inv /\ (AskStep \/ GiveUp \/ (\E p \in Pids : Open(p)) \/ ScanStarts \/ ScanDone) => Inv'
  <1> SUFFICES ASSUME Inv,
                      AskStep \/ GiveUp \/ (\E p \in Pids : Open(p)) \/ ScanStarts \/ ScanDone
               PROVE  AskFrame
    BY FrameKeeps
  <1> USE DEF AskFrame, Inv, Types, Peer, Cleared, AskAt, EndAsk, ScanRequest, Attached, vars, fifo,
          shell, wpa
  <1>1. CASE AttachScan
    BY <1>1 DEF AttachScan
  <1>2. CASE RemoveNetworks
    BY <1>2 DEF RemoveNetworks
  <1>3. CASE EmptyEvents
    BY <1>3 DEF EmptyEvents
  <1>4. CASE Scan
    <2>1. /\ UNCHANGED <<pc, ret, running, signal, lines, writers, cmd, line, status,
                         nets, saved, event, submitted, pid, sockets, peer, wiped, refused>>
          /\ ask' \in {"wait", "spin"}
      BY <1>4 DEF Scan
    <2>2. results' \in BOOLEAN
      BY <1>4 DEF Scan
    <2>3. CASE UNCHANGED scanning
      BY <2>1, <2>2, <2>3
    <2>4. CASE peer /\ scanning'
      BY <1>4, <2>1, <2>2, <2>4 DEF Scan
    <2> QED BY <1>4, <2>3, <2>4 DEF Scan
  <1>5. CASE AwaitResults
    BY <1>5 DEF AwaitResults
  <1>6. CASE ListHosts
    <2>1. /\ UNCHANGED <<pc, ret, running, signal, lines, writers, cmd, line, status,
                         nets, saved, event, submitted, pid, sockets, scanning, wiped, refused>>
          /\ ask' \in {"detach", "none"}
      BY <1>6 DEF ListHosts
    <2>2. results' \in BOOLEAN
      BY <1>6 DEF ListHosts
    <2>3. CASE UNCHANGED peer
      BY <2>1, <2>2, <2>3
    <2>4. CASE peer' = FALSE
      BY <2>1, <2>2, <2>4
    <2> QED BY <1>6, <2>3, <2>4 DEF ListHosts
  <1>7. CASE CloseCtrl
    BY <1>7 DEF CloseCtrl
  <1>8. CASE GiveUp
    BY <1>8 DEF GiveUp
  <1>9. ASSUME NEW p \in Pids, Open(p) PROVE AskFrame
    <2>1. UNCHANGED <<pc, ret, running, signal, lines, writers, cmd, line, status,
                      nets, saved, event, submitted, peer, scanning, results, wiped, refused>>
      BY <1>9 DEF Open
    <2>2. /\ ask' \in {"connect", "again"} /\ pid' = p /\ sockets' \subseteq Pids
          /\ ask' = "again" => pid' \notin sockets'
      BY <1>9 DEF Open
    <2> QED BY <2>1, <2>2
  <1>12. CASE OpenAgain
    BY <1>12 DEF OpenAgain
  <1>13. CASE ConnectCtrl
    <2>1. UNCHANGED <<pc, ret, running, signal, lines, writers, cmd, line, status,
                      nets, saved, event, submitted, pid, scanning, results, wiped, refused>>
      BY <1>13 DEF ConnectCtrl
    <2>2. ask' \in {"attach", "refused"} /\ sockets' \subseteq Pids
      BY <1>13 DEF ConnectCtrl
    <2>3. CASE UNCHANGED peer
      BY <2>1, <2>2, <2>3
    <2>4. CASE peer' = TRUE /\ "wpa_supplicant" \in running
      BY <2>1, <2>2, <2>4
    <2> QED BY <1>13, <2>3, <2>4 DEF ConnectCtrl
  <1>10. CASE ScanStarts
    BY <1>10 DEF ScanStarts
  <1>11. CASE ScanDone
    BY <1>11 DEF ScanDone
  <1> QED
    BY <1>1, <1>2, <1>3, <1>4, <1>5, <1>6, <1>7, <1>8, <1>9, <1>10, <1>11, <1>12,
       <1>13 DEF AskStep

\* ... and every step.
LEMMA NextKeeps == Inv /\ [ScanNext]_allvars => Inv'
  <1> SUFFICES ASSUME Inv, [ScanNext]_allvars PROVE Inv'
    OBVIOUS
  <1>1. CASE WifiStep
    BY <1>1, SetupKeeps, PagesKeep DEF WifiStep
  <1>2. CASE AskStep \/ GiveUp \/ (\E p \in Pids : Open(p)) \/ ScanStarts \/ ScanDone
    BY <1>2, AskKeeps
  <1>3. CASE UNCHANGED allvars
    BY <1>3 DEF allvars, vars, scan, fifo, shell, wpa, Inv, Types, Radio, Lines, Nets, Kept,
                Ended, Peer, Cleared
  <1> QED
    BY <1>1, <1>2, <1>3 DEF ScanNext

\* It holds for ever.
LEMMA Invariance == ScanSpec => []Inv
  <1> QED BY InitInvariant, NextKeeps, PTL DEF ScanSpec

(* Setups, their pages and the page ask keep to their types; while wpa_supplicant *)
(* does not run it has no networks, events, scans or connected sockets            *)
(* (main.c:383-522, CGI/main.c:72-236).                                         *)
THEOREM TypeCorrect == ScanSpec => []ScanTypeOK
  <1>1. Inv => ScanTypeOK
    BY TypesSuffice DEF Inv
  <1> QED BY <1>1, Invariance, PTL

(* However a setup ends, the device is no access point any more, with a DHCP       *)
(* client only after a success, and success only with wpa_supplicant, whether or   *)
(* not it could be started (main.c:418-521).                                     *)
THEOREM ComesBack == ScanSpec => []BackAsStation
  <1>1. Inv => BackAsStation
    BY DEF Inv, Radio, BackAsStation
  <1> QED BY <1>1, Invariance, PTL

(* A setup that reports success has saved the host of its last line, if           *)
(* wpa_supplicant refused no request and no page or blank line removed networks:   *)
(* for every number of lines, whatever their ends (main.c:490-508, CGI/main.c:     *)
(* 185-231).                                                                    *)
THEOREM Saves == ScanSpec => []SuccessSaves
  <1>1. Inv => SuccessSaves
    BY DEF Inv, Types, Lines, Kept, Ended, Acting, SuccessSaves, Succeeded, LastLine
  <1> QED BY <1>1, Invariance, PTL

(* No setup forgets a network saved earlier, unless the page ask or a blank line  *)
(* removed networks since wpa_supplicant was stopped, or a request was refused,    *)
(* with lines of a setup, pages and scans in every order (CGI/main.c:97-101,       *)
(* 187-222).                                                                    *)
THEOREM Keeps == ScanSpec => KeepsHosts
  <1>1. Inv /\ [ScanNext]_allvars => [saved \subseteq saved' \/ wiped \/ refused]_vars
    <2> SUFFICES ASSUME Inv, [ScanNext]_allvars, ~wiped, ~refused PROVE saved \subseteq saved'
      OBVIOUS
    <2>1. CASE SaveConfig
      BY <2>1 DEF SaveConfig, Inv, Nets, Radio, Agent, Station
    <2>2. CASE ScanNext /\ ~SaveConfig
      <3> USE DEF fifo, shell, wpa, vars, scan, BecomeStation, EndAsk
      <3>1. CASE WifiStep
        <4>1. CASE \/ SetupStarts \/ Offer \/ Lease \/ Connect
                   \/ \E h \in Hosts : Sethost(h) \/ Unblock(h)
          BY <4>1 DEF SetupStarts, StartSetup, Offer, Lease, Connect, Sethost, Unblock
        <4>2. CASE SetupStep
          BY <2>2, <4>2 DEF SetupStep, Setup, StartDhcpd, MakeFifo, OpenFifo, Select, ReadFifo,
             StartAgent, Attach, WipeNetworks, AddNetwork, Reassociate, AwaitEvent, AgentDone,
             CloseFifo, Exit
        <4> QED BY <3>1, <4>1, <4>2 DEF WifiStep
      <3>2. CASE AskStep
        BY <3>2 DEF AskStep, OpenAgain, ConnectCtrl, AttachScan, RemoveNetworks, EmptyEvents,
           Scan, AwaitResults, ListHosts, CloseCtrl
      <3>3. CASE GiveUp \/ (\E p \in Pids : Open(p)) \/ ScanStarts \/ ScanDone
        BY <3>3 DEF GiveUp, Open, ScanStarts, ScanDone
      <3> QED BY <2>2, <3>1, <3>2, <3>3 DEF ScanNext
    <2>3. CASE UNCHANGED allvars
      BY <2>3 DEF allvars, vars, wpa
    <2> QED BY <2>1, <2>2, <2>3
  <1> QED BY <1>1, Invariance, PTL DEF ScanSpec, KeepsHosts

(* An agent is refused only where no wpa_supplicant runs: the file it finds in its *)
(* way is gone when it tries again, so that bind() then succeeds, whatever files   *)
(* earlier agents left and a setup does beside it (wpa_ctrl.c:124-140,            *)
(* CGI/main.c:84-95).                                                           *)
THEOREM Opens == ScanSpec => OpensAnyway
  <1>1. Inv /\ [ScanNext]_allvars =>
          (ask' = "refused" /\ ask # ask' => "wpa_supplicant" \notin running)
    <2> SUFFICES ASSUME Inv, [ScanNext]_allvars, ask' = "refused", ask # ask'
                 PROVE  "wpa_supplicant" \notin running
      OBVIOUS
    <2>1. CASE \E p \in Pids : Open(p)
      BY <2>1 DEF Open, AskAt
    <2>2. CASE WifiStep
      BY <2>2 DEF WifiStep, SetupStarts, SetupStep, scan
    <2>3. CASE OpenAgain \/ ConnectCtrl
      BY <2>3 DEF OpenAgain, ConnectCtrl, AskAt, Inv, Cleared
    <2>4. CASE (AskStep /\ ~OpenAgain /\ ~ConnectCtrl) \/ GiveUp
      BY <2>4 DEF AskStep, AttachScan, RemoveNetworks, EmptyEvents, Scan, AwaitResults,
         ListHosts, CloseCtrl, GiveUp, EndAsk, AskAt
    <2>5. CASE ScanStarts \/ ScanDone \/ UNCHANGED allvars
      BY <2>5 DEF ScanStarts, ScanDone, allvars, scan
    <2> QED BY <2>1, <2>2, <2>3, <2>4, <2>5 DEF ScanNext
  <1> QED BY <1>1, Invariance, PTL DEF ScanSpec, OpensAnyway
=============================================================================
