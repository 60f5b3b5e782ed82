----------------------------- MODULE DeviceConfig -----------------------------
(* The configuration of the device across boots, updates and power cuts:        *)
(* /etc/config/device.conf, read and written by AirSniffer (the start of main), *)
(* by cfg_updater and by the scripts around them through ssconfig.c, and the     *)
(* multiplier of /etc/config/device.cali.  A file is a sequence of lines; every *)
(* writer first truncates it and writes it when it closes it.  Two processes    *)
(* work on them: the boot with AirSniffer, and one web page at a time.          *)
EXTENDS Integers, Sequences, SequencesExt

CONSTANTS
    Keys,           \* among "dev_id", "upload", "telnet", "unit"
    MaxLines,       \* most lines of a file that is submitted
    Duplicated,     \* a submitted file may name a key twice
    Interrupted,    \* a power cut or killall may come between truncating and writing
    Overlapping     \* AirSniffer may start while a page writes, and a page while it reads

ASSUME DeviceConfigAssumption ==
    /\ Keys \subseteq {"dev_id", "upload", "telnet", "unit"}
    /\ MaxLines \in Nat
    /\ Duplicated \in BOOLEAN /\ Interrupted \in BOOLEAN /\ Overlapping \in BOOLEAN

VARIABLES
    file,           \* lines of device.conf, or Missing
    items,          \* list of the boot: the script's or AirSniffer's, root first
    new,            \* the submitted file while it is in /tmp, or Missing
    update,         \* ... its items are merged in, else it replaces the file
    merged,         \* what the page is about to write to device.conf
    cali,           \* multiplier in device.cali: "-": no file, "": none in it
    form,           \* multiplier of the last form, "1" before there is one
    cali_m,         \* multiplier AirSniffer has read; "" is 0.0
    pc,             \* where the boot and AirSniffer are
    page            \* where the page at work is, "none" if there is none

boot == <<items, cali_m, pc>>
request == <<new, update, merged, form, page>>
vars == <<file, cali, boot, request>>

Missing == <<[key |-> "missing", value |-> ""]>>
Comment == [key |-> "#", value |-> ""]
Values == {"default", "other"}
Line(k, v) == [key |-> k, value |-> v]
Lines == [key : Keys, value : Values \cup {""}] \cup {Comment}

NoDuplicates(s) ==
    \A m, n \in 1..Len(s) : s[m].key = s[n].key => m = n \/ s[m] = Comment

Submissions == {s \in SeqOf(Lines, MaxLines) : Duplicated \/ NoDuplicates(s)}

Init ==
    /\ file = Missing /\ new = Missing
    /\ items = <<>> /\ merged = <<>>
    /\ update = FALSE
    /\ cali = "-" /\ cali_m = "" /\ form = "1"
    /\ pc = "init" /\ page = "none"
-----------------------------------------------------------------------------
(* ssconfig.c.                                                                 *)

\* read_config(): comments and blank lines are skipped, every item goes to the
\* head of the list.
Read(s) ==
    LET list[n \in 0..Len(s)] ==
          IF n = 0 THEN <<>>
          ELSE IF s[n] = Comment THEN list[n - 1]
          ELSE <<s[n]>> \o list[n - 1]
    IN  list[Len(s)]

\* Where in a list a key is.
At(list, k) == {n \in 1..Len(list) : list[n].key = k}

\* get_config(): the first item of that key, "" if there is none.
Get(list, k) == IF At(list, k) = {} THEN "" ELSE list[Min(At(list, k))].value

\* Mutant: set_config() always adds an item.
Set_Adds(list, line) == <<line>> \o list

\* set_config(): the first item of that key gets the value, or a new one is put
\* at the head.
Set(list, line) ==
    IF At(list, line.key) = {} THEN <<line>> \o list
    ELSE [list EXCEPT ![Min(At(list, line.key))] = line]

\* dump_config() in two steps: fopen() truncates, fclose() writes the list in
\* its own order, from the start of the file: what another writer has put there
\* meanwhile is overwritten as far as the list reaches.
Truncate == file' = <<>>

WriteOut(list) == file' = list \o SubSeq(file, Len(list) + 1, Len(file))
-----------------------------------------------------------------------------
(* Boot: the start-up script, then AirSniffer.                                 *)

InScript(k) == IF k \in Keys THEN <<Line(k, "other")>> ELSE <<>>
ScriptFile == InScript("dev_id") \o InScript("upload") \o InScript("telnet")

\* as_init.sh writes a first device.conf if there is none, and starts the web
\* server.
StartScript ==
    /\ pc = "init"
    /\ \/ file = Missing /\ Truncate /\ items' = ScriptFile /\ pc' = "script_write"
       \/ file # Missing /\ pc' = "boot" /\ UNCHANGED <<file, items>>
    /\ UNCHANGED <<cali, cali_m, request>>

ScriptWrite ==
    /\ pc = "script_write" /\ pc' = "boot"
    /\ WriteOut(items) /\ items' = <<>>
    /\ UNCHANGED <<cali, cali_m, request>>

\* Some commands later it starts AirSniffer.
StartApp ==
    /\ pc = "boot" /\ pc' = "cali"
    /\ Overlapping \/ page = "none"
    /\ UNCHANGED <<file, items, cali, cali_m, request>>

\* Mutant: no default for the calibration.
ReadCali_NoDefault ==
    /\ pc = "cali" /\ pc' = "conf"
    /\ cali_m' = cali
    /\ UNCHANGED <<file, items, cali, request>>

\* The calibration; without a file one is written with the multiplier 1.
ReadCali ==
    /\ pc = "cali"
    /\ \/ cali = "-" /\ cali' = "" /\ cali_m' = "1" /\ pc' = "cali_write"
       \/ cali # "-" /\ cali_m' = cali /\ pc' = "conf" /\ UNCHANGED cali
    /\ UNCHANGED <<file, items, request>>

\* Mutant: the default is not written.
CaliWrite_NoDump ==
    /\ pc = "cali_write" /\ pc' = "conf"
    /\ UNCHANGED <<file, items, cali, cali_m, request>>

CaliWrite ==
    /\ pc = "cali_write" /\ pc' = "conf"
    /\ cali' = cali_m
    /\ UNCHANGED <<file, items, cali_m, request>>

AddDefault(list, k) ==
    IF k \in Keys /\ Get(list, k) = "" THEN Set(list, Line(k, "default")) ELSE list

Complete(list) == AddDefault(AddDefault(AddDefault(list, "upload"), "telnet"), "unit")

\* Mutant: what was completed is not written.
ReadConf_NoDump ==
    /\ pc = "conf"
    /\ file # Missing
    /\ pc' = "running"
    /\ items' = Complete(Read(file))
    /\ UNCHANGED <<file, cali, cali_m, request>>

\* device.conf is read, completed, and written if anything was missing.
ReadConf ==
    /\ pc = "conf"
    /\ \/ /\ file = Missing
          /\ pc' = "panic" /\ items' = <<>>
          /\ UNCHANGED file
       \/ /\ file # Missing
          /\ items' = Complete(Read(file))
          /\ \/ items' = Read(file) /\ pc' = "running" /\ UNCHANGED file
             \/ items' # Read(file) /\ pc' = "conf_write" /\ Truncate
    /\ UNCHANGED <<cali, cali_m, request>>

ConfWrite ==
    /\ pc = "conf_write" /\ pc' = "running"
    /\ WriteOut(items)
    /\ UNCHANGED <<items, cali, cali_m, request>>
-----------------------------------------------------------------------------
(* The web pages; the web server is up before AirSniffer is started.           *)

Reading == {"cali", "cali_write", "conf", "conf_write"}

\* update_config: a file is fetched and AirSniffer killed, if it is started and
\* wherever it is.
Submit ==
    /\ pc \notin {"init", "script_write"} /\ page = "none"
    /\ pc \in {"cali_write", "conf_write"} => Interrupted
    /\ new' \in Submissions
    /\ update' \in BOOLEAN
    /\ page' = "update"
    /\ IF pc = "boot" THEN UNCHANGED <<pc, items>> ELSE pc' = "killed" /\ items' = <<>>
    /\ UNCHANGED <<file, merged, cali, form, cali_m>>

\* The items of a file are set in the order of their lines: they are read to the
\* head of one list and copied from it to the head of another.
SetAll(list, s) ==
    LET after[n \in 0..Len(s)] ==
          IF n = 0 THEN list
          ELSE IF s[n] = Comment THEN after[n - 1]
          ELSE Set(after[n - 1], s[n])
    IN  after[Len(s)]

\* cfg_updater new.conf device.conf.
Merge ==
    /\ page = "update" /\ update
    /\ \/ /\ Read(new) = <<>>
          /\ page' = "none" /\ new' = Missing
          /\ UNCHANGED <<file, merged>>
       \/ /\ Read(new) # <<>>
          /\ merged' = SetAll(IF file = Missing THEN <<>> ELSE Read(file), new)
          /\ Truncate
          /\ page' = "update_write"
          /\ UNCHANGED new
    /\ UNCHANGED <<update, cali, form, boot>>

\* cat new.conf > device.conf.
Replace ==
    /\ page = "update" /\ ~update
    /\ page' = "update_write"
    /\ merged' = new
    /\ Truncate
    /\ UNCHANGED <<new, update, cali, form, boot>>

UpdateWrite ==
    /\ page = "update_write" /\ page' = "none"
    /\ WriteOut(merged)
    /\ new' = Missing /\ merged' = <<>>
    /\ UNCHANGED <<update, cali, form, boot>>

\* do_calibration: the form's field as it is, blank or a number.
Calibrate ==
    /\ pc \notin {"init", "script_write"} /\ page = "none"
    /\ pc \in Reading => Overlapping
    /\ form' \in {"", "1", "2"}
    /\ cali' = ""
    /\ page' = "calibrate"
    /\ UNCHANGED <<file, new, update, merged, boot>>

CalibrateWrite ==
    /\ page = "calibrate" /\ page' = "none"
    /\ cali' = form
    /\ UNCHANGED <<file, new, update, merged, form, boot>>

\* The reboot ten seconds after a page, or a power cut.
Reboot ==
    /\ pc # "init"
    /\ \/ Interrupted
       \/ pc \notin {"script_write", "cali_write", "conf_write"}
          /\ page \notin {"update_write", "calibrate"}
    /\ pc' = "init" /\ page' = "none"
    /\ items' = <<>> /\ cali_m' = ""
    /\ new' = Missing /\ update' = FALSE /\ merged' = <<>>
    /\ UNCHANGED <<file, cali, form>>

Next ==
    \/ StartScript \/ ScriptWrite \/ StartApp
    \/ ReadCali \/ CaliWrite \/ ReadConf \/ ConfWrite
    \/ Submit \/ Merge \/ Replace \/ UpdateWrite
    \/ Calibrate \/ CalibrateWrite
    \/ Reboot

Spec == Init /\ [][Next]_vars
-----------------------------------------------------------------------------
TypeOK ==
    /\ file = Missing \/ file \in Seq(Lines)
    /\ items \in Seq(Lines) /\ merged \in Seq(Lines)
    /\ new = Missing \/ new \in Seq(Lines)
    /\ update \in BOOLEAN
    /\ cali \in {"-", "", "1", "2"}
    /\ form \in {"", "1", "2"} /\ cali_m \in {"", "1", "2"}
    /\ page \in {"none", "update", "update_write", "calibrate"}

\* The value of a key in the file, and the one it has: that of the file, or of
\* the list about to be written.
InFile(k) == IF file = Missing THEN "" ELSE Get(Read(file), k)

Stored(k) ==
    IF pc \in {"script_write", "conf_write"} THEN Get(Read(items), k)
    ELSE IF page = "update_write" THEN Get(Read(merged), k)
    ELSE InFile(k)

(* AirSniffer runs with the configuration the file holds, so the next boot runs *)
(* with the same: completing it, merging and dumping lose and change nothing    *)
(* (main.c:908-934, ssconfig.c:28-105).                                         *)
RunsAsStored == pc = "running" => \A k \in Keys : Get(items, k) = InFile(k)

(* AirSniffer measures with the multiplier of the last form, and with 1 before  *)
(* there was one, through every boot and update: it never finds device.cali      *)
(* without it and takes the 0 atof() makes of that (main.c:887-899).             *)
RunsCalibrated == [][pc' = "conf" /\ pc # pc' => cali_m' = form]_vars

(* AirSniffer adds defaults and changes no value that is there ("Add default     *)
(* configs to old version config file", main.c:908), whatever stops it or works  *)
(* beside it; the write of a page that a power cut stops is not AirSniffer's.    *)
BootKeepsConfig ==
    [][\A k \in Keys :
         /\ pc \in Reading /\ pc' # pc /\ Stored(k) # ""
         /\ pc' = "init" => page # "update_write"
         => Stored(k)' = Stored(k)]_vars

Store == INSTANCE ConfigStore WITH
    stored <- [k \in Keys |-> Stored(k)],
    request <-
      IF new = Missing \/ page = "update_write"
      THEN [names |-> {}, value |-> [k \in Keys |-> ""], keep |-> TRUE]
      ELSE [names |-> {new[n].key : n \in 1..Len(new)} \ {"#"},
            value |-> [k \in Keys |-> Get(Read(new), k)],
            keep |-> update]

(* An update changes the keys its file names and no other, replacing installs   *)
(* exactly the new file, and everything else a device does between and after     *)
(* only completes the configuration (http_updater/src/main.c:32-77).             *)
ImplementsConfigStore == Store!Spec
=============================================================================
