# AirSniffer-RT5350: models, model checking and proofs

AirSniffer is the program of an air-quality meter on an RT5350 router board. It
counts dust with a photo-electric sensor, shows the reading on an SPI LCD, has two
buttons and a battery, uploads the readings and lets its owner set up Wi-Fi from a
web page. This directory holds TLA+ models of its C programs and scripts, the TLC
configurations that check them on small instances, and TLAPS proofs of what matters
most for every value of the constants.

Line numbers refer to `src/AirSniffer/src/Main/main.c` unless another file is named.
Definitions keep the names of the source; `PROJECT.json` maps each to its lines.

## 1. Inventory

| component | state it keeps | operations | modelled in |
|---|---|---|---|
| Particle sampler (`main_sigalrm_handler` 330-378; new-data section 1095-1141) | `count`, `sensor_low`, `new_data`, ring `sensor_data` with `new_data_ptr` and `current_data_number`, `current_display_data` | a tick of 500 µs (`main.h:27`) reads the sensor; every 60000 readings make a sample; the main loop averages the last 10 | `Sampler`, `SampleWindow` |
| Front panel (`gpio_event_handler` 165-293, `poll_gpio` 132-163, the main loop 966-1267) | `state`, `current_state`, `displaying_unit`, `current_displaying_unit`, `fb_pressing`, `fb_timer`, per-pin `level` and `counter`, `battery_state`, spinner, `data_send_counter`, whether the timer runs | short and long presses of the front button, the back button, battery pins; redrawing | `FrontPanel`, `PanelMode` |
| Screen (`display` 561-710, `read_temp` 755-800) | what each area shows; `display()`'s statics `current_is_data`, `current_is_time`, `current_has_temp` | draw a page, value, label, temperature, icon | `Screen` by area, `Lcd` by picture |
| LCD driver and images (`lcd.c`, `img.c`, `img.h`, `welcome.c`) | the panel's registers, what is on it, the buffers of the ten digits | initialise, load, scale, show and free an image, numbers, texts | `Images`, `Lcd` |
| SPI kernel modules (`as-spi-gpio*`) | one platform device, one static pointer | load with every error path, unload | `SpiDev` |
| Upload (`sshttp.c`, `upload.c`, `xively.c`; 1154-1213) | descriptors, one buffer for request and reply, retry counter, result | the text of a request, sending it, its retries, the network icon | `Message`, `Upload` |
| Device configuration (`ssconfig.c`, 883-934, `http_updater`, `as_init.sh`, `do_calibration`) | `/etc/config/device.conf`, `device.cali`, the list in memory | read, complete with defaults, merge, replace, calibrate, reboot, some of it by a web page beside the program | `DeviceConfig`, `ConfigStore` |
| Wi-Fi setup (`wifi_setup` 383-533, `files/CGI/sethost`) | FIFO, helper daemons | become an access point, wait for the host's name, become a station again, connect | `WifiSetup`; in `FrontPanel` a call that may never return |
| Set-up agent (`src/CGI/main.c`, `wpa_ctrl.c`, `files/CGI/ask`) | its socket and the events on it; wpa_supplicant's networks | connect and save (`WifiSetup`), scan for hosts (`WifiScan`) | `WifiSetup`, `WifiScan` |
| Firmware update pages, other scripts | none of their own | `opkg`, flash, addresses | no |
| `src/unused` | | | no: no Makefile builds it |

**How they interact.** The main program is one process and one thread, and `SIGALRM`: the
handler runs every 500 µs, between any two statements of the main loop, and shares
every variable with it, mostly not `volatile` and never locked. It polls the pins through
`poll_gpio()`, which calls `gpio_event_handler()`; so does the main loop when a long
press expires (1049-1053). The main loop draws, uploads, reads the temperature and
sets up Wi-Fi with the timer *stopped*, and sleeps in `pause()` (1265). Drawing needs the
device node that the kernel module makes, and descriptors, which failed connections use
up. Configuration is a file that the program, the web server's scripts and `cfg_updater`
all rewrite. Wi-Fi setup talks to CGI scripts over a FIFO and, like the page `ask`, to
wpa_supplicant over a socket, through one process of the agent each.

**What is hard here.**
- interleaving: the handler against the loop's tests and draws, and against the loop's
  own run of the handler; a page that scans against a setup that connects;
- timing taken for granted: a sample of 60000 ticks and a dead time of 1000 against
  passes of a few ticks is all that keeps the hand-over of samples safe;
- stale state: what is shown, believed to be shown, and wanted are three variables;
  requests and replies share a buffer; events outlive what they are about;
- failure: requests that time out after the server has acted, sockets that are not
  closed, files truncated before they are written, `killall` at any moment or with nothing
  to kill yet, forms left blank, requests that wpa_supplicant refuses unnoticed, a kernel
  module that must undo half a probe;
- liveness: a loop that tests, then sleeps; a button whose release may never be seen; a
  setup that waits for a lease that may never come; an agent that polls for an event that
  may have been thrown away.

Properties that make each part correct: the published value is the mean of the most recent
samples (sampler); the screen, at rest, agrees with the state, value and label with each
other, icons with their pins, and no press or change of state is stuck, unless in a Wi-Fi
setup that does not return (panel); the pictures on the LCD are those of the page asked for,
and the numbers among them read back as the numbers given (screen, driver); what was
acquired is released exactly once (kernel module, images, sockets); the server reads the
very reading, the icon tells the truth about it, and uploads end (upload); a setup ends with
the device no access point any more, acts on what was submitted to it, and, where no
networks were removed and no request refused, reports success only if the host is saved and
forgets none; an accepted scan ends (Wi-Fi setup, agent); nothing but a request changes a
setting, and the program runs with what the files hold (configuration). `PROJECT.json` lists
the hazards, each at its line, with the properties that cover it or why none does.

## 2. Modules

```
 SampleWindow <-- refined by -- MCSampler -- extends --> Sampler -- extends --> PanelMode
                                                            ^                       ^
                        ^                                               refined by  |
                  SamplerProofs                                                     |
            Screen <-- extends -- FrontPanel <-- extends -- MCFrontPanel -----------+
               ^                                                 ^
               |                                            PanelProofs <-- PanelDisplayProofs
               |
 SpiDev, Images, Screen <-- extends -- Lcd <-- MCLcd, LcdProofs
 Message      <-- extends -- Upload <-- MCUpload, UploadProofs
 WifiSetup    <-- extends -- WifiScan <-- WifiProofs
 ConfigStore  <-- refined by -- DeviceConfig <-- ConfigProofs

 Recursion    <-- extends -- SamplerProofs, UploadProofs, ConfigProofs, LcdProofs
```

**`PanelMode`** is the interface between the two halves of the program: all the
sampler can tell of the panel is which of four modes the five states fall in (PM25, TIME, a
menu page, Wi-Fi setup), and that the front button cannot change the mode again within
`FB_TIMER_CD` ticks.
`Sampler` is built on it; `PanelProofs` proves that the real panel implements it. The
two large components are thus verified apart, without assuming anything of one another
that is not established.

**`Sampler`**: `Tick` is the handler (atomic: `SIGALRM` does not interrupt its own handler);
`Main` has an action for every statement, or run of statements the handler cannot tell
apart, of the loop's sections on state, expiry and new data; where the code reads `state`
twice (1097-1100) there are two actions (`CheckPm25`, `CheckTime`), and a tick between them
that makes the loop skip the section has a bound of its own (`SkipBound`). `pc` is the place
in the loop, `ticks` the number of ticks that have interrupted this pass. The mean is kept
as the pair <<sum, number>>: the calibration that follows (1128-1134) is a fixed linear map.
`sensor_data` has one slot more than the array, to observe the pointer one past the end
(1117-1121).

**`SampleWindow`** is the promise: samples arrive, each is averaged into exactly
one publication, which is the mean of the last `DATA_AVE_NUMBER`. `MCSampler` maps the
ring, pointer, number and flag to that window.

**`FrontPanel`**: `Tick` polls every pin whose counter has run down, in order; the
environment chooses the levels. `FrontEvent` is the front button's handler as one
step on the record of what it touches, used by `Tick`; the `Expiry*` actions are the
same handler run statement by statement in the main loop. The sections of
the loop follow, with test and draw in separate actions wherever the timer is live
between them, and `armed` recording whether it is. A condition that reads `state` twice
(1058-1060, 1097-1100) and the icon that is chosen by up to four readings of
`battery_state` (1074-1089) take an action for each (`SeeTimeThen`, `DrawBatteryIf`), so that
all the paths a tick can open between two readings are there, the one that draws no icon at
all included. The sampler is reduced to its flag
and a choice of `Readings`; `wifi_setup()` to `EnterWifiSetup` and `SetupReturns`, which has
no fairness: it leaves `STATE_PM25`, and the page "please wait" or that of its result, both
replaced by the next drawing.

**`Screen`** is what `display()` leaves in each area: the page, the value with its unit,
the label, the spinner, the battery and network icons. `EmptyScreen` is the state after the
welcome picture is cleared.

**`SpiDev`** loads the kernel module step by step, each of which may fail, and counts the
references and registrations it holds. **`Images`** has the layout of the panel, the
places `resize_image()` samples, the digits, blanks and minus of `display_int()` and the
texts of the other pages: a picture is an image at a place, and showing one hides those
inside it. An image that would be read outside its source, or whose last block would be
empty or too long for the driver, is `Garbled`. **`Lcd`** composes these with `Screen`:
`display()` type by type, as the sequence of pictures it draws, beside what `Screen` says
it draws. `files` is whether a descriptor is left: without one `load_image()` leaves the
picture out, and a picture that *can* be drawn, from a buffer that is still held, ends the
process in `uwrite()`. `lost` counts the buffers nothing points to any more.

**`Message`** makes a request as the code does, out of words: the data points, pushed to
the front of their list, the body of either server, target, header and length. It also
has the server, which splits the request into lines, takes as much of the rest as
`Content-Length` says and reads the points out of it. For aliyun the code writes
percent-encoded text (`%7B`, `%22`), which the server decodes (`Decoded`) before it reads it
by a grammar of its own (`Grammar`); a number is written in a field of ten, with the blanks of
`%10f` and `%10d` (`Printed`). `SixDecimals` is the calibrated double as `%10f` prints it.
**`Upload`**: one action per call of
`sshttp_request()` that can fail, with `Return` for its result and the descriptors it
keeps; `buffer` is the one buffer, which holds the request, is cleared, and takes the
reply, or part of it. `Serve` is the server, which may act and answer, act and be lost, or
not act. `Retry` and `Result` are the loops of `upload()` and `xively_update_feed()`,
`EndUpload` the icon, which stays as it is when no descriptor is left to load it.
`Backends` are the servers a device may be configured for.

**`DeviceConfig`**: files are sequences of lines; `Read`, `Get`, `Set` and the pair
`Truncate`/`WriteOut` are `ssconfig.c`, `At` is where in a list a key is, `SetAll` merges a
submitted file and `Complete` adds the defaults. Two processes work on the files: the boot
with AirSniffer (`StartScript` ... `ConfWrite`, at `pc`) and one web page at a time (`Submit`
... `CalibrateWrite`, at `page`). `Submit` kills AirSniffer wherever it is, if `StartApp` has
started it: between lines 57 and 63 of `as_init.sh` there is nothing to kill. A writer
overwrites the file from its start, so that of two at once both leave something
(`WriteOut`). A value is `"default"`, `"other"` or blank: what the code tells apart; the
multiplier is what the form held, blank included, which `atof()` makes 0. Three constants say
what may happen: `Duplicated` (a page submits a key twice), `Interrupted` (power cut or
`killall` between truncating and writing) and `Overlapping` (AirSniffer boots beside a page).
**`ConfigStore`** is a key-value store with requests.

**`WifiSetup`**: the statements of `wifi_setup()` that can fail or wait, then the agent for
each line read (`Attach` ... `SaveConfig`), then the exits. `running` are the daemons,
`signal` what lies at `/tmp/assigfifo`: nothing, a FIFO, or the regular file that `echo >`
makes when nothing is there. `Sethost` is a page, at any time; `writers` are pages blocked
in opening the FIFO. `StartSupplicant` may fail, which the code does not look at. `Request`
says what a request to wpa_supplicant does to the events before it; where one is refused
(`AddNetwork`, `SaveConfig`) the agent goes on all the same, and `refused` records it. A
line from a blank form (`Blank`) runs the agent without arguments: it removes all networks
(`WipeNetworks`, recorded in `wiped`) and polls for a scan without a time-out (`Offer`).
`Connect` is wpa_supplicant, which connects to any network it has, as the agent does not ask
which. The watchdog is compiled out (`main.h:4`).

**`WifiScan`** adds the page `ask`: an agent that opens its socket, removes all networks,
scans, waits for the results and lists them, beside setups that kill and start the
wpa_supplicant it talks to. `Open`, `OpenAgain` and `ConnectCtrl` are `wpa_ctrl_open()`: the
bind, the removal of a file in its way, the second and last try, and the connection, which
fails where no wpa_supplicant runs. `sockets` are the files agents leave behind, `peer`
whether the agent's socket still leads to a running wpa_supplicant, `wiped` whether networks
have been removed since that was started. While the access point is up there is no
wpa_supplicant, so the page is empty then; with the device a station it drops the device's
own network for the sake of the scan. An agent whose `SCAN` is refused, or whose
wpa_supplicant is killed under it, polls (`spin`, or `wait` without `peer`) until the web
server gives the page up.

## 3. Runs

| run | checks | shows |
|---|---|---|
| `Sampler` | `TypeOK`, `PendingIsYoung`, `HandOver`, `ImplementsSampleWindow`, `KeepsPublishing` | the hand-over needs no lock under the stated timing: a sample never lands on a pending one or in a ring being summed, what is published is what `SampleWindow` promises, and a device left in a data mode publishes for ever |
| `Panel` | `TypeOK`, `ScreenFollowsState`, `ImplementsPanelMode`, `LabelStaysRight`, `PressEnds`, `StateIsActedOn` | with both buttons, means that may be 0 and a tick inside passes: no page of another state remains, the sampler's view of the panel is right (so a Wi-Fi request is lost only to a long press that expires in the same pass), value and label differ at rest only where a change of unit was taken back over a page that is already up under the new label, and a press held for ever ends and a change of state is acted on, unless the panel is for ever in a Wi-Fi setup that does not return |
| `PanelCalm` | `MenuIsClear`, `BatteryIconCurrent` | on every path through the states these hold *if no tick falls inside a pass*: the logic is right, the races below are all that breaks it |
| `Upload` | `TypeOK`, `IconTellsOutcome`, `StatusIsReplied`, `OnlyConnectLeaks`, `ServerGetsReading`, `UploadEnds` | with either server, over a network that refuses, loses, cuts and garbles: what the server reads is the reading as it was printed; no status is taken from anything but the answer to that request, though a failing `recv()` goes unnoticed; descriptors are lost to failed `connect()`s only, and as long as there are any the icon tells the outcome |
| `Display` | `TypeOK`, `SpiBalanced`, `ShowsPage`, `ShowsNumbers`, `Legible`, `LeaksOnPagesOnly` | from the loading of the kernel module through Welcome to any sequence of `display()` calls, until descriptors or the program end: what can be read on the panel is the page last asked for, numbers and temperature read back as given, no picture is cut, half covered or wrongly sent, and only the pages ID and IP lose memory, twenty buffers a view |
| `Config` | `TypeOK`, `RunsAsStored`, `RunsCalibrated`, `ImplementsConfigStore` | uninterrupted, with keys named once and no page beside a booting AirSniffer, the file behaves as a key-value store, and the program runs with what it holds and measures with the multiplier of the last form, a blank one included |
| `WifiHosts` | `BackAsStation`, `SuccessSaves`, `KeepsHosts`, `SetupEnds` | two hosts with keys and a blank form in any order, setup after setup, wpa_supplicant perhaps failing to start and perhaps refusing requests: a setup ends with the device no access point any more, with a DHCP client only after a success; a success has saved the host of the last line read and forgets none, unless that line had no key, networks were removed or a request was refused; a setup whose access point is up ends, or waits for a lease or for the scan of a blank form |
| `Wifi` | `ScanTypeOK`, `SuccessSaves`, `KeepsHosts`, `OpensAnyway`, `ScanEnds` | the same beside a page that scans at any time; its agent is turned away only where no wpa_supplicant runs, whatever earlier ones left behind, and a scan that was accepted ends, unless a setup kills wpa_supplicant under it |

Runs that end in a violation, each against a statement of the source:

| run | property | what happens |
|---|---|---|
| `PanelMenuRace` | `MenuIsClear` | the loop has begun to handle an expired press when a tick polls the release and handles it in full: PM25 becomes ID; the loop, finding the new dead time running, takes the press for a short one and goes on to IP. The next pass sees PM25 followed by IP, which clears nothing: the spinner stays in the menu, against 1025. In the code the poll comes 6 ticks after the expiry, so the loop has to be that late |
| `PanelBatteryRace` | `BatteryIconCurrent` | the icon is drawn from one reading of `battery_state` and recorded by another (1074-1091). At boot the first tick can set FULL in between: the wrong icon stays |
| `ConfigPowerCut` | `BootKeepsConfig` | `fopen("w")` truncates; a power cut or `killall` before the file is closed leaves it empty. With everything allowed this is the shortest way to lose a setting; the others are below |
| `WifiEarly` | `ActsOnItsOwn` | `access()` (447) takes any file for the FIFO. A host submitted before the first setup makes a regular file: the next setup, and every one until the next reboot, reads the old line from it at once instead of waiting |

More is known of the code that has no run of its own:
- "No data" is `<0` in one place (982) and `<=0` in another (1223): a mean of 0 taken in the
  pass that sees a press is drawn in pcs under the label ug, and the press is then taken back
  without redrawing the label (`LabelTakenBack`, the exception in `LabelStaysRight`).
- With aliyun an answer without a status number gives `atoi()` = 0, which is `upload()`'s code
  for success (`upload.c:99`); `IconTellsOutcome` excepts it.
- An update served between `as_init.sh:57` and 63 finds no AirSniffer to kill. AirSniffer then
  boots beside `cfg_updater` and may read the file while it is empty, or write the values it
  read before back over the update: with `Overlapping` alone `BootKeepsConfig` fails too.
- `read_config()` puts every line at the head of its list and `dump_config()` writes the list
  as it is: a boot that adds a default reverses the file, and of a key that is named twice the
  other value counts from then on. With `Duplicated` alone `BootKeepsConfig` fails as well.
- The agent does not ask which network a CONNECTED event is of (`CGI/main.c:205-216`): the
  connection to a network known before counts as that to the host submitted, which is saved
  untried. `send_cmd()` looks at no reply: a refused `SAVE_CONFIG`, or `ADD_NETWORK`, still
  ends in "success". `SuccessSaves` speaks of neither: it says that the host is saved, not
  that it was reached, and excepts refusals.
- A negative mean, which a negative calibration offset can make, is a value for one half of
  the loop and "no data" for the other; what the page should then be nobody says, so no
  run uses one.
- A calibration form with the multiplier left blank, which is how the page comes up, writes a
  blank one, and every reading is 0 from then on. `RunsCalibrated` takes it for what was
  asked.
- With an empty key the agent has one argument, does nothing and returns 0, which
  `wifi_setup()` shows as success: `SuccessSaves` excepts it. With a blank name too it
  removes all networks, and may poll for ever.
- A setup that fails has killed `udhcpc` and does not start it again (516-521).
- While a Wi-Fi setup waits for `udhcpd` to start (426) or for a lease (503), which need
  never come, the panel is dead: `PressEnds` and `StateIsActedOn` except it.
- Once descriptors have run out the program does not fail but shows what it showed before,
  the network icon included, until it has to draw a digit it still holds, and ends.

Each property of a passing run has a mutant: a one-place change of a mapped definition
like a slip in that code, kept just before the definition it changes
(`ClearData_KeepsCount`, `WrapPointer_Late`, ...), under which the run fails.

### Bounds, and why they are enough

- **Sampler**: samples of 12 readings, ring of 2, dead time 6, 2 ticks per pass. These
  are the least that `SamplerAssumption` admits (12 > 4*2+3, 6 > 2*2+1): the
  timing is as tight as it may be, and the ring wraps and is full. With a smaller dead
  time or sample `HandOver` fails, so the assumption is needed. `MaxLow = 1` tells
  samples with a low reading from those without; that is enough to tell the ring's slots
  apart in the refinement. The proofs below hold for all values of these, `MaxLow` included.
- **Panel\***: times are scaled down and keep the order of the real ones: long press (7, 6 or, in
  `PanelCalm`, 4 for 6000) over dead time (5, 4 or 3 for 1000) over polls of the
  front button (every 3 for 11, an interval n giving a period n+1). In the races a press expires
  between two polls as in the code (7 = 2*3+1; 6000 = 545*11+5); in `Panel` it expires with one.
  The two buttons are always polled in the same ticks: the rest
  of the back button, 1001 = 91*11 ticks, is a multiple of the poll period, two of them in
  `Panel` (`BACK_COOLDOWN = 5`) and one elsewhere, which includes longer
  rests, as a level that does not change is not looked at. `LabelStaysRight` needs this: with
  `BACK_COOLDOWN = 4` it fails. One tick per pass is enough to hit every gap between two
  statements; a pass as long as a poll period (11 ticks, 5.5 ms) is excluded by
  `FrontPanelAssumption`: with the timer live a pass only tests and assigns, as drawing,
  reading the temperature and uploading stop it. Pins that a property does
  not concern are left out of its run; the `Readings` are 0 and a positive one where the
  value matters.
- **Upload**: both servers, two readings that six decimals have to round, one
  of them near 0, with a thermometer and without; 3 retries as in the code; 4
  descriptors, so that a leak of one per request exhausts them over two uploads; statuses 0,
  200 and one error.
- **Display**: a reading that is rounded down to 0 in ug and one that is clipped at five
  digits; temperatures of -9.95 and 23.5 degrees, which rounding takes to -10 and 24; the
  shortest and the longest address, a device id longer than its two lines and with a letter;
  one battery and one network icon, the first and last spinner frame, as all of a kind are
  of one size at one place. Two views of ID or IP (`MaxViews`) find the digits not loaded,
  and still loaded from the first; one call without descriptors (`MaxLate`) leaves every
  kind of picture out once.
- **Wifi\***: in `WifiHosts` two hosts with keys and a blank form, a network known before, and
  a FIFO of two lines, so that two lines can be read at once, be left behind by the read, or
  fill the FIFO, and one host can be lost to the other. In `Wifi` a host with a key, one
  without and a blank form, and a FIFO of one line, beside the scanning agent; one process id,
  so that every agent finds the socket its predecessor left. The violations need a host and a
  blank form only. Setups and pages follow one another without a bound.
- **Config\***: three keys, one without a default and two with; submitted files of up
  to two lines, one of which may be blank, a comment, or (with `Duplicated`) a repeated
  key; a multiplier of 1, 2 or blank. `Duplicated`, `Interrupted` and `Overlapping` are all
  `FALSE` in `Config`, as the properties need it, and `TRUE` in `ConfigPowerCut`.

### Fairness

`Sampler` and `FrontPanel` have weak fairness of the main loop (a process that can run is
scheduled) and of the tick (an interval timer that is armed keeps firing; `Tick` is
enabled only while `armed`). Neither assumes anything about buttons: `PressEnds` is for a
release that never comes; and nothing makes `wifi_setup()` return (`SetupReturns` is not in
`Main`). `Upload` has weak fairness of the request and the retry loop as a
whole: resolver and `connect()` return by their own time-outs and the answer is awaited
with `poll()`; the server is not fair. `WifiSetup` (`FairSetup`) has weak fairness of
`wifi_setup()` with its agent where its waits have time-outs of their own (`select()`,
`alarm()`): from the access point on, but for the lease, as `udhcpc` is run
without `-b` or `-n`, and the scan of a blank form. The start of `udhcpd`, which may never
succeed, is left out. `WifiScan` has weak fairness of the scanning agent, which polls, and of
the end of a scan; setups are not fair there, nor is the web server's giving up of a page.
Nor is whatever a user does. `Lcd` and `DeviceConfig` have no liveness.
Deadlock is checked everywhere but in `Upload` and `Display`, where the process may exit or
run into its bounds, and nothing is left to happen.

## 4. Proofs

Checked by `tlapm`, for every value of the constants that satisfies the assumptions.

**`SamplerProofs`** (`SamplerAssumption`: naturals, at least one slot,
`SENSOR_CALC_INTERVAL > 4*PassTicks+3`, `FB_TIMER_CD > 2*PassTicks+1`; 60000 and 1000
satisfy it up to 499 ticks in a pass):
- `TypeCorrect`: `Spec => []TypeOK`. That the ring holds fractions of a sample rests on
  every reset of `count` resetting `sensor_low`; that the pointer is in range outside its
  increment, on `pc`.
- `PendingStaysYoung`: `Spec => []PendingIsYoung`, and from it `HandsOver`:
  `Spec => HandOver`.

The obvious invariant, "a sample completes only when none is pending", is not inductive:
it must be known how far `count` can have come since the flag was set. While the loop
is in a data mode `count` is bounded by the ticks elapsed since the flag (`DataBound`);
but `new_data` survives a trip to the menu, where `count` stands still, at most at
`MenuBound`, and coming back needs the front button, whose dead time `DataBound` therefore
carries along: either the count is young, or the button has been dead long enough for the
loop to come by. The tick that makes the loop skip the section has just used up the button
(`SkipBound`). A request for Wi-Fi setup can be undone by an expiring press
(`WifiBound`), and while the sample is being summed `TakingBound` holds. `IInv` is their
conjunction with `TypeOK`. One lemma per group of actions shows that it is preserved;
the bounds were found with TLC first.

`RefinesSampleWindow`, `Spec => ImplementsSampleWindow`, goes on from there: every step of
the handler and the loop is a step of `SampleWindow` or a stutter. Two more invariants make
the mapping work. `Filled` says that the pointer is the number of samples until the ring is
full, and `Summed` that what is summed at any place in the loop is the sum of the slots
passed so far. The sum itself is a recursive function, of which `TotalIs` to `TotalOfTurned`
prove what is needed: it is there for every ring, grows by the sample appended, and does not
change when the ring is turned, so that the order of the slots from the oldest sample and
from slot 0 give one total.

**`Recursion`** is what proofs about data rest on. The library's theorems on induction take
a predicate as a parameter, which the provers cannot instantiate; stated with *sets* and
*functions* instead, they can be used: `Induction` (a set that holds 0 and with a number the
next holds all), `InductionTo` (the same up to a bound) and `Recursion` (a relation that
relates every value to a next one has a function that follows it). All three are derived
from the library's well-foundedness of `<` on the naturals. A function that a model defines
recursively is shown to exist with `Recursion` and to have its property with `Induction`.

**`PanelProofs`** (`FrontPanelAssumption`):
- `TypeCorrect`, from `Inv`: what a press may assign is one of `Presses`, in however many
  steps ticks split it.
- `FollowsState`: `Calibrated => (Spec => []ScreenFollowsState)`. `Shown` says which
  page is up at every place in the loop where the state is still the one the loop acted on.
  What makes it hard is that a state may change in a pass and *change back*, in which case
  the loop never sees it: a page drawn for the other state would stay. `Lasting` rules that
  out: a state that differs from `current_state` is Wi-Fi setup, which the button cannot
  leave, or the button is dead long enough for the pass to end (`Locked`). `Calibrated` says
  what the code leaves to circumstance: that a pass takes at most half a polling interval
  (`Timely`; 5 of the real ticks), and that no mean is negative.

Also in **`PanelProofs`**: `RefinesPanelMode`, `MCSpec => ImplementsPanelMode`: the initial
state maps to one of `PanelMode`'s and every step, of the tick or the loop, to a step of it
or a stutter. `cooldown` counts the dead time of the interface; `Aligned` says that the
button's own timer outlasts it except while the loop is assigning what a press selects;
`Handling` is what ticks may have done to a press since the loop saw it expire: it is still
held (`Held`) or a tick has ended it (`Ended`), and no other can begin in this pass
(`NoPress`). In each case the assignment the loop is about to make (`Storing`) changes the
mode as `PanelMode` allows, although it was computed from a state that may no longer be
current. It takes `Timely` and `InPhase`, an accident of the code's numbers: `BACK_COOLDOWN
+ 1` is a multiple of `POLL_INTERVAL + 1`, as 1001 = 91*11 (736-741). The back button is
then polled in ticks of the front button only (`InStep`), and a request for Wi-Fi setup
finds that the front button has just been polled (`Requested`), so that no release of it
goes by unseen.

**`PanelDisplayProofs`**: `MenuStaysClear` and `BatteryStaysCurrent` under `Calm`, which adds
`PassTicks = 0` to `Calibrated`. The state then stands still in a pass (`Still`), the menu is
entered by its page ID only (`ById`), which clears (`Cleaned`), and what is recorded of the
battery is what was drawn (`Recorded`). Together with the two violations above: the races
are the only way these fail.

Also there: `OneWayToAWrongLabel`, `Phased => (Spec => LabelStaysRight)`, with `Phased` for
`Calibrated` and `InPhase`; means of 0 are included. The
label is that of the unit *wanted* when the page was drawn afresh, the value in the unit
*last drawn*, and both lag behind a press. Where they differ (`Mixed`), the loop is about to
leave the page or to redraw it (`Matched`). That takes that a unit not drawn yet is drawn in
this pass (`Pending`), which no other press may spoil: neither a release polled
meanwhile (`Steady`), nor a request for Wi-Fi setup (`Asked`), nor an expired press that the
loop takes for a short one (`OddPress`), which could choose the unit last drawn again under
the label of the other. The one step that breaks this is `LabelTakenBack`, for
a mean of 0: the theorem is that there is no other. `InPhase` is needed here: in
`Panel` with a rest of 4 instead of 5, a press of the front button can end in the very
pass in which Wi-Fi setup is left, between a drawing and the test for a new unit, and
`LabelStaysRight` fails.

**`UploadProofs`** (`UploadAssumption`): `TypeCorrect`; `Leaks`, that fails to connect are
all that costs descriptors; `StatusIsTrue`, that no status but the server's answer is
returned; and `IconIsTrue`, for every number of retries, set of codes, readings and
descriptors. The invariant adds to `TypeOK` that a request holds its descriptor
(`Holding`), that a 200 under way vouches for the server having acted (`Vouched`), that the
server acts at most once per request (`Counted`) and that the buffer is empty while an
answer is awaited (`Cleared`), from which lemmas on `ParseResponce` take the status.

`ServerReadsReading`, `Spec => []ServerGetsReading`: what the server that splits, measures
and parses the request finds in it is the reading, for every reading, temperature and
device, on either server. The lemmas follow the words of a request: which words it is made
of (`WordsAreTexts`; none of them is an end of line but the ends of line, `TargetPlain`,
`HeaderPlain`), where each of them lies (`RequestPlaced`, `BodyPlaced`, `Flattened` for the
points joined by commas), that the first empty line is the one before the body
(`RequestEnds`), that decoding gives the words the grammar speaks of (`BodyDecoded`), and that
reading a point back gives the point (`PointRead`, `BodyRead`).
`Understood` is the invariant: what is on its way is the request made of the reading that is
being uploaded, and what a server that has acted holds is what it reads in that request.

**`ConfigProofs`** (`DeviceConfigAssumption`): for any keys, defaults and length of files.
- `TypeCorrect`, from `Invariant`: `Spec => []IInv`. `IInv` adds to the types that a file
  exists wherever it is read (`Exists`), that pages come after the script's own writing
  (`Placed`), that a submitted file is there just while an update works on it (`Submitted`),
  that writers that may not overlap do not (`Apart`), that no file or list names a key twice
  if no submission does (`Unrepeated`), that the list of the running program is the file, or
  what was read from it (`Running`), and that `device.cali` is blank only while it is written
  or if the form was (`Calibrated`).
- `RunsWithFile`, under `Duplicated = FALSE` and `Overlapping = FALSE`: `RunsAsStored`. A list
  is known by what `Get` finds in it. `ReadHolds` says which line that is for a file read back
  (the *last* of a key, as each goes to the head), `SetAllMerges` and `CompleteAdds` what a
  merge and the defaults make of it.
- `MeasuresCalibrated`, under `Interrupted = FALSE` and `Overlapping = FALSE`:
  `RunsCalibrated`.
- `RefinesConfigStore`, under all three: every step of boot, update, replacement and calibration
  is a step of `ConfigStore` or a stutter; `KeepsConfig`, that no boot then loses a setting
  (`BootKeepsConfig`).

The hypotheses are what the code leaves to circumstance: without any one of the three
`BootKeepsConfig` fails, as `ConfigPowerCut` and the list below it show.

**`WifiProofs`** (`WifiSetupAssumption`): `TypeCorrect`, `ComesBack` (`BackAsStation`),
`Saves` (`SuccessSaves`), `Keeps` (`KeepsHosts`) and `Opens` (`OpensAnyway`), for any hosts,
networks known before, FIFO and process ids, and any number of lines read at once, with
wpa_supplicant failing to start or refusing requests anywhere and blank lines among the others.
`Types` is `ScanTypeOK` with sequences in a form the provers know (`SeqOfIsSeq`); `Radio`
says which daemons run where; `Lines`, how far the agents have come; `Nets`, that unless
networks were removed or a request refused wpa_supplicant knows what is saved and the host
being set up; `Kept`, that a line that ended with 0 has then saved its host; `Peer`, that the
scanning agent is connected to nothing that does not run; `Cleared`, that what was in the way
of its second try is gone.

**`LcdProofs`** (`LcdAssumption`): `TypeCorrect`, `SpiIsBalanced` and `PagesLeak`, whatever is
displayed and however loading fails. `SpiHolds` says what is held at each step of `probe`;
`Memory`, how many buffers each view costs. `NearestDegree`: the number `ReadTemp` gives is
within half a degree of the temperature, for every integer.

Also there: `PageIsShown`, `NumbersAreShown` and `StaysLegible`, that what can be *read* on the
panel (`ShowsPage`, `ShowsNumbers`, `Legible`) is what `display()` was last asked for, in
every order of drawing. The hard part is what is *not* drawn: where the flags say that a page
is up, its background is left as it is and the new digits have to cover the old ones. The
invariant `PanelInv` therefore says which pictures lie in each of five areas of the panel
(`PanelShows`: a background, what stands in front of it, and a row of glyphs), that the flags
agree with the page (`Flags`), and that the panel stays readable when nothing can be drawn any
more. The proof has four layers:
- *drawing*: a sequence of pictures leaves what its steps leave one after the other (`Stages`,
  `DrawnParts`); what is drawn within an area changes no other (`Becomes`, `PartDrawn`); a row
  covers any row in the same boxes, digit by digit (`InBoxesCovers`, `AreaAgain`);
- *reading*: glyphs side by side are read from left to right (the lemmas up to `LineIsRead`),
  so that the number drawn is the number read, minus and blanks included (`NumberDrawn`, from
  `DigitsSay`), and so are the time, the device id and the address (`TimeDrawn`, `IdDrawn`,
  `IpDrawn`; an address stays within the panel because twelve digits and three dots do,
  `IpEnd`);
- *calls*: each call of `display()` makes the panel show what it asks for (`DataShown`,
  `UnitShown`, `TimeShown`, ..., `DisplayShows`); `UnitShown` is the one that draws the label
  twice when the page is not up, or over the old one when it is;
- *result*: what is composed so is tidy (`ShownIsReadable`) and reads as it should
  (`UpperReads`, `TempReads`).

Of `LcdAssumption` this takes that an address has at most twelve digits and three dots, a
time the five characters of `%k:%M`, and a temperature is one a 1-wire thermometer measures,
-55 to 125 degrees: one that rounds to -100 or 1000 would be clipped, and -128 would be taken
for none.

Only model-checked:
- liveness, which is outside the prover's reach;
- what is violated: `ActsOnItsOwn` and, where their hypotheses fail, `BootKeepsConfig`,
  `MenuIsClear` and `BatteryIconCurrent`.

## 5. Not modelled, and why

- The colours of pixels and the bits on the SPI bus; `LCD_DrawLine()` and its like, which
  nothing calls; whether the panel obeys its registers.
- `printf()` and `time()` in the handler, whose effects lie in stdio.
- `read_temp()` on a line that `fgets()` did not read (772), left in a shared buffer.
- `SIGPIPE` on a write to a closed connection, and what a byte written before a buffer
  hits: both depend on what the models leave out.
- A page killed between opening the FIFO and writing to it (482).
- `xively_activate_device()`, which nothing calls.
- The firmware pages and address scripts, which keep no state of their own.
- hostap's vendored `wpa_ctrl.c`, `common.c` and `os_unix.c`, but for the socket, the
  requests and the events that the agent uses.
- `src/unused`, which no Makefile builds.

The compiler is assumed to leave the order and number of accesses to the shared,
non-volatile variables as written.

## 6. Plan

Done:
1. `SampleWindow`, `Sampler`: the hand-over between handler and loop, the core.
2. `SamplerProofs`: its invariant.
3. `PanelMode`, `Screen`, `FrontPanel`: buttons, state and screen, and the interface.
4. `Upload` and `UploadProofs`; `Message`, what is said to the servers, composed with it.
5. `DeviceConfig`, `ConfigStore`.
6. `WifiSetup`; `WifiScan`, the scan beside it; `WifiProofs`.
7. `SpiDev`, `Images`, `Lcd`: the display down to its pictures; `LcdProofs`.
8. `PanelProofs`, `PanelDisplayProofs`: the panel's invariants and the interface to the
   sampler.
9. `Recursion`; with it the refinement of `SampleWindow`, `ConfigProofs`, in `UploadProofs`
   the text of the requests, and in `LcdProofs` what can be read on the panel.

Left, should the provers or the code allow it:
- a run with negative means, once it is decided what they should show.
