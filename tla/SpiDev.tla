-------------------------------- MODULE SpiDev --------------------------------
(* as-spi-gpio-dev, the kernel module that makes the LCD's device node: it     *)
(* registers a platform device, which the driver as-spi-gpio turns into an SPI *)
(* bus, and a slave on that bus, /dev/spidev25.0.  Loading it fails at any of   *)
(* these steps and has to undo the ones before.                                *)
EXTENDS Integers

VARIABLES
    driver,     \* the driver as-spi-gpio is loaded
    stage,      \* where loading is: "out", a step of probe, "in"
    device,     \* the static pointer: set once the module is in
    refs,       \* references the module holds on the platform device
    added,      \* the device is on the platform bus
    master,     \* references it holds on the SPI master of the bus
    slave       \* /dev/spidev25.0 exists

spi == <<driver, stage, device, refs, added, master, slave>>

Probe == {"alloc", "add", "master", "slave", "err_unregister", "err"}

SpiInit ==
    /\ driver = FALSE /\ stage = "out"
    /\ device = FALSE /\ refs = 0 /\ added = FALSE
    /\ master = 0 /\ slave = FALSE

At(from, to) == stage = from /\ stage' = to

\* modprobe as-spi-gpio, which may fail.
ModprobeDriver ==
    /\ stage = "out"
    /\ driver' \in {driver, TRUE}
    /\ UNCHANGED <<stage, device, refs, added, master, slave>>

\* modprobe as-spi-gpio-dev; the module's static data are new.
Insert ==
    /\ At("out", "alloc")
    /\ device' = FALSE
    /\ UNCHANGED <<driver, refs, added, master, slave>>

AllocDevice ==
    /\ \/ At("alloc", "err") /\ UNCHANGED refs
       \/ At("alloc", "add") /\ refs' = refs + 1
    /\ UNCHANGED <<driver, device, added, master, slave>>

\* On failure the reference is put at once.
AddDevice ==
    /\ \/ At("add", "err") /\ refs' = refs - 1 /\ UNCHANGED added
       \/ At("add", "master") /\ added' = TRUE /\ UNCHANGED refs
    /\ UNCHANGED <<driver, device, master, slave>>

\* There is a master if the driver has taken the device, which it may refuse.
GetMaster ==
    /\ \/ At("master", "err_unregister") /\ UNCHANGED master
       \/ driver /\ At("master", "slave") /\ master' = master + 1
    /\ UNCHANGED <<driver, device, refs, added, slave>>

\* Mutant: the pointer is set before the slave is known to be there.
NewSlave_PointerFirst ==
    /\ \/ At("slave", "err_unregister") /\ UNCHANGED slave
       \/ At("slave", "in") /\ slave' = TRUE
    /\ device' = TRUE
    /\ master' = master - 1
    /\ UNCHANGED <<driver, refs, added>>

\* The master is put whether the slave could be made or not.
NewSlave ==
    /\ \/ At("slave", "err_unregister") /\ UNCHANGED <<device, slave>>
       \/ At("slave", "in") /\ slave' = TRUE /\ device' = TRUE
    /\ master' = master - 1
    /\ UNCHANGED <<driver, refs, added>>

\* platform_device_unregister(): the bus goes with the device, the slave with it.
Unregister ==
    /\ added' = FALSE
    /\ refs' = refs - 1
    /\ slave' = FALSE

ErrUnregister ==
    /\ At("err_unregister", "err")
    /\ Unregister
    /\ UNCHANGED <<driver, device, master>>

\* as_spi_gpio_dev_cleanup(), at the end of a failed probe and of rmmod.
Cleanup ==
    /\ At("err", "out") \/ At("in", "out")
    /\ \/ device /\ Unregister
       \/ ~device /\ UNCHANGED <<refs, added, slave>>
    /\ UNCHANGED <<driver, device, master>>

SpiNext ==
    \/ ModprobeDriver \/ Insert
    \/ AllocDevice \/ AddDevice \/ GetMaster \/ NewSlave \/ ErrUnregister \/ Cleanup

SpiSpec == SpiInit /\ [][SpiNext]_spi
-----------------------------------------------------------------------------
SpiTypeOK ==
    /\ driver \in BOOLEAN /\ device \in BOOLEAN
    /\ stage \in {"out", "in"} \cup Probe
    /\ refs \in {0, 1} /\ master \in {0, 1}
    /\ added \in BOOLEAN /\ slave \in BOOLEAN

(* However loading ends, nothing of it is left when the module is out, and the  *)
(* node is there exactly when it is in: no error path of probe forgets a step   *)
(* to undo or undoes one twice, cleanup() at its end included (as-spi-gpio-dev.  *)
(* c:27-91).                                                                   *)
SpiBalanced ==
    /\ refs >= 0 /\ master >= 0
    /\ stage = "out" => refs = 0 /\ ~added /\ master = 0
    /\ stage = "in" => refs = 1 /\ added /\ master = 0 /\ device
    /\ slave <=> stage = "in"
=============================================================================
