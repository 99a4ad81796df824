---------------------------------- MODULE Faults ----------------------------------
(***************************************************************************)
(* Fault injection: the request at the bus (http_api.py, bus.py), the      *)
(* message at the device (base_device.py), the injector                    *)
(* (common/device/faults.py), and the one reading of a sensor that those   *)
(* who ask sensor_sample share in a scan.  Who asks differs: condenser,    *)
(* turbine and tank do it for their protections, the registers and the     *)
(* published value; the boiler protects on what is true; the valve asks    *)
(* for the registers only, the pumps for the published value only, the     *)
(* generator never.                                                        *)
(*                                                                         *)
(* A fault is known by its category.  A sensor fault makes a reading       *)
(* differ from the value, or not (the mode intermittent, which covers the  *)
(* others); what actuator and process faults do is left to the programs.   *)
(* A message that a device handles late is one that was sent late: a       *)
(* request and what it does to the devices that it reaches are one step.   *)
(***************************************************************************)
EXTENDS Naturals, Sequences

CONSTANTS
    Devices,
    LabDevices,        \* those that run with LAB_MODE
    Protecting,        \* whose protection_values goes by sensor_sample
    Showing,           \* whose fill_registers does
    Publishing,        \* whose publish does
    Processes,         \* the categories beside sensor: actuator, process
    Stranger,          \* a name that no device has
    SavedValue,        \* the value in the snapshot that may be restored
    SavedFaults        \* the faults in it, as a set of categories

Categories == {"sensor", "comm"} \cup Processes
All        == "*"

ASSUME FaultsAssumption ==
    /\ LabDevices \subseteq Devices
    /\ Protecting \subseteq Devices /\ Showing \subseteq Devices /\ Publishing \subseteq Devices
    /\ Processes \subseteq {"actuator", "process"}
    /\ {Stranger, All} \cap Devices = {} /\ Stranger # All
    /\ SavedFaults \subseteq Categories
    /\ SavedValue \in 0 .. 1

VARIABLE device        \* the sensor of each device and its faults

Values  == {0, 1}
Wrong   == 2
Unread  == 3
Reading == Values \cup {Wrong, Unread}

\* The protections, the register image, and what TICK_DONE carried if the
\* last scan had one; Unread before anything was given to them.
Readers == {"protections", "registers", "published"}

Sampling ==
    [r \in Readers |-> CASE r = "protections" -> Protecting
                         [] r = "registers"   -> Showing
                         [] r = "published"   -> Publishing]

DeviceState ==
    [faults   : SUBSET Categories,
     value    : Values,                  \* what the sensor measures
     cache    : Reading,                 \* _sensor_cache, of this _sensor_epoch
     seen     : [Readers -> Reading],    \* what each reader was given last
     restored : BOOLEAN]                 \* SNAPSHOT_GENERATION, modulo 2

FaultsInit ==
    device = [d \in Devices |->
        [faults |-> {}, value |-> 0, cache |-> Unread, seen |-> [r \in Readers |-> Unread],
         restored |-> FALSE]]

-----------------------------------------------------------------------------
\* An unknown category is refused; no category at all means every one.
Payload == [action : {"set", "clear"}, category : Categories \cup {"unknown"}]
               \cup [action : {"clear"}, category : {All}]

(* _handle_fault, FaultInjector.set and clear.  Clearing everything clears *)
(* the protocol faults too, clearing a physical category does not.         *)
Injected(d, faults, payload) ==
    IF d \notin LabDevices               THEN faults
    ELSE IF payload.category = "unknown" THEN faults
    ELSE IF payload.action = "set"       THEN faults \cup {payload.category}
    ELSE IF payload.category = All       THEN {}
    ELSE faults \ {payload.category}

(* SensorFault.apply                                                       *)
Readings(faults, value) == IF "sensor" \in faults THEN {value, Wrong} ELSE {value}

\* Mutant: every reader applies the fault anew.
SampleAnew(u) == Readings(u.faults, u.value)

(* sensor_sample: the reading of this scan when there is one.              *)
Sample(u) == IF u.cache = Unread THEN Readings(u.faults, u.value) ELSE {u.cache}

(* One reader looks, by way of sensor_sample or not.                       *)
Given(u, reader, reading) == [u EXCEPT !.seen = [@ EXCEPT ![reader] = reading]]

Read(d, u, reader) ==
    IF d \in Sampling[reader]
    THEN {[Given(u, reader, reading) EXCEPT !.cache = reading] : reading \in Sample(u)}
    ELSE {Given(u, reader, u.value)}

(* restore_state: LAB_MODE decides, not the snapshot.                      *)
RestoredFaults(d, faults, keepFaults) ==
    IF keepFaults THEN faults ELSE IF d \in LabDevices THEN SavedFaults ELSE {}

(* inject_fault: to all, to one, or to nobody when the name is unknown.    *)
Addressed(target) == IF target = All THEN Devices ELSE {target} \cap Devices

(* reached: the devices that have a connection.                            *)
InjectFault(target, payload, reached) ==
    device' = [d \in Devices |->
        IF d \in Addressed(target) \cap reached
        THEN [device[d] EXCEPT !.faults = Injected(d, @, payload)] ELSE device[d]]

(* restore_state builds the image again, with the reading of the last scan. *)
RestoreDevice(d, keepFaults) ==
    LET faults == RestoredFaults(d, device[d].faults, keepFaults)
        u == [device[d] EXCEPT !.faults = faults, !.value = SavedValue, !.restored = ~@]
    IN  \E v \in Read(d, u, "registers") : device' = [device EXCEPT ![d] = v]

(* PAUSE and RESUME rebuild the image between two scans.                   *)
RebuildImage(d) ==
    \E v \in Read(d, device[d], "registers") : device' = [device EXCEPT ![d] = v]

(* scan(), and what it publishes if a tick asked for it.                   *)
ScanSensor(d, value, ticked) ==
    \E u \in Read(d, [device[d] EXCEPT !.value = value, !.cache = Unread], "protections") :
    \E v \in Read(d, u, "registers") :
    \E w \in IF ticked THEN Read(d, v, "published") ELSE {Given(v, "published", Unread)} :
        device' = [device EXCEPT ![d] = w]

FaultsNext ==
    \/ \E target \in Devices \cup {All, Stranger}, payload \in Payload, reached \in SUBSET Devices :
           InjectFault(target, payload, reached)
    \/ \E d \in Devices, keepFaults \in BOOLEAN : RestoreDevice(d, keepFaults)
    \/ \E d \in Devices : RebuildImage(d)
    \/ \E d \in Devices, value \in Values, ticked \in BOOLEAN : ScanSensor(d, value, ticked)

FaultsSpec == FaultsInit /\ [][FaultsNext]_device

-----------------------------------------------------------------------------
FaultsTypeOK == device \in [Devices -> DeviceState]

(***************************************************************************)
(* Those of the protections, the published value and the registers that go *)
(* by sensor_sample never disagree on a sensor, whatever faults are set    *)
(* and cleared, and however often the image is rebuilt between two scans.  *)
(***************************************************************************)
OneReadingPerScan ==
    \A d \in Devices : \A r, s \in Readers :
        /\ d \in Sampling[r] \cap Sampling[s]
        /\ Unread \notin {device[d].seen[r], device[d].seen[s]}
        => device[d].seen[r] = device[d].seen[s]

(***************************************************************************)
(* A device without LAB_MODE has no fault, whoever asks for one, and       *)
(* whatever was active in the snapshot it is restored to.                  *)
(***************************************************************************)
FaultsNeedLabMode == \A d \in Devices \ LabDevices : device[d].faults = {}

(***************************************************************************)
(* The image a restore rebuilds shows the process of the snapshot, as the  *)
(* documentation of the restore promises.                                  *)
(***************************************************************************)
RestoreShowsSnapshot ==
    [][ \A d \in Devices : device'[d].restored # device[d].restored
            => device'[d].seen["registers"] \in Readings(device'[d].faults, device'[d].value) ]_device
===============================================================================
