--------------------------- MODULE DevicePairing ---------------------------
(***************************************************************************)
(* DevicesService: a device row is created with a pairing code, a till     *)
(* claims it with the code, the owner removes it.  pairDevice and remove   *)
(* check on a read and then update the row by its id alone, so with more   *)
(* than one Request an update may overtake another: it rests on a row that *)
(* has changed.  `raced' says of which devices that has happened.          *)
(***************************************************************************)
EXTENDS Integers, Sequences, FiniteSets

CONSTANTS
    Request,        \* HTTP requests the server works on at the same time
    Hardware,       \* tills
    Code,           \* the six digit codes
    MaxDevices,     \* bound
    None

ASSUME NoneAssumption ==
    /\ None \notin Hardware /\ None \notin Code
    /\ MaxDevices \in Nat

VARIABLES
    devices,        \* Device rows of one merchant
    inflight,       \* what each request has found
    claims,         \* pairs a till was told to be paired as a device
    raced           \* devices updated after a stale read

vars == <<devices, inflight, claims, raced>>

Device == [status : {"UNPAIRED", "PAIRED", "REVOKED"}, active : BOOLEAN,
           code : Code \cup {None}, hardware : Hardware \cup {None}]

Found == [call : {"pair"}, device : Nat, seen : Device, hardware : Hardware]
    \cup [call : {"remove"}, device : Nat, seen : Device]

Init ==
    /\ devices = <<>>
    /\ inflight = [r \in Request |-> None]
    /\ claims = {}
    /\ raced = {}

-----------------------------------------------------------------------------
\* The code is random; the unique index refuses one that is in use.
Create(c) ==
    /\ Len(devices) < MaxDevices
    /\ \A d \in DOMAIN devices : devices[d].code # c
    /\ devices' = Append(devices, [status |-> "UNPAIRED", active |-> TRUE,
                                   code |-> c, hardware |-> None])
    /\ UNCHANGED <<inflight, claims, raced>>

Find(r, found) ==
    /\ inflight[r] = None
    /\ inflight' = [inflight EXCEPT ![r] = found]
    /\ UNCHANGED <<devices, claims, raced>>

PairableByCode(d) == devices[d].code # None
Pairable(d) == devices[d].code # None /\ devices[d].status = "UNPAIRED"

FindByCode(r) == \E d \in DOMAIN devices, h \in Hardware :
    /\ Pairable(d)
    /\ Find(r, [call |-> "pair", device |-> d, seen |-> devices[d], hardware |-> h])

FindActive(r) == \E d \in DOMAIN devices :
    /\ devices[d].active
    /\ Find(r, [call |-> "remove", device |-> d, seen |-> devices[d]])

Serving(r, call) == inflight[r] # None /\ inflight[r].call = call
Answer(r) == inflight' = [inflight EXCEPT ![r] = None]
Update(r) ==
    /\ Answer(r)
    /\ raced' = IF devices[inflight[r].device] = inflight[r].seen THEN raced
                ELSE raced \cup {inflight[r].device}

\* The hash of a till is unique within the merchant, whatever the status.
RegisteredActive(h, d) ==
    \E e \in DOMAIN devices \ {d} : devices[e].active /\ devices[e].hardware = h
Registered(h, d) == \E e \in DOMAIN devices \ {d} : devices[e].hardware = h

KeepUnpaired(r) ==
    LET d == inflight[r].device
        h == inflight[r].hardware
    IN
    /\ Serving(r, "pair")
    /\ ~Registered(h, d)
    /\ devices' = [devices EXCEPT ![d].hardware = h]
    /\ claims' = claims \cup {<<h, d>>}
    /\ Update(r)
PairDevice(r) ==
    LET d == inflight[r].device
        h == inflight[r].hardware
    IN
    /\ Serving(r, "pair")
    /\ ~Registered(h, d)
    /\ devices' = [devices EXCEPT ![d].hardware = h, ![d].code = None,
                                  ![d].status = "PAIRED"]
    /\ claims' = claims \cup {<<h, d>>}
    /\ Update(r)

Remove(r) ==
    /\ Serving(r, "remove")
    /\ devices' = [devices EXCEPT ![inflight[r].device].active = FALSE,
                                  ![inflight[r].device].status = "REVOKED"]
    /\ Update(r)
    /\ UNCHANGED claims

\* The update violates the unique index, fails, or the process dies.
Abandon(r) ==
    /\ inflight[r] # None
    /\ Answer(r)
    /\ UNCHANGED <<devices, claims, raced>>

Next ==
    \/ \E c \in Code : Create(c)
    \/ \E r \in Request :
        FindByCode(r) \/ FindActive(r) \/ PairDevice(r) \/ Remove(r) \/ Abandon(r)

Spec == Init /\ [][Next]_vars

-----------------------------------------------------------------------------
(* Properties. *)

\* What pairDevice and remove leave together in a row, told apart by status.
RowOK(d) ==
    /\ d.status = "UNPAIRED" => d.code # None /\ d.hardware = None /\ d.active
    /\ d.status = "PAIRED" => d.code = None /\ d.hardware # None
    /\ d.status = "REVOKED" => (d.code = None) = (d.hardware # None) /\ ~d.active

\* Rows are well typed and the three fields pairing sets agree.
TypeOK ==
    /\ devices \in Seq(Device)
    /\ \A d \in DOMAIN devices : d \in raced \/ RowOK(devices[d])
    /\ inflight \in [Request -> Found \cup {None}]
    /\ claims \subseteq Hardware \X Nat
    /\ raced \subseteq DOMAIN devices

\* Two tills never both believe to be one device, whose sales would then be
\* looked up under one id_device, unless their calls for it overlapped.
OneTillPerDevice ==
    \A a, b \in claims : a[2] = b[2] /\ a[2] \notin raced => a = b

\* A removed device is never PAIRED again, unless a pairing overlapped with
\* the removal.
RevokedStaysRevoked ==
    \A d \in DOMAIN devices \ raced :
        devices[d].status = "PAIRED" => devices[d].active

\* A till never is two devices of the merchant, whatever was removed in
\* between: the sales it resends keep the id_device they were sold under.
\* Only a till whose pairing another one has overtaken gets a second device.
OneDevicePerTill ==
    \A a, b \in claims :
        a[1] = b[1] /\ {a[2], b[2]} \cap raced = {} => a = b
=============================================================================
