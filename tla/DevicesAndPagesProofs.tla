----------------------- MODULE DevicesAndPagesProofs ------------------------
(***************************************************************************)
(* Proofs about DevicePairing, for any number of requests, tills, codes    *)
(* and devices; and, below, about CursorPages, for any number of rows, any *)
(* page size and any number of pages.  The two share nothing; the names    *)
(* that both would use begin with Pages, or end with Row, in CursorPages.  *)
(***************************************************************************)
EXTENDS DevicePairing, CursorPages, SequenceTheorems, FiniteSetTheorems, TLAPS

(* What a request has found is a row, in the state its call looked for. *)
FoundOK ==
    \A r \in Request : inflight[r] # None =>
        /\ inflight[r].device \in DOMAIN devices
        /\ inflight[r].call = "pair" => inflight[r].seen.status = "UNPAIRED"

(* The unique index on (id_merchant, device_id_hash). *)
HardwareUnique ==
    \A d, e \in DOMAIN devices :
        devices[d].hardware # None /\ devices[d].hardware = devices[e].hardware
        => d = e

(* The till that was told so is the till the row names. *)
ClaimsHold ==
    \A a \in claims :
        /\ a[2] \in DOMAIN devices
        /\ a[2] \notin raced => /\ devices[a[2]].hardware = a[1]
                                /\ devices[a[2]].status # "UNPAIRED"

PairingInductive ==
    /\ TypeOK
    /\ FoundOK
    /\ HardwareUnique
    /\ ClaimsHold
    /\ RevokedStaysRevoked

-----------------------------------------------------------------------------
LEMMA InitPairing == Init => PairingInductive
BY EmptySeq DEF Init, PairingInductive, TypeOK, FoundOK, HardwareUnique, ClaimsHold,
                RevokedStaysRevoked

LEMMA FoundTyped ==
    ASSUME PairingInductive, NEW r \in Request, inflight[r] # None
    PROVE  /\ inflight[r].device \in DOMAIN devices
           /\ inflight[r].device \in Nat
           /\ inflight[r].seen \in Device
           /\ inflight[r].call = "pair" => /\ inflight[r].hardware \in Hardware
                                           /\ inflight[r].hardware # None
<1>1. inflight[r] \in Found
  BY DEF PairingInductive, TypeOK
<1>2. QED
  BY <1>1, NoneAssumption DEF PairingInductive, FoundOK, Found

(* A new row: no request has found it and no till claims it. *)
LEMMA CreatePairing ==
    ASSUME PairingInductive, NEW c \in Code, Create(c)
    PROVE  PairingInductive'
<1> DEFINE row == [status |-> "UNPAIRED", active |-> TRUE, code |-> c, hardware |-> None]
<1> USE DEF PairingInductive
<1>1. row \in Device /\ RowOK(row)
  BY NoneAssumption DEF Device, RowOK
<1>2. /\ devices \in Seq(Device)
      /\ devices' = Append(devices, row)
  BY DEF Create, TypeOK
<1>3. /\ devices' \in Seq(Device)
      /\ DOMAIN devices = 1 .. Len(devices)
      /\ DOMAIN devices' = DOMAIN devices \cup {Len(devices) + 1}
      /\ \A d \in DOMAIN devices : devices'[d] = devices[d]
      /\ devices'[Len(devices) + 1] = row
      /\ Len(devices) + 1 \notin DOMAIN devices
  BY <1>1, <1>2
<1>4. UNCHANGED <<inflight, claims, raced>>
  BY DEF Create
<1> HIDE DEF row
<1>5. TypeOK'
  BY <1>1, <1>3, <1>4 DEF TypeOK, RowOK
<1>6. FoundOK'
  BY <1>3, <1>4 DEF FoundOK
<1>7. HardwareUnique'
  BY <1>3 DEF HardwareUnique, row
<1>8. ClaimsHold'
  BY <1>3, <1>4 DEF ClaimsHold
<1>9. RevokedStaysRevoked'
  BY <1>3, <1>4 DEF RevokedStaysRevoked, row
<1>10. QED
  BY <1>5, <1>6, <1>7, <1>8, <1>9

LEMMA FindPairing ==
    ASSUME PairingInductive, NEW r \in Request, FindByCode(r) \/ FindActive(r)
    PROVE  PairingInductive'
<1> USE DEF PairingInductive
<1>1. PICK found \in Found :
         /\ Find(r, found)
         /\ found.device \in DOMAIN devices
         /\ found.call = "pair" => found.seen.status = "UNPAIRED"
  <2>1. DOMAIN devices \subseteq Nat /\ \A d \in DOMAIN devices : devices[d] \in Device
    BY DEF TypeOK
  <2>2. CASE FindByCode(r)
    BY <2>1, <2>2 DEF FindByCode, Pairable, Found
  <2>3. CASE FindActive(r)
    BY <2>1, <2>3 DEF FindActive, Found
  <2>4. QED
    BY <2>2, <2>3
<1>2. UNCHANGED <<devices, claims, raced>>
  BY <1>1 DEF Find
<1>3. TypeOK' /\ FoundOK'
  BY <1>1, <1>2 DEF TypeOK, FoundOK, RowOK, Find
<1>4. HardwareUnique' /\ ClaimsHold' /\ RevokedStaysRevoked'
  BY <1>2 DEF HardwareUnique, ClaimsHold, RevokedStaysRevoked
<1>5. QED
  BY <1>3, <1>4

(* The end of a call leaves what the other requests have found. *)
LEMMA AnswerFound ==
    ASSUME PairingInductive, NEW r \in Request, Answer(r), DOMAIN devices' = DOMAIN devices
    PROVE  inflight' \in [Request -> Found \cup {None}] /\ FoundOK'
BY DEF PairingInductive, TypeOK, FoundOK, Answer

LEMMA PairDevicePairing ==
    ASSUME PairingInductive, NEW r \in Request, PairDevice(r)
    PROVE  PairingInductive'
<1> DEFINE d == inflight[r].device
           h == inflight[r].hardware
<1> USE DEF PairingInductive
<1>1. /\ d \in DOMAIN devices
      /\ d \in Nat
      /\ h \in Hardware
      /\ h # None
      /\ inflight[r].seen.status = "UNPAIRED"
  BY FoundTyped DEF PairDevice, Serving, FoundOK
<1>2. /\ ~Registered(h, d)
      /\ claims' = claims \cup {<<h, d>>}
      /\ Answer(r)
      /\ raced' = IF devices[d] = inflight[r].seen THEN raced ELSE raced \cup {d}
      /\ devices' = [devices EXCEPT ![d].hardware = h, ![d].code = None,
                                    ![d].status = "PAIRED"]
  BY DEF PairDevice, Update
<1> HIDE DEF d, h
<1>3. devices \in Seq(Device) /\ devices[d] \in Device
  BY <1>1 DEF TypeOK
<1>4. /\ devices' \in Seq(Device)
      /\ DOMAIN devices' = DOMAIN devices
      /\ \A e \in DOMAIN devices \ {d} : devices'[e] = devices[e]
      /\ devices'[d] = [devices[d] EXCEPT !.hardware = h, !.code = None, !.status = "PAIRED"]
  BY <1>1, <1>2, <1>3 DEF Device
<1>5. /\ devices'[d].hardware = h
      /\ devices'[d].code = None
      /\ devices'[d].status = "PAIRED"
      /\ devices'[d].active = devices[d].active
  BY <1>3, <1>4 DEF Device
<1>6. d \notin raced' => /\ d \notin raced
                         /\ devices[d].status = "UNPAIRED"
                         /\ devices[d].active
  BY <1>1, <1>2 DEF TypeOK, RowOK
<1>7. TypeOK'
  <2>1. \A e \in DOMAIN devices' : e \in raced' \/ RowOK(devices'[e])
    <3>1. RowOK(devices'[d])
      BY <1>1, <1>5 DEF RowOK
    <3>2. raced \subseteq raced'
      BY <1>2
    <3>3. QED
      BY <1>4, <3>1, <3>2 DEF TypeOK
  <2>2. claims' \subseteq Hardware \X Nat
    BY <1>1, <1>2 DEF TypeOK
  <2>3. raced' \subseteq DOMAIN devices'
    BY <1>1, <1>2, <1>4 DEF TypeOK
  <2>4. QED
    BY <1>2, <1>4, <2>1, <2>2, <2>3, AnswerFound DEF TypeOK, RowOK
<1>8. FoundOK'
  BY <1>2, <1>4, AnswerFound
<1>9. HardwareUnique'
  BY <1>2, <1>4, <1>5 DEF HardwareUnique, Registered
<1>10. ClaimsHold'
  <2>1. ASSUME NEW a \in claims, a[2] \notin raced'
        PROVE  devices'[a[2]].hardware = a[1] /\ devices'[a[2]].status # "UNPAIRED"
    <3>1. a[2] \notin raced /\ a[2] \in DOMAIN devices /\ devices[a[2]].status # "UNPAIRED"
      BY <1>2, <2>1 DEF ClaimsHold
    <3>2. a[2] # d
      BY <1>6, <2>1, <3>1
    <3>3. QED
      BY <1>4, <3>1, <3>2 DEF ClaimsHold
  <2>2. QED
    BY <1>1, <1>2, <1>4, <1>5, <2>1 DEF ClaimsHold
<1>11. RevokedStaysRevoked'
  BY <1>2, <1>4, <1>5, <1>6 DEF RevokedStaysRevoked
<1>12. QED
  BY <1>7, <1>8, <1>9, <1>10, <1>11

LEMMA RemovePairing ==
    ASSUME PairingInductive, NEW r \in Request, Remove(r)
    PROVE  PairingInductive'
<1> DEFINE d == inflight[r].device
<1> USE DEF PairingInductive
<1>1. d \in DOMAIN devices
  BY FoundTyped DEF Remove, Serving
<1>2. /\ claims' = claims
      /\ Answer(r)
      /\ raced \subseteq raced'
      /\ raced' \subseteq raced \cup {d}
      /\ devices' = [devices EXCEPT ![d].active = FALSE, ![d].status = "REVOKED"]
  BY DEF Remove, Update
<1> HIDE DEF d
<1>3. devices \in Seq(Device) /\ devices[d] \in Device
  BY <1>1 DEF TypeOK
<1>4. /\ devices' \in Seq(Device)
      /\ DOMAIN devices' = DOMAIN devices
      /\ \A e \in DOMAIN devices \ {d} : devices'[e] = devices[e]
      /\ devices'[d] = [devices[d] EXCEPT !.active = FALSE, !.status = "REVOKED"]
  <2>1. [devices[d] EXCEPT !.active = FALSE, !.status = "REVOKED"] \in Device
    BY <1>3 DEF Device
  <2>2. devices' = [devices EXCEPT ![d] =
                       [devices[d] EXCEPT !.active = FALSE, !.status = "REVOKED"]]
    BY <1>2
  <2>3. QED
    BY <1>1, <1>3, <2>1, <2>2
<1>5. /\ devices'[d].hardware = devices[d].hardware
      /\ devices'[d].code = devices[d].code
      /\ devices'[d].status = "REVOKED"
      /\ devices'[d].active = FALSE
  BY <1>3, <1>4 DEF Device
<1>6. TypeOK'
  <2>1. \A e \in DOMAIN devices' : e \in raced' \/ RowOK(devices'[e])
    <3>1. d \in raced' \/ RowOK(devices'[d])
      BY <1>1, <1>2, <1>3, <1>5 DEF TypeOK, RowOK, Device
    <3>2. QED
      BY <1>2, <1>4, <3>1 DEF TypeOK
  <2>2. QED
    BY <1>1, <1>2, <1>4, <2>1, AnswerFound DEF TypeOK, RowOK
<1>7. FoundOK'
  BY <1>2, <1>4, AnswerFound
<1>8. HardwareUnique'
  <2>1. \A e \in DOMAIN devices : devices'[e].hardware = devices[e].hardware
    BY <1>4, <1>5
  <2>2. QED
    BY <1>4, <2>1 DEF HardwareUnique
<1>9. ClaimsHold'
  BY <1>2, <1>4, <1>5 DEF ClaimsHold
<1>10. RevokedStaysRevoked'
  BY <1>2, <1>4, <1>5 DEF RevokedStaysRevoked
<1>11. QED
  BY <1>6, <1>7, <1>8, <1>9, <1>10

LEMMA AbandonPairing ==
    ASSUME PairingInductive, NEW r \in Request, Abandon(r)
    PROVE  PairingInductive'
<1> USE DEF PairingInductive
<1>1. Answer(r) /\ UNCHANGED <<devices, claims, raced>>
  BY DEF Abandon
<1>2. TypeOK' /\ FoundOK'
  BY <1>1, AnswerFound DEF TypeOK, RowOK
<1>3. HardwareUnique' /\ ClaimsHold' /\ RevokedStaysRevoked'
  BY <1>1 DEF HardwareUnique, ClaimsHold, RevokedStaysRevoked
<1>4. QED
  BY <1>2, <1>3

LEMMA NextPairing == PairingInductive /\ [Next]_vars => PairingInductive'
<1> SUFFICES ASSUME PairingInductive, [Next]_vars PROVE PairingInductive'
  OBVIOUS
<1>1. CASE UNCHANGED vars
  BY <1>1 DEF vars, PairingInductive, TypeOK, RowOK, FoundOK, HardwareUnique, ClaimsHold,
              RevokedStaysRevoked
<1>2. CASE \E c \in Code : Create(c)
  BY <1>2, CreatePairing
<1>3. ASSUME NEW r \in Request,
             FindByCode(r) \/ FindActive(r) \/ PairDevice(r) \/ Remove(r) \/ Abandon(r)
      PROVE  PairingInductive'
  BY <1>3, FindPairing, PairDevicePairing, RemovePairing, AbandonPairing
<1>4. QED
  BY <1>1, <1>2, <1>3 DEF Next

-----------------------------------------------------------------------------
(* Rows keep their types and the fields that pairDevice and remove set agree, *)
(* and each till that was told so is the one its row names.                  *)
THEOREM PairingInvariant == Spec => []PairingInductive
BY InitPairing, NextPairing, PTL DEF Spec

(* Unless its calls overlapped, the columns of a device fit its status, and   *)
(* no till claims what is not a device.                                      *)
THEOREM PairingTyped == Spec => []TypeOK
<1>1. PairingInductive => TypeOK
  BY DEF PairingInductive
<1>2. QED
  BY <1>1, PairingInvariant, PTL

(* Two tills that pair with one code never both become the device, unless    *)
(* their calls overlapped.                                                   *)
THEOREM PairingOneTill == Spec => []OneTillPerDevice
<1>1. PairingInductive => OneTillPerDevice
  <2> SUFFICES ASSUME PairingInductive, NEW a \in claims, NEW b \in claims,
                      a[2] = b[2], a[2] \notin raced
               PROVE  a = b
    BY DEF OneTillPerDevice
  <2>1. a[1] = b[1]
    BY DEF PairingInductive, ClaimsHold
  <2>2. QED
    BY <2>1 DEF PairingInductive, TypeOK
<1>2. QED
  BY <1>1, PairingInvariant, PTL

(* A device the owner removed does not come back, unless a pairing overlapped *)
(* with the removal.                                                         *)
THEOREM PairingRevoked == Spec => []RevokedStaysRevoked
<1>1. PairingInductive => RevokedStaysRevoked
  BY DEF PairingInductive
<1>2. QED
  BY <1>1, PairingInvariant, PTL

(* A till is at most one device of the merchant, removed ones included.      *)
THEOREM PairingOneDevice == Spec => []OneDevicePerTill
<1>1. PairingInductive => OneDevicePerTill
  <2> SUFFICES ASSUME PairingInductive, NEW a \in claims, NEW b \in claims,
                      a[1] = b[1], {a[2], b[2]} \cap raced = {}
               PROVE  a = b
    BY DEF OneDevicePerTill
  <2>1. /\ a \in Hardware \X Nat /\ b \in Hardware \X Nat
        /\ a[1] # None
    BY NoneAssumption DEF PairingInductive, TypeOK
  <2>2. /\ a[2] \in DOMAIN devices /\ b[2] \in DOMAIN devices
        /\ devices[a[2]].hardware = a[1] /\ devices[b[2]].hardware = b[1]
    BY DEF PairingInductive, ClaimsHold
  <2>3. a[2] = b[2]
    BY <2>1, <2>2 DEF PairingInductive, HardwareUnique
  <2>4. QED
    BY <2>1, <2>3
<1>2. QED
  BY <1>1, PairingInvariant, PTL

-----------------------------------------------------------------------------
(* The pages of a list: CursorPages, for any number of rows, any page size  *)
(* and any number of pages.                                                 *)

PagesTyped ==
    /\ list \in {"transactions", "products"} /\ passes \in {"next_cursor", "last_item"}
    /\ rows \in 0 .. MaxRows
    /\ simultaneous \subseteq 2 .. rows
    /\ matching \subseteq 1 .. rows
    /\ stable \subseteq matching
    /\ limit \in Nat \ {0}
    /\ cursor \in (0 .. rows) \cup {NoCursor}
    /\ pages \in Nat
    /\ returned \in [1 .. MaxRows -> Nat]
    /\ cursor = 0 => pages = 0 /\ \A i \in 1 .. MaxRows : returned[i] = 0

(* Who passes the last item of a page has that row already, and gets it     *)
(* again at the head of the next page of transactions.                      *)
Repeats == list = "transactions" /\ passes = "last_item"
Skips == list = "products" /\ passes = "next_cursor"

(* Of the rows that have an instant of their own, those the next page is    *)
(* past were returned once at most, unless transactions repeat, and the     *)
(* others not at all.                                                       *)
IsPast(i) == Newer(i, cursor) \/ (passes = "last_item" /\ i = cursor)
BeforeCursor ==
    /\ \A i \in 1 .. MaxRows : returned[i] > 0 =>
          /\ i <= rows
          /\ ~Tied(i) => /\ Repeats \/ returned[i] = 1
                         /\ cursor # NoCursor => IsPast(i)
    /\ passes = "last_item" /\ cursor \in 1 .. rows => returned[cursor] > 0

(* The rows the walk has left behind.                                       *)
Behind ==
    {i \in stable : /\ returned[i] = 0 /\ ~Tied(i)
                    /\ cursor # NoCursor => cursor # 0 /\ Newer(i, cursor)}

FewBehind ==
    cursor # 0 /\ ~cut => Cardinality(Behind) <= IF Skips THEN pages - 1 ELSE 0

(* Newer is a strict order whose incomparability is transitive, and a row   *)
(* with an instant of its own is comparable with every other.               *)
LEMMA NewerAsymmetric ==
    ASSUME NEW i \in Nat, NEW j \in Nat, Newer(i, j)
    PROVE  i # j /\ ~Newer(j, i)
BY DEF Newer

LEMMA NewerPasses ==
    ASSUME NEW i \in Nat, NEW j \in Nat, NEW k \in Nat, Newer(i, k)
    PROVE  Newer(i, j) \/ Newer(j, k)
<1>1. i > k
  BY DEF Newer
<1>2. PICK x \in k + 1 .. i : x \notin simultaneous
  BY DEF Newer
<1>3. CASE x <= j
  <2>1. j > k /\ x \in k + 1 .. j
    BY <1>2, <1>3
  <2>2. QED
    BY <1>2, <2>1 DEF Newer
<1>4. CASE x > j
  <2>1. i > j /\ x \in j + 1 .. i
    BY <1>2, <1>4
  <2>2. QED
    BY <1>2, <2>1 DEF Newer
<1>5. QED
  BY <1>2, <1>3, <1>4

LEMMA UntiedCompares ==
    ASSUME NEW i \in Nat, NEW j \in Nat, i # j, ~Tied(i)
    PROVE  Newer(i, j) \/ Newer(j, i)
<1>1. i \notin simultaneous /\ i + 1 \notin simultaneous
  BY DEF Tied
<1>2. CASE i > j
  <2>1. i \in j + 1 .. i
    BY <1>2
  <2>2. QED
    BY <1>1, <1>2, <2>1 DEF Newer
<1>3. CASE j > i
  <2>1. i + 1 \in i + 1 .. j
    BY <1>3
  <2>2. QED
    BY <1>1, <1>3, <2>1 DEF Newer
<1>4. QED
  BY <1>2, <1>3

(* A page holds matching rows, none of them newer than the cursor row.      *)
LEMMA PageRows ==
    ASSUME PagesTyped, NEW P \in FindMany, cursor # NoCursor
    PROVE  P \subseteq matching /\ (cursor # 0 => \A i \in P : ~Newer(i, cursor))
<1>1. PICK S \in From : \E T \in Skip(S) : P \in First(limit + 1, T)
  BY DEF FindMany
<1>2. PICK T \in Skip(S) : P \in First(limit + 1, T)
  BY <1>1
<1>3. P \subseteq T
  BY <1>2 DEF First
<1>4. T \subseteq S
  BY <1>2 DEF Skip
<1>5. S \subseteq matching /\ (cursor # 0 => \A i \in S : ~Newer(i, cursor))
  <2>1. CASE cursor = 0
    BY <2>1 DEF From
  <2>2. CASE cursor # 0
    <3>1. ~Newer(cursor, cursor)
      BY <2>2, NewerAsymmetric DEF PagesTyped
    <3>2. QED
      BY <2>2, <3>1 DEF From
  <2>3. QED
    BY <2>1, <2>2
<1>6. QED
  BY <1>3, <1>4, <1>5

(* The last of some rows is not newer than any of them.                     *)
LEMMA LastFacts ==
    ASSUME NEW P, P \subseteq Nat, cursor \in Nat, NEW i \in Last(P)
    PROVE  i \in P /\ \A j \in P : ~Newer(i, j)
<1>1. CASE P \subseteq {cursor}
  <2>1. i \in P /\ \A j \in P : j = i
    BY <1>1 DEF Last
  <2>2. ~Newer(i, i)
    BY <2>1, NewerAsymmetric
  <2>3. QED
    BY <2>1, <2>2
<1>2. CASE ~(P \subseteq {cursor})
  BY <1>2 DEF Last
<1>3. QED
  BY <1>1, <1>2

(* The row popped off a page and the row the next page starts from, if      *)
(* there is one.                                                            *)
LEMMA NextFacts ==
    ASSUME PagesTyped, cursor # NoCursor, NEW P \in FindMany, NEW extra \in Extra(P),
           NEW next \in Passed(P, extra)
    PROVE  \/ extra = NoCursor /\ next = NoCursor /\ Cardinality(P) <= limit
           \/ /\ extra \in P /\ \A j \in P : ~Newer(extra, j)
              /\ next \in P /\ next \in 1 .. rows /\ next \in Nat /\ next # NoCursor
              /\ \A j \in P \ {extra} : ~Newer(next, j)
              /\ ~Newer(extra, next)
              /\ IF passes = "next_cursor" THEN next = extra ELSE next \in P \ {extra}
<1>1. P \subseteq 1 .. rows /\ P \subseteq Nat /\ rows \in Nat /\ cursor \in Nat
  <2>1. P \subseteq matching
    BY PageRows
  <2>2. matching \subseteq 1 .. rows /\ rows \in Nat /\ cursor \in (0 .. rows) \cup {NoCursor}
    BY DEF PagesTyped
  <2>3. P \subseteq 1 .. rows
    BY <2>1, <2>2
  <2>4. QED
    BY <2>2, <2>3
<1>2. NoCursor \notin Nat
  BY BoundsAssumption
<1>3. CASE Cardinality(P) <= limit
  BY <1>3 DEF Extra, Passed
<1>4. CASE ~(Cardinality(P) <= limit)
  <2>1. extra \in P /\ \A j \in P : ~Newer(extra, j)
    <3>1. extra \in Last(P)
      BY <1>4 DEF Extra
    <3>2. QED
      BY <1>1, <3>1, LastFacts
  <2>2. extra # NoCursor
    BY <1>1, <1>2, <2>1
  <2>3. CASE passes = "next_cursor"
    <3>1. next = extra
      BY <2>3 DEF Passed
    <3>2. QED
      BY <1>1, <1>2, <2>1, <2>3, <3>1
  <2>4. CASE passes # "next_cursor"
    <3>1. next \in Last(P \ {extra})
      BY <2>2, <2>4 DEF Passed
    <3>2. P \ {extra} \subseteq Nat
      BY <1>1
    <3>3. next \in P \ {extra} /\ \A j \in P \ {extra} : ~Newer(next, j)
      BY <1>1, <3>1, <3>2, LastFacts
    <3>4. QED
      BY <1>1, <1>2, <2>1, <2>4, <3>3
  <2>5. QED
    BY <2>3, <2>4
<1>5. QED
  BY <1>3, <1>4

-----------------------------------------------------------------------------
(* Each step keeps what the walk has returned before its cursor and what it *)
(* has left behind.  Rows that come or change leave the order of the others *)
(* alone.                                                                   *)

LEMMA InitPages ==
    ASSUME PagesInit
    PROVE  PagesTyped /\ BeforeCursor /\ FewBehind
<1>1. PagesTyped
  <2>1. list \in {"transactions", "products"} /\ passes \in {"next_cursor", "last_item"}
    BY BoundsAssumption DEF PagesInit, Lists
  <2>2. /\ rows \in 0 .. MaxRows /\ simultaneous \subseteq 2 .. rows
        /\ matching \subseteq 1 .. rows /\ stable \subseteq matching
        /\ limit \in Nat \ {0} /\ cursor = 0 /\ pages = 0
        /\ returned = [i \in 1 .. MaxRows |-> 0]
    BY BoundsAssumption DEF PagesInit, Row
  <2>3. cursor \in (0 .. rows) \cup {NoCursor} /\ returned \in [1 .. MaxRows -> Nat]
    BY <2>2, BoundsAssumption
  <2>4. QED
    BY <2>1, <2>2, <2>3 DEF PagesTyped
<1>2. BeforeCursor /\ FewBehind
  BY BoundsAssumption DEF PagesInit, Row, BeforeCursor, FewBehind
<1>3. QED
  BY <1>1, <1>2

(* Between two pages, rows appear or drop out.                              *)
LEMMA WalkKept ==
    ASSUME PagesTyped, BeforeCursor, FewBehind, PagesTyped',
           UNCHANGED <<list, passes, cursor, pages, returned, cut>>,
           rows \in 0 .. rows', stable' \subseteq stable,
           \A i \in 1 .. rows : Tied(i) => Tied(i)',
           \A i, j \in 0 .. rows : Newer(i, j)' <=> Newer(i, j)
    PROVE  BeforeCursor' /\ FewBehind'
<1>1. /\ rows \in Nat /\ rows' \in Nat /\ stable \subseteq 1 .. rows
      /\ cursor \in (0 .. rows) \cup {NoCursor}
  BY DEF PagesTyped
<1>2. BeforeCursor'
  <2>1. ASSUME NEW i \in 1 .. MaxRows, returned[i] > 0
        PROVE  /\ i <= rows'
               /\ ~Tied(i)' => /\ Repeats \/ returned[i] = 1
                               /\ cursor # NoCursor =>
                                     Newer(i, cursor)' \/ (passes = "last_item" /\ i = cursor)
    <3>1. i \in 1 .. rows
      BY <1>1, <2>1 DEF BeforeCursor, PagesTyped
    <3>2. ~Tied(i)' => /\ Repeats \/ returned[i] = 1
                       /\ cursor # NoCursor => IsPast(i)
      BY <2>1, <3>1 DEF BeforeCursor
    <3>3. cursor # NoCursor => (Newer(i, cursor)' <=> Newer(i, cursor))
      BY <1>1, <3>1
    <3>4. QED
      BY <1>1, <3>1, <3>2, <3>3 DEF IsPast
  <2>2. passes = "last_item" /\ cursor \in 1 .. rows' => returned[cursor] > 0
    <3>1. NoCursor \notin Nat
      BY BoundsAssumption
    <3>2. cursor \in 1 .. rows' => cursor \in 1 .. rows
      BY <1>1, <3>1
    <3>3. QED
      BY <3>2 DEF BeforeCursor
  <2>3. QED
    BY <2>1, <2>2 DEF BeforeCursor, IsPast, Repeats
<1>3. Behind' \subseteq Behind
  <2> SUFFICES ASSUME NEW i \in Behind' PROVE i \in Behind
    OBVIOUS
  <2>1. /\ i \in stable /\ i \in 1 .. rows /\ returned[i] = 0 /\ ~Tied(i)'
        /\ cursor # NoCursor => cursor # 0 /\ Newer(i, cursor)'
    BY <1>1 DEF Behind
  <2>2. cursor # NoCursor => (Newer(i, cursor)' <=> Newer(i, cursor))
    BY <1>1, <2>1
  <2>3. QED
    BY <2>1, <2>2 DEF Behind
<1>4. IsFiniteSet(Behind) /\ Behind' \in SUBSET Behind
  <2>1. IsFiniteSet(1 .. rows)
    BY <1>1, FS_Interval
  <2>2. Behind \subseteq stable
    BY DEF Behind
  <2>3. Behind \in SUBSET (1 .. rows)
    BY <1>1, <2>2
  <2>4. QED
    BY <1>3, <2>1, <2>3, FS_Subset
<1>5. /\ Cardinality(Behind') <= Cardinality(Behind)
      /\ Cardinality(Behind') \in Nat /\ Cardinality(Behind) \in Nat
  BY <1>4, FS_Subset, FS_CardinalityType
<1>6. Cardinality(Behind)' = Cardinality(Behind')
  OBVIOUS
<1>7. QED
  BY <1>2, <1>5, <1>6 DEF FewBehind, Skips, PagesTyped

LEMMA CreatePages ==
    ASSUME PagesTyped, BeforeCursor, FewBehind, CreateRow
    PROVE  PagesTyped' /\ BeforeCursor' /\ FewBehind'
<1>1. /\ rows' = rows + 1 /\ rows < MaxRows
      /\ matching' = matching \cup {rows + 1}
      /\ \/ simultaneous' = simultaneous
         \/ rows > 0 /\ simultaneous' = simultaneous \cup {rows + 1}
      /\ UNCHANGED <<stable, list, passes, limit, cursor, pages, returned, cut>>
  BY DEF CreateRow, walk
<1>2. rows \in Nat /\ MaxRows \in Nat
  BY BoundsAssumption DEF PagesTyped
<1>3. PagesTyped'
  <2>1. rows' \in 0 .. MaxRows /\ 2 .. rows \subseteq 2 .. rows' /\ 1 .. rows \subseteq 1 .. rows'
    BY <1>1, <1>2
  <2>2. rows + 1 \in 1 .. rows' /\ (rows > 0 => rows + 1 \in 2 .. rows')
    BY <1>1, <1>2
  <2>3. simultaneous' \subseteq 2 .. rows'
    BY <1>1, <2>1, <2>2 DEF PagesTyped
  <2>4. matching' \subseteq 1 .. rows' /\ stable' \subseteq matching'
    BY <1>1, <2>1, <2>2 DEF PagesTyped
  <2>5. cursor' \in (0 .. rows') \cup {NoCursor}
    BY <1>1, <1>2 DEF PagesTyped
  <2>6. QED
    BY <1>1, <2>1, <2>3, <2>4, <2>5 DEF PagesTyped
<1>4. \A i \in 1 .. rows : i \in simultaneous' <=> i \in simultaneous
  BY <1>1, <1>2
<1>5. \A i \in 1 .. rows : Tied(i) => Tied(i)'
  BY <1>1 DEF Tied
<1>6. ASSUME NEW i \in 0 .. rows, NEW j \in 0 .. rows
      PROVE  Newer(i, j)' <=> Newer(i, j)
  <2>1. j + 1 .. i \subseteq 1 .. rows
    BY <1>2
  <2>2. (j + 1 .. i \subseteq simultaneous') <=> (j + 1 .. i \subseteq simultaneous)
    BY <1>4, <2>1
  <2>3. QED
    BY <2>2 DEF Newer
<1>7. rows \in 0 .. rows'
  BY <1>1, <1>2
<1>8. QED
  BY <1>1, <1>3, <1>5, <1>6, <1>7, WalkKept

LEMMA ChangePages ==
    ASSUME PagesTyped, BeforeCursor, FewBehind, NEW i \in Row, Change(i)
    PROVE  PagesTyped' /\ BeforeCursor' /\ FewBehind'
<1>1. /\ i \in 1 .. rows
      /\ matching' \in {matching \cup {i}, matching \ {i}} /\ stable' = stable \ {i}
      /\ UNCHANGED <<rows, simultaneous, list, passes, limit, cursor, pages, returned, cut>>
  BY DEF Change, walk, Row, PagesTyped
<1>2. PagesTyped'
  <2>1. matching' \subseteq 1 .. rows /\ stable' \subseteq matching'
    BY <1>1 DEF PagesTyped
  <2>2. QED
    BY <1>1, <2>1 DEF PagesTyped
<1>3. /\ \A j \in 1 .. rows : Tied(j) => Tied(j)'
      /\ \A j, k \in 0 .. rows : Newer(j, k)' <=> Newer(j, k)
  BY <1>1 DEF Tied, Newer
<1>4. rows \in 0 .. rows' /\ stable' \subseteq stable
  BY <1>1 DEF PagesTyped
<1>5. QED
  BY <1>1, <1>2, <1>3, <1>4, WalkKept

(* What a page returns: its rows, but the one that becomes the cursor.      *)
LEMMA PageReturns ==
    ASSUME PagesTyped, NEW P, P \subseteq matching, NEW extra,
           returned' = [i \in Row |->
              IF i \in P \ {extra} THEN returned[i] + 1 ELSE returned[i]]
    PROVE  /\ returned' \in [1 .. MaxRows -> Nat]
           /\ \A i \in 1 .. MaxRows :
                 returned'[i] = IF i \in P \ {extra} THEN returned[i] + 1 ELSE returned[i]
BY DEF PagesTyped, Row

LEMMA PageTyped ==
    ASSUME PagesTyped, cursor # NoCursor,
           NEW P \in FindMany, NEW extra \in Extra(P), NEW next \in Passed(P, extra),
           Turn(next), returned' \in [1 .. MaxRows -> Nat]
    PROVE  PagesTyped'
<1>1. next \in (1 .. rows) \cup {NoCursor}
  BY NextFacts
<1>2. 0 \notin 1 .. rows /\ NoCursor # 0 /\ pages + 1 \in Nat
  BY BoundsAssumption DEF PagesTyped
<1>3. cursor' \in (0 .. rows) \cup {NoCursor} /\ cursor' # 0
  BY <1>1, <1>2 DEF Turn, PagesTyped
<1>4. QED
  BY <1>2, <1>3 DEF PagesTyped, Turn

(* With skip: 1 no page holds its cursor row.                               *)
LEMMA SkippedCursor ==
    ASSUME PagesTyped, list = "products", cursor # 0, NEW P \in FindMany
    PROVE  cursor \notin P
<1>1. PICK S \in From : \E T \in Skip(S) : P \in First(limit + 1, T)
  BY DEF FindMany
<1>2. PICK T \in Skip(S) : P \in First(limit + 1, T)
  BY <1>1
<1>3. P \subseteq T
  BY <1>2 DEF First
<1>4. cursor \notin T
  BY <1>2 DEF Skip
<1>5. QED
  BY <1>3, <1>4

LEMMA PageBeforeCursor ==
    ASSUME PagesTyped, BeforeCursor, cursor # NoCursor,
           NEW P \in FindMany, NEW extra \in Extra(P), NEW next \in Passed(P, extra),
           Turn(next),
           returned' = [i \in Row |->
              IF i \in P \ {extra} THEN returned[i] + 1 ELSE returned[i]]
    PROVE  BeforeCursor'
<1>1. P \subseteq matching /\ (cursor # 0 => \A j \in P : ~Newer(j, cursor))
  BY PageRows
<1>2. /\ rows \in Nat /\ cursor \in Nat /\ MaxRows \in Nat /\ rows <= MaxRows
      /\ matching \subseteq 1 .. rows /\ passes \in {"next_cursor", "last_item"}
      /\ list \in {"transactions", "products"}
  BY BoundsAssumption DEF PagesTyped
<1>3. \A i \in 1 .. MaxRows : 
         /\ returned[i] \in Nat /\ (cursor = 0 => returned[i] = 0)
         /\ returned'[i] = IF i \in P \ {extra} THEN returned[i] + 1 ELSE returned[i]
  BY <1>1, PageReturns DEF PagesTyped
<1> DEFINE Before(i) == Newer(i, next) \/ (passes = "last_item" /\ i = next)
<1>4. ASSUME NEW i \in 1 .. MaxRows, returned'[i] > 0
      PROVE  /\ i <= rows
             /\ ~Tied(i) => (Repeats \/ returned'[i] = 1) /\ (next # NoCursor => Before(i))
  <2>1. CASE returned[i] = 0
    <3>1. i \in P \ {extra} /\ i \in 1 .. rows /\ returned'[i] = 1
      BY <1>1, <1>2, <1>3, <1>4, <2>1
    <3>2. ASSUME ~Tied(i), next # NoCursor PROVE Before(i)
      <4>1. /\ next \in Nat /\ ~Newer(next, i)
            /\ IF passes = "next_cursor" THEN next = extra ELSE next \in P \ {extra}
        BY <3>1, <3>2, NextFacts
      <4>2. CASE i = next
        BY <1>2, <3>1, <4>1, <4>2
      <4>3. CASE i # next
        BY <3>1, <3>2, <4>1, <4>3, UntiedCompares
      <4>4. QED
        BY <4>2, <4>3
    <3>3. QED
      BY <1>2, <3>1, <3>2
  <2>2. CASE returned[i] > 0
    <3>1. i <= rows /\ cursor # 0 /\ i \in Nat
      BY <1>3, <2>2 DEF BeforeCursor
    <3>2. ASSUME ~Tied(i)
          PROVE  (Repeats \/ returned'[i] = 1) /\ (next # NoCursor => Before(i))
      <4>1. (Repeats \/ returned[i] = 1) /\ IsPast(i)
        BY <2>2, <3>2 DEF BeforeCursor
      <4>2. Repeats \/ i \notin P
        <5>1. CASE Newer(i, cursor)
          BY <1>1, <3>1, <5>1
        <5>2. CASE passes = "last_item" /\ i = cursor /\ ~Repeats
          BY <1>2, <3>1, <5>2, SkippedCursor DEF Repeats
        <5>3. QED
          BY <4>1, <5>1, <5>2 DEF IsPast
      <4>3. ASSUME next # NoCursor PROVE Before(i)
        <5>1. next \in Nat /\ ~Newer(next, cursor)
          BY <1>1, <3>1, <4>3, NextFacts
        <5>2. CASE Newer(i, cursor)
          BY <1>2, <3>1, <5>1, <5>2, NewerPasses
        <5>3. CASE passes = "last_item" /\ i = cursor
          <6>1. CASE next = cursor
            BY <5>3, <6>1
          <6>2. CASE next # cursor
            BY <3>1, <3>2, <5>1, <5>3, <6>2, UntiedCompares
          <6>3. QED
            BY <6>1, <6>2
        <5>4. QED
          BY <4>1, <5>2, <5>3 DEF IsPast
      <4>4. QED
        BY <1>3, <4>1, <4>2, <4>3
    <3>3. QED
      BY <3>1, <3>2
  <2>3. returned[i] \in Nat
    BY <1>3
  <2> HIDE DEF Before
  <2>4. QED
    BY <2>1, <2>2, <2>3
<1>5. ASSUME passes = "last_item", next \in 1 .. rows PROVE returned'[next] > 0
  <2>1. next # NoCursor
    BY <1>5, BoundsAssumption
  <2>2. next \in P \ {extra} /\ next \in 1 .. MaxRows
    BY <1>2, <1>5, <2>1, NextFacts
  <2>3. QED
    BY <1>3, <2>2
<1> HIDE DEF Before
<1>6. ASSUME NEW i \in 1 .. MaxRows PROVE (IsPast(i)' <=> Before(i)) /\ (Tied(i)' <=> Tied(i))
  BY DEF Turn, IsPast, Before, Tied, Newer
<1>7. QED
  BY <1>4, <1>5, <1>6 DEF BeforeCursor, Turn, Repeats

(* A page whose cursor row still matches leaves out, of the rows before its *)
(* last one, only what it starts behind, and in the products its cursor.    *)
LEMMA PageLeavesOut ==
    ASSUME PagesTyped, cursor # NoCursor, cursor \in matching \cup {0},
           NEW P \in FindMany, NEW extra \in Extra(P), NEW next \in Passed(P, extra),
           NEW i \in matching, ~Tied(i), i \notin P,
           next # NoCursor => Newer(i, next)
    PROVE  cursor # 0 /\ (Newer(i, cursor) \/ (i = cursor /\ list = "products"))
<1> SUFFICES ASSUME cursor = 0 \/ (~Newer(i, cursor) /\ ~(i = cursor /\ list = "products"))
             PROVE  FALSE
  OBVIOUS
<1>1. /\ rows \in Nat /\ cursor \in Nat /\ limit \in Nat /\ matching \subseteq 1 .. rows
      /\ i \in Nat \ {0} /\ list \in {"transactions", "products"}
  BY DEF PagesTyped
<1>2. PICK S \in From : \E T \in Skip(S) : P \in First(limit + 1, T)
  BY DEF FindMany
<1>3. PICK T \in Skip(S) : P \in First(limit + 1, T)
  BY <1>2
<1>4. list = "products" \/ cursor \notin matching \/ cursor \in P
  BY DEF FindMany
<1>5. i # cursor
  BY <1>1, <1>4
<1>6. cursor # 0 => cursor \in S /\ cursor \in matching
  BY DEF From
<1>7. i \in S
  <2>1. CASE cursor = 0
    BY <2>1 DEF From
  <2>2. CASE cursor # 0
    <3>1. Newer(cursor, i) /\ ~Newer(i, cursor)
      BY <1>1, <1>5, <2>2, UntiedCompares
    <3>2. i \in {j \in {k \in matching \ {cursor} : ~Newer(k, cursor)} :
                   Newer(cursor, j)}
      BY <1>5, <3>1
    <3>3. QED
      BY <1>6, <2>2, <3>2 DEF From
  <2>3. QED
    BY <2>1, <2>2
<1>8. i \in T
  BY <1>5, <1>6, <1>7 DEF Skip
<1>9. S \subseteq matching
  BY <1>6 DEF From
<1>10. T \subseteq S
  BY DEF Skip
<1>11. IsFiniteSet(T)
  <2>1. IsFiniteSet(1 .. rows)
    BY <1>1, FS_Interval
  <2>2. T \in SUBSET (1 .. rows)
    BY <1>1, <1>9, <1>10
  <2>3. QED
    BY <2>1, <2>2, FS_Subset
<1>12. /\ P \in SUBSET T
       /\ Cardinality(P) = IF Cardinality(T) < limit + 1 THEN Cardinality(T) ELSE limit + 1
       /\ \A a \in P, b \in T \ P : ~Newer(b, a)
  BY <1>3 DEF First
<1>13. CASE next = NoCursor
  <2>1. Cardinality(P) <= limit
    BY <1>1, <1>13, NextFacts, BoundsAssumption
  <2>2. Cardinality(T) \in Nat
    BY <1>11, FS_CardinalityType
  <2>3. Cardinality(P) = Cardinality(T)
    BY <1>1, <1>12, <2>1, <2>2
  <2>4. P = T
    BY <1>11, <1>12, <2>3, FS_Subset
  <2>5. QED
    BY <1>8, <2>4
<1>14. CASE next # NoCursor
  <2>1. next \in P /\ Newer(i, next)
    BY <1>14, NextFacts
  <2>2. QED
    BY <1>8, <1>12, <2>1
<1>15. QED
  BY <1>13, <1>14

LEMMA PageFewBehind ==
    ASSUME PagesTyped, BeforeCursor, FewBehind, cursor # NoCursor,
           NEW P \in FindMany, NEW extra \in Extra(P), NEW next \in Passed(P, extra),
           Turn(next),
           returned' = [i \in Row |->
              IF i \in P \ {extra} THEN returned[i] + 1 ELSE returned[i]]
    PROVE  FewBehind'
<1> SUFFICES ASSUME ~cut'
             PROVE  Cardinality(Behind') <= IF Skips THEN pages' - 1 ELSE 0
  <2>1. Cardinality(Behind)' = Cardinality(Behind')
    OBVIOUS
  <2>2. QED
    BY <2>1 DEF FewBehind, Skips, Turn
<1>1. /\ ~cut /\ cursor \in matching \cup {0}
      /\ UNCHANGED <<rows, simultaneous, matching, stable, list, passes, limit>>
      /\ cursor' = next /\ pages' = pages + 1
  BY DEF Turn
<1>2. /\ pages \in Nat /\ rows \in Nat /\ stable \subseteq matching /\ matching \subseteq 1 .. rows
      /\ rows <= MaxRows /\ MaxRows \in Nat /\ (cursor = 0 => pages = 0)
      /\ \A i \in 1 .. MaxRows : returned[i] \in Nat
  BY BoundsAssumption DEF PagesTyped
<1>3. ASSUME NEW i \in Behind'
      PROVE  cursor # 0 /\ (i \in Behind \/ (i = cursor /\ Skips))
  <2>1. /\ i \in stable /\ returned'[i] = 0 /\ ~Tied(i)
        /\ next # NoCursor => next # 0 /\ Newer(i, next)
    BY <1>1 DEF Behind, Tied, Newer
  <2>2. i \in 1 .. MaxRows
    BY <1>2, <2>1
  <2>3. returned'[i] = IF i \in P \ {extra} THEN returned[i] + 1 ELSE returned[i]
    BY <2>2 DEF Row
  <2>4. i # extra
    <3>1. next = NoCursor => extra = NoCursor
      BY BoundsAssumption, NextFacts
    <3>2. next # NoCursor => ~Newer(extra, next)
      BY NextFacts
    <3>3. i # NoCursor
      BY <2>2, BoundsAssumption
    <3>4. QED
      BY <2>1, <3>1, <3>2, <3>3
  <2>5. i \notin P /\ returned[i] = 0
    BY <1>2, <2>1, <2>2, <2>3, <2>4
  <2>6. cursor # 0 /\ (Newer(i, cursor) \/ (i = cursor /\ list = "products"))
    BY <1>1, <1>2, <2>1, <2>5, PageLeavesOut
  <2>7. i = cursor => passes = "next_cursor"
    <3>1. passes \in {"next_cursor", "last_item"} /\ i \in 1 .. rows
      BY <1>2, <2>1 DEF PagesTyped
    <3>2. QED
      BY <2>2, <2>5, <3>1 DEF BeforeCursor
  <2>8. QED
    BY <2>1, <2>5, <2>6, <2>7 DEF Behind, Skips
<1>4. IsFiniteSet(Behind)
  <2>1. IsFiniteSet(1 .. rows)
    BY <1>2, FS_Interval
  <2>2. Behind \subseteq stable
    BY DEF Behind
  <2>3. Behind \in SUBSET (1 .. rows)
    BY <1>2, <2>2
  <2>4. QED
    BY <2>1, <2>3, FS_Subset
<1>5. Cardinality(Behind) \in Nat
  BY <1>4, FS_CardinalityType
<1>6. CASE cursor = 0
  <2>1. Behind' = {}
    BY <1>3, <1>6
  <2>2. Cardinality(Behind') = 0
    BY <2>1, FS_EmptySet
  <2>3. QED
    BY <1>1, <1>2, <2>2
<1>7. CASE cursor # 0 /\ Skips
  <2>1. Behind' \in SUBSET (Behind \cup {cursor})
    BY <1>3
  <2>2. /\ IsFiniteSet(Behind \cup {cursor})
        /\ Cardinality(Behind \cup {cursor}) \in {Cardinality(Behind), Cardinality(Behind) + 1}
    BY <1>4, FS_AddElement
  <2>3. IsFiniteSet(Behind') /\ Cardinality(Behind') <= Cardinality(Behind \cup {cursor})
    BY <2>1, <2>2, FS_Subset
  <2>4. Cardinality(Behind') \in Nat
    BY <2>3, FS_CardinalityType
  <2>5. Cardinality(Behind) <= pages - 1
    BY <1>1, <1>7 DEF FewBehind
  <2>6. Cardinality(Behind') <= Cardinality(Behind) + 1
    BY <1>5, <2>2, <2>3, <2>4
  <2>7. QED
    BY <1>1, <1>2, <1>5, <1>7, <2>4, <2>5, <2>6
<1>8. CASE cursor # 0 /\ ~Skips
  <2>1. Behind' \in SUBSET Behind
    BY <1>3, <1>8
  <2>2. IsFiniteSet(Behind') /\ Cardinality(Behind') <= Cardinality(Behind)
    BY <1>4, <2>1, FS_Subset
  <2>3. Cardinality(Behind') \in Nat
    BY <2>2, FS_CardinalityType
  <2>4. Cardinality(Behind) <= 0
    BY <1>1, <1>8 DEF FewBehind
  <2>5. QED
    BY <1>1, <1>5, <1>8, <2>2, <2>3, <2>4
<1>9. QED
  BY <1>6, <1>7, <1>8

LEMMA FindAllPages ==
    ASSUME PagesTyped, BeforeCursor, FewBehind, FindAll
    PROVE  PagesTyped' /\ BeforeCursor' /\ FewBehind'
<1>1. cursor # NoCursor
  BY DEF FindAll
<1>2. PICK P \in FindMany : \E extra \in Extra(P) :
         /\ returned' = [i \in Row |->
               IF i \in P \ {extra} THEN returned[i] + 1 ELSE returned[i]]
         /\ \E next \in Passed(P, extra) : Turn(next)
  BY DEF FindAll
<1>3. PICK extra \in Extra(P) :
         /\ returned' = [i \in Row |->
               IF i \in P \ {extra} THEN returned[i] + 1 ELSE returned[i]]
         /\ \E next \in Passed(P, extra) : Turn(next)
  BY <1>2
<1>4. PICK next \in Passed(P, extra) : Turn(next)
  BY <1>3
<1>5. P \subseteq matching
  BY <1>1, PageRows
<1>6. PagesTyped'
  BY <1>1, <1>3, <1>4, <1>5, PageReturns, PageTyped
<1>7. QED
  BY <1>1, <1>3, <1>4, <1>6, PageBeforeCursor, PageFewBehind

(* The inductive invariant of the walk.                                     *)
PagesInductive == PagesTyped /\ BeforeCursor /\ FewBehind

LEMMA NextPages ==
    ASSUME PagesInductive, [PagesNext]_pagesVars
    PROVE  PagesInductive'
<1>1. CASE FindAll
  BY <1>1, FindAllPages DEF PagesInductive
<1>2. CASE CreateRow
  BY <1>2, CreatePages DEF PagesInductive
<1>3. CASE \E i \in Row : Change(i)
  BY <1>3, ChangePages DEF PagesInductive
<1>4. CASE UNCHANGED pagesVars
  BY <1>4 DEF pagesVars, walk, PagesInductive, PagesTyped, BeforeCursor, IsPast, Repeats,
     FewBehind, Skips, Behind, Tied, Newer
<1>5. QED
  BY <1>1, <1>2, <1>3, <1>4 DEF PagesNext

(* At every moment of a walk the rows returned lie before its cursor, and   *)
(* the rows it has left behind are as few as the list and the cursor allow. *)
THEOREM PagesInvariant == PagesSpec => []PagesInductive
<1>1. PagesInit => PagesInductive
  BY InitPages DEF PagesInductive
<1>2. PagesInductive /\ [PagesNext]_pagesVars => PagesInductive'
  BY NextPages
<1>3. QED
  BY <1>1, <1>2, PTL DEF PagesSpec

(* A client that passes next_cursor, or reads the products by the last item *)
(* of each page, never gets a row on two pages, whatever is created or      *)
(* changes between the pages; rows created in one instant are exempt, and   *)
(* so are transactions read by the last item, which do come twice.          *)
THEOREM PagesNoneTwice == PagesSpec => []NoneTwice
<1>1. PagesInductive => NoneTwice
  <2> SUFFICES ASSUME PagesInductive, NEW i \in 1 .. MaxRows, returned[i] > 1,
                      ~Tied(i), ~Repeats
               PROVE  FALSE
    BY DEF NoneTwice, Repeats, Row
  <2>1. returned[i] \in Nat
    BY DEF PagesInductive, PagesTyped
  <2>2. returned[i] = 1
    BY <2>1 DEF PagesInductive, BeforeCursor
  <2>3. QED
    BY <2>2
<1>2. QED
  BY <1>1, PagesInvariant, PTL

(* A walk to the end whose cursor rows kept matching has returned every row *)
(* that matched throughout and has an instant of its own; only a walk over  *)
(* the products by next_cursor misses some, no more than it turned pages.   *)
(* Nothing is said of rows created in one instant, nor of a walk whose      *)
(* cursor row left the filter.                                              *)
THEOREM PagesNoneSkipped == PagesSpec => []NoneSkipped
<1>1. PagesInductive => NoneSkipped
  <2> SUFFICES ASSUME PagesInductive, cursor = NoCursor, ~cut
               PROVE  Cardinality(Missed) <= IF Skips THEN pages - 1 ELSE 0
    BY DEF NoneSkipped, Skips
  <2>1. Missed = Behind
    BY DEF Missed, Behind
  <2>2. cursor # 0
    BY BoundsAssumption
  <2>3. QED
    BY <2>1, <2>2 DEF PagesInductive, FewBehind
<1>2. QED
  BY <1>1, PagesInvariant, PTL

=============================================================================
