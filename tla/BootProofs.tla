----------------------------- MODULE BootProofs -----------------------------
(***************************************************************************)
(* The enumeration of the bus and the FAT driver, for every bus and volume *)
(* that the assumptions admit, and paths and chains of any length.         *)
(*                                                                         *)
(* The first part is about Pci: the invariant says what the loops have     *)
(* listed by the place that their counters have reached.  The second is    *)
(* about Fat: what the definitions without loops (Chain, Items, Reached)   *)
(* say of a volume, then the invariants of the driver's loops.  LoopInv    *)
(* keeps them in the chain, the buffer and the directory, and is enough    *)
(* for the types and for reads; FatInv adds what has been found of a path. *)
(***************************************************************************)
EXTENDS Boot, FiniteSetTheorems, WellFoundedInduction, TLAPS

\* No loop has ended before the place that dev and func name; in the loop over
\* devices there is no func yet.
Func == IF enumeration = "functions" THEN func ELSE 0

PassesDevices == \A d \in 0 .. dev - 1 : ~ EndsLoop(<<d, 0>>)
PassesFunctions ==
  enumeration = "functions" =>
    /\ ~ EndsLoop(<<dev, 0>>)
    /\ \A f \in 0 .. func - 1 : ~ EndsLoop(<<dev, f>>)

Counters ==
  /\ bus \in Buses
  /\ enumeration \in {"devices", "functions", "complete", "halted"}
  /\ dev \in 0 .. Devices /\ func \in 0 .. Functions
  /\ pci_dev_list \in Seq([place : DOMAIN bus, header : {bus[p] : p \in DOMAIN bus}])

\* The list has what is in reach before that place.
ListsPassed ==
  /\ \A i \in 1 .. Len(pci_dev_list) :
       pci_dev_list[i].place \in InReach /\ Before(pci_dev_list[i].place, <<dev, Func>>)
  /\ \A p \in InReach :
       Before(p, <<dev, Func>>) => \E i \in 1 .. Len(pci_dev_list) : pci_dev_list[i].place = p
  /\ \A i, j \in 1 .. Len(pci_dev_list) : i < j => Before(pci_dev_list[i].place, pci_dev_list[j].place)

\* The list has what is in reach, and that is what the property says of it.
Reaches ==
  /\ enumeration = "complete" =>
       /\ {pci_dev_list[i].place : i \in 1 .. Len(pci_dev_list)} = InReach
       /\ \A i, j \in 1 .. Len(pci_dev_list) :
            i < j => Before(pci_dev_list[i].place, pci_dev_list[j].place)
  /\ enumeration = "halted" =>
       \/ (0 .. Devices - 1) \X {0} \subseteq InReach
       \/ \E d \in 0 .. Devices - 1 : {d} \X (0 .. Functions - 1) \subseteq InReach

OwnHeaders ==
  \A i \in 1 .. Len(pci_dev_list) : pci_dev_list[i].header = bus[pci_dev_list[i].place]

EnumerationInv ==
  /\ Counters /\ OwnHeaders
  /\ enumeration # "halted" =>
       /\ enumeration = "functions" => dev < Devices
       /\ PassesDevices /\ PassesFunctions /\ ListsPassed
  /\ enumeration = "complete" => EndsLoop(<<dev, 0>>)
  /\ Reaches
-----------------------------------------------------------------------------
\* A place where no loop ends has a function.
LEMMA PlaceFacts ==
  ASSUME Counters
  PROVE  /\ \A d, f : ~ EndsLoop(<<d, f>>) => <<d, f>> \in DOMAIN bus
         /\ \A p \in DOMAIN bus :
              /\ p = <<p[1], p[2]>>
              /\ p[1] \in 0 .. Devices - 1 /\ p[2] \in 0 .. Functions - 1
<1>1. NoVendor % 2 = 1
  BY DEF NoVendor
<1>2. \A p \in DOMAIN bus : p \in (0 .. Devices - 1) \X (0 .. Functions - 1)
  BY PciAssumption DEF Counters
<1> QED
  BY <1>1, <1>2 DEF EndsLoop, Vendor

LEMMA InitEnumeration == PciInit => EnumerationInv
<1> SUFFICES ASSUME PciInit PROVE EnumerationInv
  OBVIOUS
<1>1. Counters
  BY PciAssumption DEF PciInit, Counters
<1>2. \A p \in InReach : ~ Before(p, <<0, 0>>)
  <2>1. \A p \in DOMAIN bus : p[1] \in Nat /\ p[2] \in Nat
    BY <1>1, PlaceFacts
  <2> QED
    BY <2>1 DEF InReach, Before
<1> QED
  BY <1>1, <1>2, PciAssumption
  DEF PciInit, EnumerationInv, PassesDevices, PassesFunctions, ListsPassed, Func, Reaches, OwnHeaders

LEMMA NextDeviceStep == ASSUME EnumerationInv, NextDevice PROVE EnumerationInv'
<1>1. /\ enumeration = "devices" /\ dev \in 0 .. Devices - 1
      /\ bus' = bus /\ pci_dev_list' = pci_dev_list /\ dev' = dev
      /\ enumeration' \in {"complete", "functions"}
      /\ enumeration' = "complete" => EndsLoop(<<dev, 0>>) /\ func' = func
      /\ enumeration' = "functions" => ~ EndsLoop(<<dev, 0>>) /\ func' = 0
  BY PciAssumption DEF EnumerationInv, Counters, NextDevice
<1>2. Counters' /\ OwnHeaders'
  BY <1>1, PciAssumption DEF EnumerationInv, Counters, OwnHeaders
<1>3. InReach' = InReach /\ \A p : EndsLoop(p)' <=> EndsLoop(p)
  BY <1>1 DEF InReach, EndsLoop, Vendor
<1>4. Func = 0 /\ Func' = 0
  BY <1>1 DEF Func
<1>5. PassesDevices' /\ PassesFunctions'
  BY <1>1, <1>3 DEF EnumerationInv, PassesDevices, PassesFunctions
<1>6. ListsPassed'
  BY <1>1, <1>3, <1>4 DEF EnumerationInv, ListsPassed, Before
<1>7. Reaches'
  <2> SUFFICES ASSUME enumeration' = "complete"
               PROVE  /\ {pci_dev_list[i].place : i \in 1 .. Len(pci_dev_list)} = InReach
                      /\ \A i, j \in 1 .. Len(pci_dev_list) :
                           i < j => Before(pci_dev_list[i].place, pci_dev_list[j].place)
    BY <1>1, <1>3 DEF Reaches
  <2>1. \A p \in InReach : Before(p, <<dev, 0>>)
    <3>1. \A p \in DOMAIN bus : p[1] \in Nat
      BY PlaceFacts DEF EnumerationInv
    <3> QED
      BY <1>1, <3>1 DEF InReach, Before
  <2> QED
    BY <1>1, <1>4, <2>1 DEF EnumerationInv, ListsPassed
<1> QED
  <2>1. enumeration' # "halted" /\ (enumeration' = "functions" => dev' < Devices)
    BY <1>1, PciAssumption
  <2>2. enumeration' = "complete" => EndsLoop(<<dev, 0>>)'
    BY <1>1, <1>3
  <2> QED
    BY <1>2, <1>5, <1>6, <1>7, <2>1, <2>2 DEF EnumerationInv

LEMMA NextFunctionStep == ASSUME EnumerationInv, NextFunction PROVE EnumerationInv'
<1>1. /\ enumeration = "functions" /\ func \in 0 .. Functions - 1 /\ bus' = bus
      /\ dev \in 0 .. Devices - 1 /\ Func = func
  BY PciAssumption DEF EnumerationInv, Counters, NextFunction, Func
<1>2. InReach' = InReach /\ \A p : EndsLoop(p)' <=> EndsLoop(p)
  BY <1>1 DEF InReach, EndsLoop, Vendor
<1>3. \A p \in InReach : /\ p = <<p[1], p[2]>> /\ p[1] \in Nat /\ p[2] \in Nat
                         /\ \A f \in 0 .. p[2] : ~ EndsLoop(<<p[1], f>>)
  BY PlaceFacts DEF EnumerationInv, InReach
<1>4. CASE EndsLoop(<<dev, func>>)
  <2>1. /\ enumeration' = "devices" /\ dev' = dev + 1
        /\ pci_dev_list' = pci_dev_list /\ func' = func /\ Func' = 0
    BY <1>4 DEF NextFunction, Func
  <2>2. Counters' /\ OwnHeaders'
    <3>1. Counters'
      BY <1>1, <2>1, PciAssumption DEF EnumerationInv, Counters
    <3>2. OwnHeaders'
      BY <1>1, <2>1 DEF EnumerationInv, OwnHeaders
    <3> QED
      BY <3>1, <3>2
  <2>3. PassesDevices' /\ PassesFunctions'
    BY <1>1, <1>2, <2>1 DEF EnumerationInv, PassesDevices, PassesFunctions
  <2>4. \A p \in InReach : Before(p, <<dev + 1, 0>>) <=> Before(p, <<dev, func>>)
    <3> SUFFICES ASSUME NEW p \in InReach
                 PROVE  Before(p, <<dev + 1, 0>>) <=> Before(p, <<dev, func>>)
      OBVIOUS
    <3>1. p[1] = dev => p[2] < func
      <4> SUFFICES ASSUME p[1] = dev, ~ (p[2] < func) PROVE FALSE
        OBVIOUS
      <4>1. func \in 0 .. p[2]
        BY <1>1, <1>3
      <4> QED
        BY <1>3, <1>4, <4>1
    <3> QED
      BY <1>1, <1>3, <3>1 DEF Before
  <2>5. ListsPassed'
    BY <1>1, <1>2, <2>1, <2>4 DEF EnumerationInv, ListsPassed
  <2> QED
    BY <1>2, <2>1, <2>2, <2>3, <2>5 DEF EnumerationInv, Reaches
<1>5. CASE ~ EndsLoop(<<dev, func>>)
  <2> DEFINE new == [place |-> <<dev, func>>, header |-> bus[<<dev, func>>]]
             n == Len(pci_dev_list)
  <2>1. /\ enumeration' = "functions" /\ dev' = dev /\ func' = func + 1
        /\ pci_dev_list' = Append(pci_dev_list, new) /\ Func' = func + 1
    BY <1>1, <1>5 DEF NextFunction, Func, Listed
  <2>2. /\ <<dev, func>> \in DOMAIN bus
        /\ pci_dev_list \in Seq([place : DOMAIN bus, header : {bus[p] : p \in DOMAIN bus}])
        /\ new \in [place : DOMAIN bus, header : {bus[p] : p \in DOMAIN bus}]
    BY <1>5, PlaceFacts DEF EnumerationInv, Counters
  <2>3. Counters'
    BY <1>1, <2>1, <2>2, PciAssumption DEF EnumerationInv, Counters
  <2>4. PassesDevices' /\ PassesFunctions'
    <3>1. PassesDevices /\ PassesFunctions
      BY <1>1 DEF EnumerationInv
    <3>2. \A f \in 0 .. func + 1 - 1 : f \in 0 .. func - 1 \/ f = func
      BY <1>1
    <3>3. \A f \in 0 .. func : ~ EndsLoop(<<dev, f>>)
      BY <1>1, <1>5, <3>1, <3>2 DEF PassesFunctions
    <3>4. ~ EndsLoop(<<dev, 0>>) /\ \A d \in 0 .. dev - 1 : ~ EndsLoop(<<d, 0>>)
      BY <1>1, <3>1 DEF PassesDevices, PassesFunctions
    <3>5. func' - 1 = func
      BY <1>1, <2>1
    <3>6. PassesDevices'
      BY <1>2, <2>1, <3>4 DEF PassesDevices
    <3>7. PassesFunctions'
      BY <1>2, <2>1, <3>3, <3>4, <3>5 DEF PassesFunctions
    <3> QED
      BY <3>6, <3>7
  <2>5. <<dev, func>> \in InReach
    <3>1. PassesDevices /\ PassesFunctions
      BY <1>1 DEF EnumerationInv
    <3>2. \A d \in 0 .. dev : d \in 0 .. dev - 1 \/ d = dev
      BY <1>1
    <3>3. \A d \in 0 .. dev : ~ EndsLoop(<<d, 0>>)
      BY <1>1, <3>1, <3>2 DEF PassesDevices, PassesFunctions
    <3>4. \A f \in 0 .. func : f \in 0 .. func - 1 \/ f = func
      BY <1>1
    <3>5. \A f \in 0 .. func : ~ EndsLoop(<<dev, f>>)
      BY <1>1, <1>5, <3>1, <3>4 DEF PassesFunctions
    <3> QED
      BY <2>2, <3>3, <3>5 DEF InReach
  <2>6. /\ n \in Nat /\ Len(pci_dev_list') = n + 1
        /\ \A i \in 1 .. n : pci_dev_list'[i].place = pci_dev_list[i].place
        /\ pci_dev_list'[n + 1].place = <<dev, func>>
        /\ \A i \in 1 .. n : pci_dev_list'[i].header = pci_dev_list[i].header
        /\ pci_dev_list'[n + 1].header = bus[<<dev, func>>]
    <3> HIDE DEF new
    <3>1. /\ n \in Nat /\ Len(pci_dev_list') = n + 1
          /\ \A i \in 1 .. n : pci_dev_list'[i] = pci_dev_list[i]
          /\ pci_dev_list'[n + 1] = new
      BY <2>1, <2>2
    <3>2. new.place = <<dev, func>> /\ new.header = bus[<<dev, func>>]
      BY DEF new
    <3> QED
      BY <3>1, <3>2
  <2>7. \A p \in InReach :
          Before(p, <<dev, func + 1>>) <=> Before(p, <<dev, func>>) \/ p = <<dev, func>>
    BY <1>1, <1>3 DEF Before
  <2>8. ListsPassed'
    <3> HIDE DEF n
    <3>1. \A i \in 1 .. n : pci_dev_list[i].place \in InReach /\ Before(pci_dev_list[i].place, <<dev, func>>)
      BY <1>1 DEF EnumerationInv, ListsPassed, n
    <3>2. \A p \in InReach :
            Before(p, <<dev, func>>) => \E i \in 1 .. n : pci_dev_list[i].place = p
      BY <1>1 DEF EnumerationInv, ListsPassed, n
    <3>3. \A i, j \in 1 .. n : i < j => Before(pci_dev_list[i].place, pci_dev_list[j].place)
      BY <1>1 DEF EnumerationInv, ListsPassed, n
    <3>4. \A i \in 1 .. n + 1 : i \in 1 .. n \/ i = n + 1
      BY <2>6
    <3>5. \A i \in 1 .. n + 1 :
            pci_dev_list'[i].place \in InReach /\ Before(pci_dev_list'[i].place, <<dev, func + 1>>)
      BY <2>5, <2>6, <2>7, <3>1, <3>4
    <3>6. \A p \in InReach :
            Before(p, <<dev, func + 1>>) => \E i \in 1 .. n + 1 : pci_dev_list'[i].place = p
      <4> SUFFICES ASSUME NEW p \in InReach, Before(p, <<dev, func + 1>>)
                   PROVE  \E i \in 1 .. n + 1 : pci_dev_list'[i].place = p
        OBVIOUS
      <4>1. CASE p = <<dev, func>>
        <5>1. n + 1 \in 1 .. n + 1
          BY <2>6
        <5> QED
          BY <2>6, <4>1, <5>1
      <4>2. CASE Before(p, <<dev, func>>)
        <5>1. PICK i \in 1 .. n : pci_dev_list[i].place = p
          BY <3>2, <4>2
        <5>2. i \in 1 .. n + 1 /\ pci_dev_list'[i].place = p
          BY <2>6, <5>1
        <5> QED
          BY <5>2
      <4> QED
        BY <2>7, <4>1, <4>2
    <3>7. ASSUME NEW i \in 1 .. n + 1, NEW j \in 1 .. n + 1, i < j
          PROVE  Before(pci_dev_list'[i].place, pci_dev_list'[j].place)
      <4>1. i \in 1 .. n
        BY <2>6, <3>7
      <4> QED
        BY <2>6, <3>1, <3>3, <3>4, <3>7, <4>1
    <3> QED
      BY <1>2, <2>1, <2>6, <3>5, <3>6, <3>7 DEF ListsPassed
  <2>9. OwnHeaders'
    <3> HIDE DEF n
    <3>1. \A i \in 1 .. n : pci_dev_list[i].header = bus[pci_dev_list[i].place]
      BY DEF EnumerationInv, OwnHeaders, n
    <3>2. \A i \in 1 .. n + 1 : i \in 1 .. n \/ i = n + 1
      BY <2>6
    <3>3. \A i \in 1 .. n + 1 : pci_dev_list'[i].header = bus[pci_dev_list'[i].place]
      BY ONLY <2>6, <3>1, <3>2
    <3> QED
      BY ONLY <1>1, <2>6, <3>3 DEF OwnHeaders
  <2> QED
    BY <1>1, <1>2, <2>1, <2>3, <2>4, <2>8, <2>9 DEF EnumerationInv, Reaches
<1> QED
  BY <1>4, <1>5

LEMMA RunsOverStep == ASSUME EnumerationInv, RunsOver PROVE EnumerationInv'
<1>1. /\ enumeration' = "halted"
      /\ bus' = bus /\ pci_dev_list' = pci_dev_list /\ dev' = dev /\ func' = func
  BY DEF RunsOver
<1>2. Counters' /\ OwnHeaders'
  BY <1>1 DEF EnumerationInv, Counters, OwnHeaders
<1>3. InReach' = InReach
  BY <1>1 DEF InReach, EndsLoop, Vendor
<1>4. CASE enumeration = "devices" /\ dev = Devices
  <2>1. \A d \in 0 .. Devices - 1 : <<d, 0>> \in InReach
    <3>1. \A d \in 0 .. Devices - 1 : ~ EndsLoop(<<d, 0>>)
      BY <1>4 DEF EnumerationInv, PassesDevices
    <3>2. \A d \in 0 .. Devices - 1 : <<d, 0>> \in DOMAIN bus
      BY <3>1, PlaceFacts DEF EnumerationInv
    <3>3. \A d \in 0 .. Devices - 1 : \A e \in 0 .. d : e \in 0 .. Devices - 1
      BY PciAssumption
    <3>4. \A f \in 0 .. 0 : f = 0
      OBVIOUS
    <3> QED
      BY <3>1, <3>2, <3>3, <3>4 DEF InReach
  <2> QED
    BY <1>1, <1>2, <1>3, <2>1 DEF EnumerationInv, Reaches
<1>5. CASE enumeration = "functions" /\ func = Functions
  <2>1. dev \in 0 .. Devices - 1
    BY <1>5, PciAssumption DEF EnumerationInv, Counters
  <2>2. \A f \in 0 .. Functions - 1 : <<dev, f>> \in InReach
    <3>1. /\ \A f \in 0 .. Functions - 1 : ~ EndsLoop(<<dev, f>>) /\ <<dev, f>> \in DOMAIN bus
          /\ \A d \in 0 .. dev : ~ EndsLoop(<<d, 0>>)
      BY <1>5, <2>1, PlaceFacts DEF EnumerationInv, PassesDevices, PassesFunctions
    <3> QED
      BY <3>1, PciAssumption DEF InReach
  <2>3. {dev} \X (0 .. Functions - 1) \subseteq InReach
    BY <2>2
  <2> QED
    BY <1>1, <1>2, <1>3, <2>1, <2>3 DEF EnumerationInv, Reaches
<1> QED
  BY <1>4, <1>5 DEF RunsOver

LEMMA EnumerationUnchanged ==
  ASSUME EnumerationInv, UNCHANGED pciVars PROVE EnumerationInv'
<1>1. /\ bus' = bus /\ pci_dev_list' = pci_dev_list /\ dev' = dev /\ func' = func
      /\ enumeration' = enumeration
  BY DEF pciVars
<1>2. InReach' = InReach /\ (\A p : EndsLoop(p)' <=> EndsLoop(p)) /\ Func' = Func
  BY <1>1 DEF InReach, EndsLoop, Vendor, Func
<1>3. Counters' /\ Reaches' /\ OwnHeaders'
  BY <1>1, <1>2 DEF EnumerationInv, Counters, Reaches, OwnHeaders
<1>4. enumeration # "halted" => PassesDevices' /\ PassesFunctions'
  BY <1>1, <1>2 DEF EnumerationInv, PassesDevices, PassesFunctions
<1>5. enumeration # "halted" => ListsPassed'
  BY <1>1, <1>2 DEF EnumerationInv, ListsPassed
<1> QED
  BY <1>1, <1>2, <1>3, <1>4, <1>5 DEF EnumerationInv

LEMMA EnumerationStep == ASSUME EnumerationInv, [BootNext]_bootVars PROVE EnumerationInv'
<1>1. PciNext \/ UNCHANGED pciVars
  BY DEF BootNext, Enumerate, DisplayInit, ReadFont, FrameBufferClear, Run, Stuck, bootVars
<1> QED
  BY <1>1, NextDeviceStep, NextFunctionStep, RunsOverStep, EnumerationUnchanged DEF PciNext

\* On a regular bus no loop ends before a function.
LEMMA RegularInReach == ASSUME Counters, Regular PROVE InReach = DOMAIN bus
<1>1. \A p \in DOMAIN bus : ~ EndsLoop(p)
  <2>1. \A p \in DOMAIN bus : bus[p].Vendor_ID % 2 # 1
    BY DEF Regular
  <2> QED
    BY <2>1 DEF EndsLoop, Vendor
<1>2. \A p \in DOMAIN bus : /\ \A d \in 0 .. p[1] : <<d, 0>> \in DOMAIN bus
                            /\ \A f \in 0 .. p[2] : <<p[1], f>> \in DOMAIN bus
  BY DEF Regular
<1> QED
  BY ONLY <1>1, <1>2 DEF InReach

LEMMA InReachEnumerates == ASSUME EnumerationInv PROVE Enumerated
<1>1. InReach \subseteq DOMAIN bus
  BY DEF InReach
<1>2. ASSUME enumeration = "complete"
      PROVE  /\ \A i \in 1 .. Len(pci_dev_list) :
                  /\ pci_dev_list[i].place \in DOMAIN bus
                  /\ pci_dev_list[i].header = bus[pci_dev_list[i].place]
             /\ \A i, j \in 1 .. Len(pci_dev_list) :
                  i < j => Before(pci_dev_list[i].place, pci_dev_list[j].place)
             /\ Regular => {pci_dev_list[i].place : i \in 1 .. Len(pci_dev_list)} = DOMAIN bus
  BY <1>1, <1>2, RegularInReach DEF EnumerationInv, Reaches, OwnHeaders
<1>3. ASSUME enumeration = "halted"
      PROVE  \/ (0 .. Devices - 1) \X {0} \subseteq DOMAIN bus
             \/ \E d \in 0 .. Devices - 1 : {d} \X (0 .. Functions - 1) \subseteq DOMAIN bus
  BY <1>1, <1>3, Zenon DEF EnumerationInv, Reaches
<1> QED
  BY <1>2, <1>3 DEF Enumerated

\* pci_init lists functions of the bus once each and in order, all of them on a
\* regular bus, and runs over the bus or a device only where no place is free
\* (src/arch/x86/pci.c).
THEOREM EnumerationCorrect == BootSpec => []Enumerated
<1>1. BootInit => EnumerationInv
  BY InitEnumeration DEF BootInit
<1>2. EnumerationInv /\ [BootNext]_bootVars => EnumerationInv'
  BY EnumerationStep
<1>3. EnumerationInv => Enumerated
  BY InReachEnumerates
<1> QED
  BY <1>1, <1>2, <1>3, PTL DEF BootSpec
-----------------------------------------------------------------------------
(***************************************************************************)
(* Recursive functions: what Concat, Chain and Reached return.             *)
(***************************************************************************)
LEMMA LeastNatural ==
  ASSUME NEW T, T \subseteq Nat, T # {}
  PROVE  \E n \in T : \A m \in T : n <= m
<1> DEFINE R == OpToRel(<, Nat)
<1>1. PICK n \in T : \A m \in T : ~ (<<m, n>> \in R)
  <2>1. IsWellFoundedOn(R, Nat)
    BY NatLessThanWellFounded
  <2> HIDE DEF R
  <2> QED
    BY <2>1, WFMin
<1>2. \A m \in T : ~ (m < n)
  BY <1>1 DEF OpToRel
<1> QED
  BY <1>2

\* A statement, given as the set of the numbers for which it holds, holds for
\* 0 .. N when it holds for 0 and never stops holding.
LEMMA Stepwise ==
  ASSUME NEW N \in Nat, NEW H,
         0 \in H,
         \A n \in 1 .. N : n - 1 \in H => n \in H
  PROVE  \A n \in 0 .. N : n \in H
<1> DEFINE T == {n \in 0 .. N : n \notin H}
<1> SUFFICES ASSUME T # {} PROVE FALSE
  OBVIOUS
<1>1. T \subseteq Nat
  OBVIOUS
<1>2. PICK n \in T : \A m \in T : n <= m
  BY <1>1, LeastNatural
<1>3. n \in 1 .. N
  BY <1>2
<1>4. n - 1 \notin T
  BY <1>2, <1>3
<1> QED
  BY <1>2, <1>3, <1>4

\* A recursion along 0 .. N, from x, whose n-th step is the function g[n].
Recursion(N, S, x, g, F) ==
  /\ F \in [0 .. N -> S]
  /\ F[0] = x
  /\ \A n \in 1 .. N : F[n] = g[n][F[n - 1]]

\* It has a solution when the steps stay in the set S.
Steps(N, S, g) == \A n \in 1 .. N : \A y \in S : g[n][y] \in S

LEMMA RecursionExists ==
  ASSUME NEW N \in Nat, NEW S, NEW x \in S, NEW g, Steps(N, S, g)
  PROVE  \E F : Recursion(N, S, x, g, F)
<1> DEFINE Solves(F, n) == /\ F \in [0 .. n -> S]
                           /\ F[0] = x
                           /\ \A m \in 1 .. n : F[m] = g[m][F[m - 1]]
           H == {n \in 0 .. N : \E F : Solves(F, n)}
<1>1. 0 \in H
  <2> DEFINE F == [m \in 0 .. 0 |-> x]
  <2>1. Solves(F, 0)
    OBVIOUS
  <2>2. \E G : Solves(G, 0)
    BY <2>1
  <2> HIDE DEF Solves
  <2> QED
    BY <2>2
<1>2. ASSUME NEW n \in 1 .. N, n - 1 \in H
      PROVE  n \in H
  <2>1. PICK F : Solves(F, n - 1)
    BY <1>2
  <2> DEFINE G == [m \in 0 .. n |-> IF m = n THEN g[n][F[n - 1]] ELSE F[m]]
  <2>2. F[n - 1] \in S /\ g[n][F[n - 1]] \in S
    BY <2>1 DEF Steps
  <2>3. G \in [0 .. n -> S]
    BY <2>1, <2>2
  <2>4. G[0] = x
    BY <2>1
  <2>5. ASSUME NEW m \in 1 .. n PROVE G[m] = g[m][G[m - 1]]
    <3>1. CASE m = n
      BY <3>1
    <3>2. CASE m # n
      <4>1. m \in 1 .. n - 1 /\ m - 1 \in 0 .. n /\ m - 1 # n /\ m \in 0 .. n
        BY <3>2
      <4> QED
        BY <2>1, <3>2, <4>1
    <3> QED
      BY <3>1, <3>2
  <2>6. Solves(G, n)
    <3> HIDE DEF G
    <3> QED
      BY <2>3, <2>4, <2>5
  <2> HIDE DEF Solves, G
  <2> QED
    BY <2>6
<1>3. \A n \in 0 .. N : n \in H
  <2> HIDE DEF H
  <2> QED
    BY <1>1, <1>2, Stepwise
<1>4. PICK F : Solves(F, N)
  <2>1. N \in H
    <3> HIDE DEF H
    <3> QED
      BY <1>3
  <2> HIDE DEF Solves
  <2> QED
    BY ONLY <2>1
<1>5. Recursion(N, S, x, g, F)
  BY ONLY <1>4 DEF Recursion
<1> QED
  BY ONLY <1>5

\* The concatenation of sequences over S, and how it grows.
Joins(S, seqs, f) ==
  /\ f \in [0 .. Len(seqs) -> Seq(S)]
  /\ f[0] = <<>>
  /\ \A n \in 1 .. Len(seqs) : f[n] = f[n - 1] \o seqs[n]

LEMMA ConcatIs ==
  ASSUME NEW S, NEW seqs \in Seq(Seq(S))
  PROVE  \E f : Joins(S, seqs, f) /\ Concat(seqs) = f[Len(seqs)]
<1> DEFINE Step(f) == [n \in 0 .. Len(seqs) |->
                         IF n = 0 THEN <<>> ELSE f[n - 1] \o seqs[n]]
           joined == CHOOSE f : f = Step(f)
<1>1. PICK N : N \in Nat /\ N = Len(seqs)
  OBVIOUS
<1>2. PICK g : g = [n \in 1 .. N |-> [q \in Seq(S) |-> q \o seqs[n]]]
  OBVIOUS
<1>3. \A n \in 1 .. N : seqs[n] \in Seq(S)
  BY <1>1
<1>4. \A n \in 1 .. N : \A q \in Seq(S) : g[n][q] = q \o seqs[n] /\ g[n][q] \in Seq(S)
  <2>1. \A n \in 1 .. N : \A q \in Seq(S) : g[n][q] = q \o seqs[n]
    BY ONLY <1>2, Zenon
  <2>2. \A n \in 1 .. N : \A q \in Seq(S) : q \o seqs[n] \in Seq(S)
    BY ONLY <1>3
  <2> QED
    BY ONLY <2>1, <2>2, Zenon
<1>5. PICK F : Recursion(N, Seq(S), <<>>, g, F)
  <2>1. <<>> \in Seq(S)
    OBVIOUS
  <2>2. Steps(N, Seq(S), g)
    BY ONLY <1>4 DEF Steps
  <2> QED
    BY ONLY <2>1, <2>2, <1>1, RecursionExists
<1>6. /\ F \in [0 .. N -> Seq(S)] /\ F[0] = <<>>
      /\ \A n \in 1 .. N : F[n] = F[n - 1] \o seqs[n]
  <2>1. /\ F \in [0 .. N -> Seq(S)] /\ F[0] = <<>>
        /\ \A n \in 1 .. N : F[n] = g[n][F[n - 1]]
    BY ONLY <1>5 DEF Recursion
  <2>2. \A n \in 1 .. N : n - 1 \in 0 .. N
    BY ONLY <1>1
  <2>3. \A n \in 1 .. N : F[n - 1] \in Seq(S)
    BY ONLY <2>1, <2>2
  <2> QED
    BY ONLY <1>4, <2>1, <2>3, Zenon
<1>7. Joins(S, seqs, F)
  BY ONLY <1>1, <1>6 DEF Joins
<1>8. F = Step(F)
  <2>1. PICK G : G = Step(F)
    OBVIOUS
  <2>2. DOMAIN G = 0 .. N /\ \A n \in 0 .. N :
          G[n] = IF n = 0 THEN <<>> ELSE F[n - 1] \o seqs[n]
    BY ONLY <1>1, <2>1, Zenon
  <2>3. \A n \in 0 .. N : n # 0 => n \in 1 .. N
    BY ONLY <1>1
  <2>4. \A n \in 0 .. N : F[n] = G[n]
    BY ONLY <1>6, <2>2, <2>3, Zenon
  <2>5. F = [n \in 0 .. N |-> F[n]] /\ G = [n \in 0 .. N |-> G[n]]
    <3>1. F = [n \in 0 .. N |-> F[n]]
      BY ONLY <1>6
    <3> QED
      BY ONLY <1>1, <2>1, <2>2, <3>1
  <2>6. F = G
    BY ONLY <2>4, <2>5
  <2> QED
    BY ONLY <2>1, <2>6, Zenon
<1>9. joined = Step(joined)
  BY ONLY <1>8
<1>10. Concat(seqs) = joined[N]
  BY <1>1 DEF Concat
<1> HIDE DEF joined
<1>11. joined[0] = <<>> /\ \A n \in 1 .. N : joined[n] = joined[n - 1] \o seqs[n]
  <2>1. \A n \in 0 .. N : joined[n] = IF n = 0 THEN <<>> ELSE joined[n - 1] \o seqs[n]
    BY ONLY <1>1, <1>9, Zenon
  <2>2. 0 \in 0 .. N /\ \A n \in 1 .. N : n \in 0 .. N /\ n # 0
    BY ONLY <1>1
  <2> QED
    BY ONLY <2>1, <2>2, Zenon
<1>12. \A n \in 0 .. N : joined[n] = F[n]
  <2> DEFINE H == {n \in 0 .. N : joined[n] = F[n]}
  <2>1. 0 \in H
    BY ONLY <1>6, <1>11, <1>1
  <2>2. ASSUME NEW n \in 1 .. N, n - 1 \in H PROVE n \in H
    <3>1. n \in 0 .. N
      BY ONLY <1>1, <2>2
    <3>2. joined[n - 1] = F[n - 1]
      BY ONLY <2>2, Zenon
    <3>3. joined[n] = joined[n - 1] \o seqs[n] /\ F[n] = F[n - 1] \o seqs[n]
      BY ONLY <1>6, <1>11, <2>2, Zenon
    <3> QED
      BY ONLY <3>1, <3>2, <3>3, Zenon
  <2>3. \A n \in 0 .. N : n \in H
    <3> HIDE DEF H
    <3> QED
      BY ONLY <2>1, <2>2, <1>1, Stepwise
  <2> QED
    BY ONLY <2>3
<1> QED
  BY <1>1, <1>7, <1>10, <1>12
-----------------------------------------------------------------------------
(***************************************************************************)
(* The chains of a volume, and the directories in them.                    *)
(***************************************************************************)
\* Clusters linked from c; and the same up to the end of the chain.
Leads(v, s, c) ==
  /\ s \in Seq(DOMAIN v.fat) /\ s # <<>>
  /\ s[1] = c
  /\ \A i \in 1 .. Len(s) - 1 : v.fat[s[i]] = s[i + 1]
Whole(v, s, c) == Leads(v, s, c) /\ v.fat[s[Len(s)]] = EndOfFile

\* The slots that a volume has, and how they stand in a directory.
Entries(v) ==
  {e \in Slot : e.first \in DOMAIN v.fat /\ \A n \in Sizes : e.size + n < Wide}
LongGoesOn(D) == \A i \in 1 .. Len(D) - 1 : D[i].kind = "long" => D[i + 1].kind # "end"

LEMMA VolumeFacts ==
  ASSUME NEW v \in Volumes
  PROVE  /\ v.unit \in Nat \ {0}
         /\ v.root \in DOMAIN v.fat /\ IsFiniteSet(DOMAIN v.fat)
         /\ EndOfFile \notin DOMAIN v.fat /\ OtherMark \notin DOMAIN v.fat
         /\ 0 \in DOMAIN v.fat /\ v.fat[0] = OtherMark
         /\ \A c \in DOMAIN v.fat : v.fat[c] \in DOMAIN v.fat \cup {EndOfFile, OtherMark}
  BY FatAssumption

LEMMA ClusterFacts ==
  ASSUME NEW v \in Volumes, NEW c \in DOMAIN v.fat
  PROVE  /\ v.slots[c] \in Seq(Entries(v)) /\ v.slots[c] # <<>>
         /\ LongGoesOn(v.slots[c])
         /\ v.slots[c][Len(v.slots[c])].kind = "long" /\ v.fat[c] \in DOMAIN v.fat
              => v.slots[v.fat[c]][1].kind # "end"
<1>1. PICK q : q = v.slots[c]
  OBVIOUS
<1>2. /\ q \in Seq(Slot) /\ q # <<>>
      /\ \A i \in 1 .. Len(q) :
           /\ q[i].first \in DOMAIN v.fat
           /\ \A n \in Sizes : q[i].size + n < Wide
           /\ q[i].kind = "long" =>
                IF i < Len(q) THEN q[i + 1].kind # "end"
                ELSE v.fat[c] \in DOMAIN v.fat => v.slots[v.fat[c]][1].kind # "end"
  BY <1>1, FatAssumption
<1>3. Len(q) \in Nat \ {0}
  BY ONLY <1>2
<1>4. \A i \in 1 .. Len(q) : q[i] \in Entries(v)
  <2>1. \A i \in 1 .. Len(q) : q[i] \in Slot
    BY ONLY <1>2
  <2> QED
    BY ONLY <1>2, <2>1, Zenon DEF Entries
<1>5. q \in Seq(Entries(v))
  BY ONLY <1>2, <1>4
<1>6. LongGoesOn(q)
  <2>1. \A i \in 1 .. Len(q) - 1 : i \in 1 .. Len(q) /\ i < Len(q)
    BY ONLY <1>3
  <2> QED
    BY ONLY <1>2, <2>1 DEF LongGoesOn
<1>7. Len(q) \in 1 .. Len(q) /\ ~ (Len(q) < Len(q))
  BY ONLY <1>3
<1>8. q[Len(q)].kind = "long" /\ v.fat[c] \in DOMAIN v.fat
        => v.slots[v.fat[c]][1].kind # "end"
  BY ONLY <1>2, <1>7
<1> QED
  BY ONLY <1>1, <1>2, <1>5, <1>6, <1>8, Zenon

LEMMA Joining ==
  ASSUME NEW S, NEW a \in Seq(S), NEW b \in Seq(S), b # <<>>
  PROVE  /\ a \o b \in Seq(S) /\ a \o b # <<>>
         /\ Len(a) \in Nat /\ Len(b) \in Nat \ {0}
         /\ Len(a \o b) = Len(a) + Len(b)
         /\ \A i \in 1 .. Len(a) : (a \o b)[i] = a[i]
         /\ \A i \in 1 .. Len(b) : (a \o b)[Len(a) + i] = b[i]
OBVIOUS

\* A directory in a chain has slots, none of which ends it within a name.
LEMMA SlotsFacts ==
  ASSUME NEW v \in Volumes, NEW s, NEW c, Leads(v, s, c)
  PROVE  /\ SlotsOf(v, s) \in Seq(Entries(v)) /\ SlotsOf(v, s) # <<>>
         /\ LongGoesOn(SlotsOf(v, s))
<1>1. PICK N : N \in Nat \ {0} /\ N = Len(s)
  BY DEF Leads
<1>2. PICK q : q = [i \in 1 .. N |-> v.slots[s[i]]]
  OBVIOUS
<1>3. /\ \A i \in 1 .. N : s[i] \in DOMAIN v.fat
      /\ \A i \in 1 .. N - 1 : v.fat[s[i]] = s[i + 1]
  BY <1>1 DEF Leads
<1>4. \A i \in 1 .. N :
        /\ q[i] = v.slots[s[i]] /\ q[i] \in Seq(Entries(v)) /\ q[i] # <<>> /\ LongGoesOn(q[i])
        /\ q[i][Len(q[i])].kind = "long" /\ v.fat[s[i]] \in DOMAIN v.fat
             => v.slots[v.fat[s[i]]][1].kind # "end"
  <2>1. \A i \in 1 .. N : q[i] = v.slots[s[i]]
    BY ONLY <1>2
  <2> QED
    BY <1>3, <2>1, ClusterFacts
<1>5. q \in Seq(Seq(Entries(v))) /\ Len(q) = N
  BY ONLY <1>1, <1>2, <1>4
<1>6. PICK f : Joins(Entries(v), q, f) /\ Concat(q) = f[Len(q)]
  BY <1>5, ConcatIs
<1>7. /\ f \in [0 .. N -> Seq(Entries(v))] /\ f[0] = <<>>
      /\ \A n \in 1 .. N : f[n] = f[n - 1] \o q[n]
  BY ONLY <1>5, <1>6 DEF Joins
<1> DEFINE H == {n \in 0 .. N : n # 0 => /\ f[n] # <<>> /\ LongGoesOn(f[n])
                                         /\ f[n][Len(f[n])] = q[n][Len(q[n])]}
<1>8. 0 \in H
  BY <1>1
<1>9. ASSUME NEW n \in 1 .. N, n - 1 \in H PROVE n \in H
  <2>1. PICK a, b : a = f[n - 1] /\ b = q[n]
    OBVIOUS
  <2>2. n \in 0 .. N /\ n - 1 \in 0 .. N
    BY <1>1
  <2>3. a \in Seq(Entries(v)) /\ b \in Seq(Entries(v)) /\ b # <<>> /\ LongGoesOn(b)
    BY <1>4, <1>7, <2>1, <2>2
  <2>4. PICK w : w = a \o b
    OBVIOUS
  <2>5. /\ w # <<>>
        /\ Len(a) \in Nat /\ Len(b) \in Nat \ {0}
        /\ Len(w) = Len(a) + Len(b)
        /\ \A i \in 1 .. Len(a) : w[i] = a[i]
        /\ \A i \in 1 .. Len(b) : w[Len(a) + i] = b[i]
    BY ONLY <2>3, <2>4, Joining
  <2>6. w[Len(w)] = b[Len(b)]
    <3>1. Len(b) \in 1 .. Len(b)
      BY ONLY <2>5
    <3> QED
      BY ONLY <2>5, <3>1
  <2>7. a # <<>> => LongGoesOn(a) /\ (a[Len(a)].kind = "long" => b[1].kind # "end")
    <3> SUFFICES ASSUME a # <<>>
                 PROVE  LongGoesOn(a) /\ (a[Len(a)].kind = "long" => b[1].kind # "end")
      OBVIOUS
    <3>1. n - 1 # 0
      BY <1>7, <2>1
    <3>2. LongGoesOn(a) /\ a[Len(a)] = q[n - 1][Len(q[n - 1])]
      BY <1>9, <2>1, <3>1
    <3>3. n - 1 \in 1 .. N - 1 /\ n - 1 \in 1 .. N /\ n - 1 + 1 = n
      BY <1>1, <3>1
    <3>4. v.fat[s[n - 1]] = s[n]
      BY <1>3, <3>3
    <3>5. v.fat[s[n - 1]] \in DOMAIN v.fat /\ v.slots[v.fat[s[n - 1]]] = b
      BY <1>3, <1>4, <2>1, <3>4
    <3> QED
      BY <1>4, <3>2, <3>3, <3>5
  <2>8. LongGoesOn(w)
    <3> SUFFICES ASSUME NEW i \in 1 .. Len(w) - 1, w[i].kind = "long"
                 PROVE  w[i + 1].kind # "end"
      BY DEF LongGoesOn
    <3>1. CASE i < Len(a)
      <4>1. i \in 1 .. Len(a) /\ i + 1 \in 1 .. Len(a) /\ i \in 1 .. Len(a) - 1 /\ Len(a) # 0
        BY <2>5, <3>1
      <4>2. w[i] = a[i] /\ w[i + 1] = a[i + 1] /\ a # <<>>
        BY <2>5, <4>1
      <4>3. LongGoesOn(a) /\ a[i].kind = "long"
        BY <2>7, <4>2
      <4> QED
        BY <4>1, <4>2, <4>3 DEF LongGoesOn
    <3>2. CASE i = Len(a)
      <4>1. i \in 1 .. Len(a) /\ 1 \in 1 .. Len(b)
        BY <2>5, <3>2
      <4>2. w[i] = a[i] /\ w[i + 1] = b[1] /\ a # <<>>
        BY <2>5, <3>2, <4>1
      <4> QED
        BY <2>7, <3>2, <4>2
    <3>3. CASE i > Len(a)
      <4>1. PICK j \in 1 .. Len(b) - 1 : i = Len(a) + j
        <5>1. i - Len(a) \in 1 .. Len(b) - 1 /\ i = Len(a) + (i - Len(a))
          BY <2>5, <3>3
        <5> QED
          BY ONLY <5>1
      <4>2. j \in 1 .. Len(b) /\ j + 1 \in 1 .. Len(b) /\ i + 1 = Len(a) + (j + 1)
        BY <2>5, <4>1
      <4>3. w[i] = b[j] /\ w[i + 1] = b[j + 1]
        BY <2>5, <4>1, <4>2
      <4> QED
        BY <2>3, <4>1, <4>3 DEF LongGoesOn
    <3> QED
      BY <2>5, <3>1, <3>2, <3>3
  <2>9. f[n] = w
    BY <1>7, <2>1, <2>4
  <2> QED
    BY <2>1, <2>2, <2>5, <2>6, <2>8, <2>9
<1>10. \A n \in 0 .. N : n \in H
  <2> HIDE DEF H
  <2> QED
    BY <1>1, <1>8, <1>9, Stepwise
<1>11. f[N] # <<>> /\ LongGoesOn(f[N]) /\ f[N] \in Seq(Entries(v))
  <2>1. N \in H /\ N # 0 /\ N \in 0 .. N
    BY <1>1, <1>10
  <2> QED
    BY <1>7, <2>1
<1>12. SlotsOf(v, s) = f[N]
  BY <1>1, <1>2, <1>5, <1>6 DEF SlotsOf
<1> QED
  BY ONLY <1>11, <1>12, Zenon

LEMMA LeadsFacts ==
  ASSUME NEW v, NEW s, NEW c, Leads(v, s, c)
  PROVE  /\ Len(s) \in Nat \ {0} /\ s[1] = c
         /\ \A i \in 1 .. Len(s) : s[i] \in DOMAIN v.fat
         /\ \A i \in 1 .. Len(s) : i < Len(s) => v.fat[s[i]] = s[i + 1] /\ i + 1 \in 1 .. Len(s)
         /\ s = [i \in 1 .. Len(s) |-> s[i]]
         /\ c \in DOMAIN v.fat
<1>1. s \in Seq(DOMAIN v.fat) /\ s # <<>>
  BY DEF Leads
<1>2. Len(s) \in Nat \ {0}
  BY ONLY <1>1
<1>3. \A i \in 1 .. Len(s) : i < Len(s) => i \in 1 .. Len(s) - 1 /\ i + 1 \in 1 .. Len(s)
  BY ONLY <1>2
<1>4. 1 \in 1 .. Len(s)
  BY ONLY <1>2
<1>5. s = [i \in 1 .. Len(s) |-> s[i]] /\ \A i \in 1 .. Len(s) : s[i] \in DOMAIN v.fat
  BY ONLY <1>1
<1> QED
  BY <1>2, <1>3, <1>4, <1>5 DEF Leads

\* Where one begins decides the rest.
LEMMA LeadsSame ==
  ASSUME NEW v, NEW s, NEW t, NEW c, Leads(v, s, c), Leads(v, t, c), Len(t) <= Len(s)
  PROVE  \A k \in 1 .. Len(t) : s[k] = t[k]
<1>1. PICK M : M = Len(s)
  OBVIOUS
<1>2. PICK N : N = Len(t)
  OBVIOUS
<1>3. /\ M \in Nat \ {0} /\ s[1] = c
      /\ \A i \in 1 .. M : i < M => v.fat[s[i]] = s[i + 1]
  BY <1>1, LeadsFacts
<1>4. /\ N \in Nat \ {0} /\ t[1] = c
      /\ \A i \in 1 .. N : i < N => v.fat[t[i]] = t[i + 1]
  BY <1>2, LeadsFacts
<1>5. N <= M
  BY <1>1, <1>2
<1> DEFINE H == {n \in 0 .. N - 1 : s[n + 1] = t[n + 1]}
<1>6. 0 \in H
  BY ONLY <1>3, <1>4
<1>7. ASSUME NEW n \in 1 .. N - 1, n - 1 \in H PROVE n \in H
  <2>1. n \in 1 .. N /\ n < N /\ n \in 1 .. M /\ n < M /\ n \in 0 .. N - 1
    BY ONLY <1>3, <1>4, <1>5, <1>7
  <2>2. s[n] = t[n]
    <3>1. s[n - 1 + 1] = t[n - 1 + 1] /\ n - 1 + 1 = n
      BY <1>7, <2>1
    <3> QED
      BY ONLY <3>1
  <2> QED
    BY ONLY <1>3, <1>4, <2>1, <2>2
<1>8. \A n \in 0 .. N - 1 : n \in H
  <2>1. N - 1 \in Nat
    BY ONLY <1>4
  <2> HIDE DEF H
  <2> QED
    BY ONLY <1>6, <1>7, <2>1, Stepwise
<1>9. ASSUME NEW k \in 1 .. N PROVE s[k] = t[k]
  <2>1. k - 1 \in 0 .. N - 1 /\ k - 1 + 1 = k
    BY <1>4
  <2>2. s[k - 1 + 1] = t[k - 1 + 1]
    BY <1>8, <2>1
  <2> QED
    BY ONLY <2>1, <2>2
<1> QED
  BY ONLY <1>2, <1>9

\* Nothing leads beyond the end of a chain.
LEMMA WholeLongest ==
  ASSUME NEW v \in Volumes, NEW s, NEW t, NEW c, Whole(v, s, c), Leads(v, t, c)
  PROVE  Len(t) <= Len(s)
<1> SUFFICES ASSUME ~ (Len(t) <= Len(s)) PROVE FALSE
  OBVIOUS
<1>1. Leads(v, s, c) /\ v.fat[s[Len(s)]] = EndOfFile
  BY DEF Whole
<1>2. Len(s) \in Nat \ {0} /\ Len(t) \in Nat \ {0} /\ Len(s) < Len(t)
  BY <1>1, LeadsFacts
<1>3. \A k \in 1 .. Len(s) : t[k] = s[k]
  BY <1>1, <1>2, LeadsSame
<1>4. Len(s) \in 1 .. Len(s) /\ Len(s) \in 1 .. Len(t)
  BY ONLY <1>2
<1>5. v.fat[t[Len(s)]] = EndOfFile
  BY <1>1, <1>3, <1>4
<1>6. v.fat[t[Len(s)]] = t[Len(s) + 1] /\ t[Len(s) + 1] \in DOMAIN v.fat
  BY <1>2, <1>4, LeadsFacts
<1> QED
  BY <1>5, <1>6, VolumeFacts

LEMMA WholeSame ==
  ASSUME NEW v \in Volumes, NEW s, NEW t, NEW c, Whole(v, s, c), Whole(v, t, c)
  PROVE  s = t
<1>1. Leads(v, s, c) /\ Leads(v, t, c)
  BY DEF Whole
<1>2. Len(s) <= Len(t) /\ Len(t) <= Len(s) /\ Len(s) \in Nat /\ Len(t) \in Nat
  BY <1>1, WholeLongest, LeadsFacts
<1>3. Len(s) = Len(t)
  BY ONLY <1>2
<1>4. \A k \in 1 .. Len(t) : s[k] = t[k]
  BY <1>1, <1>2, LeadsSame
<1>5. s = [i \in 1 .. Len(s) |-> s[i]] /\ t = [i \in 1 .. Len(t) |-> t[i]]
  BY <1>1, LeadsFacts
<1> QED
  BY ONLY <1>3, <1>4, <1>5

\* The rest of a chain is a chain.
From(s, j) == [k \in 1 .. Len(s) - j + 1 |-> s[k + j - 1]]

LEMMA FromFacts ==
  ASSUME NEW v \in Volumes, NEW s, NEW c, Whole(v, s, c), NEW j \in 1 .. Len(s)
  PROVE  Whole(v, From(s, j), s[j]) /\ Len(From(s, j)) = Len(s) - j + 1
<1>1. PICK N : N = Len(s)
  OBVIOUS
<1>2. Leads(v, s, c) /\ v.fat[s[N]] = EndOfFile
  BY <1>1 DEF Whole
<1>3. /\ N \in Nat \ {0} /\ j \in 1 .. N
      /\ \A i \in 1 .. N : s[i] \in DOMAIN v.fat
      /\ \A i \in 1 .. N : i < N => v.fat[s[i]] = s[i + 1]
  BY <1>1, <1>2, LeadsFacts
<1>4. PICK t : t = [k \in 1 .. N - j + 1 |-> s[k + j - 1]]
  OBVIOUS
<1>5. N - j + 1 \in Nat \ {0}
  BY ONLY <1>3
<1>6. \A k \in 1 .. N - j + 1 : k + j - 1 \in 1 .. N /\ t[k] = s[k + j - 1]
  BY ONLY <1>3, <1>4
<1>7. t \in Seq(DOMAIN v.fat) /\ Len(t) = N - j + 1 /\ t # <<>>
  <2>1. PICK m : m = N - j + 1
    OBVIOUS
  <2>2. m \in Nat \ {0} /\ t = [k \in 1 .. m |-> s[k + j - 1]]
    BY ONLY <1>4, <1>5, <2>1
  <2>3. \A k \in 1 .. m : s[k + j - 1] \in DOMAIN v.fat
    BY ONLY <1>3, <1>6, <2>1
  <2>4. t \in [1 .. m -> DOMAIN v.fat]
    BY ONLY <2>2, <2>3, Zenon
  <2>5. m \in Nat \ {0}
    BY ONLY <2>2
  <2>6. t \in Seq(DOMAIN v.fat)
    BY ONLY <2>4, <2>5
  <2>7. Len(t) = m /\ t # <<>>
    BY ONLY <2>4, <2>5, <2>6
  <2> QED
    BY ONLY <2>1, <2>6, <2>7
<1>8. t[1] = s[j]
  <2>1. 1 \in 1 .. N - j + 1 /\ 1 + j - 1 = j
    BY ONLY <1>3, <1>5
  <2>2. t[1] = s[1 + j - 1]
    BY ONLY <1>6, <2>1
  <2> QED
    BY ONLY <2>1, <2>2
<1>9. ASSUME NEW i \in 1 .. Len(t) - 1 PROVE v.fat[t[i]] = t[i + 1]
  <2>1. /\ i \in 1 .. N - j + 1 /\ i + 1 \in 1 .. N - j + 1
        /\ i + j - 1 < N /\ (i + 1) + j - 1 = (i + j - 1) + 1
    BY ONLY <1>3, <1>5, <1>7, <1>9
  <2>2. t[i] = s[i + j - 1] /\ t[i + 1] = s[(i + 1) + j - 1] /\ i + j - 1 \in 1 .. N
    BY ONLY <1>6, <2>1
  <2> QED
    BY ONLY <1>3, <2>1, <2>2
<1>10. t[Len(t)] = s[N]
  <2>1. Len(t) \in 1 .. N - j + 1 /\ Len(t) + j - 1 = N
    BY ONLY <1>3, <1>5, <1>7
  <2>2. t[Len(t)] = s[Len(t) + j - 1]
    BY ONLY <1>6, <2>1
  <2> QED
    BY ONLY <2>1, <2>2
<1>11. Whole(v, t, s[j])
  BY <1>2, <1>7, <1>8, <1>9, <1>10 DEF Whole, Leads
<1>12. From(s, j) = t
  BY <1>1, <1>4 DEF From
<1> QED
  BY <1>1, <1>7, <1>11, <1>12

\* A chain that ends meets no cluster twice, so it has no more than there are.
LEMMA WholeFits ==
  ASSUME NEW v \in Volumes, NEW s, NEW c, Whole(v, s, c)
  PROVE  Len(s) <= Cardinality(DOMAIN v.fat) /\ Cardinality(DOMAIN v.fat) \in Nat
<1>1. PICK N : N = Len(s)
  OBVIOUS
<1>2. /\ N \in Nat \ {0} /\ s = [i \in 1 .. N |-> s[i]]
      /\ \A i \in 1 .. N : s[i] \in DOMAIN v.fat
  BY <1>1, LeadsFacts DEF Whole
<1>3. ASSUME NEW i \in 1 .. N, NEW j \in 1 .. N, s[i] = s[j] PROVE i = j
  <2>1. /\ Whole(v, From(s, i), s[i]) /\ Len(From(s, i)) = N - i + 1
        /\ Whole(v, From(s, j), s[j]) /\ Len(From(s, j)) = N - j + 1
    BY <1>1, FromFacts
  <2>2. From(s, i) = From(s, j)
    BY <1>3, <2>1, WholeSame
  <2>3. N - i + 1 = N - j + 1
    BY <2>1, <2>2
  <2> QED
    BY ONLY <1>2, <1>3, <2>3
<1>4. IsFiniteSet(DOMAIN v.fat) /\ Cardinality(DOMAIN v.fat) \in Nat
  BY VolumeFacts, FS_CardinalityType
<1>5. IsFiniteSet(1 .. N) /\ Cardinality(1 .. N) = N
  <2>1. 1 \in Int /\ N \in Int /\ ~ (1 > N) /\ N - 1 + 1 = N
    BY ONLY <1>2
  <2> QED
    BY <2>1, FS_Interval
<1>6. s \in [1 .. N -> DOMAIN v.fat]
  BY ONLY <1>2
<1>7. ~ (Cardinality(DOMAIN v.fat) < N)
  <2> SUFFICES ASSUME Cardinality(DOMAIN v.fat) < Cardinality(1 .. N) PROVE FALSE
    BY <1>5
  <2>1. \E x, y \in 1 .. N : x # y /\ s[x] = s[y]
    BY <1>4, <1>5, <1>6, FS_PigeonHole
  <2> QED
    BY <1>3, <2>1
<1> QED
  BY <1>1, <1>2, <1>4, <1>7

\* The driver's chain and the one the entries describe are the same.
LEMMA ChainIs ==
  ASSUME NEW v \in Volumes, NEW s, NEW c, Whole(v, s, c)
  PROVE  Chain(v, c) = s
<1>1. PICK N : N = Len(s)
  OBVIOUS
<1>2. PICK M : M = Cardinality(DOMAIN v.fat)
  OBVIOUS
<1>3. PICK X : X = DOMAIN v.fat
  OBVIOUS
<1>4. /\ N \in Nat \ {0} /\ s = [i \in 1 .. N |-> s[i]] /\ s[1] = c
      /\ \A i \in 1 .. N : s[i] \in X
      /\ \A i \in 1 .. N : i < N => v.fat[s[i]] = s[i + 1] /\ i + 1 \in 1 .. N
      /\ v.fat[s[N]] = EndOfFile
  BY <1>1, <1>3, LeadsFacts DEF Whole
<1>5. M \in Nat /\ N <= M
  BY <1>1, <1>2, WholeFits
<1>6. EndOfFile \notin X
  BY <1>3, VolumeFacts
<1> DEFINE Step(f) == [n \in 0 .. Cardinality(DOMAIN v.fat) |->
              IF n = 0 THEN c
              ELSE LET before == f[n - 1]
                   IN IF before \in DOMAIN v.fat THEN v.fat[before] ELSE before]
           nth == CHOOSE f : f = Step(f)
<1>7. PICK F : F = [n \in 0 .. M |-> IF n < N THEN s[n + 1] ELSE EndOfFile]
  OBVIOUS
<1>8. \A n \in 0 .. M : F[n] = IF n < N THEN s[n + 1] ELSE EndOfFile
  BY ONLY <1>7
<1>9. \A n \in 0 .. M : F[n] =
        IF n = 0 THEN c ELSE IF F[n - 1] \in X THEN v.fat[F[n - 1]] ELSE F[n - 1]
  <2>1. SUFFICES ASSUME NEW n \in 0 .. M
                 PROVE  F[n] = IF n = 0 THEN c
                          ELSE IF F[n - 1] \in X THEN v.fat[F[n - 1]] ELSE F[n - 1]
    OBVIOUS
  <2>2. CASE n = 0
    <3>1. 0 \in 0 .. M /\ 0 < N /\ 0 + 1 = 1
      BY ONLY <1>4, <1>5
    <3>2. F[0] = s[1]
      BY ONLY <1>8, <3>1
    <3> QED
      BY ONLY <1>4, <2>2, <3>2
  <2>3. CASE n # 0 /\ n <= N
    <3>1. n - 1 \in 0 .. M /\ n - 1 < N /\ n - 1 + 1 = n /\ n \in 1 .. N
      BY ONLY <1>4, <1>5, <2>1, <2>3
    <3>2. F[n - 1] = s[n] /\ s[n] \in X
      BY ONLY <1>4, <1>8, <3>1
    <3>3. F[n] = v.fat[s[n]]
      <4>1. CASE n = N
        BY ONLY <1>4, <1>8, <2>1, <4>1
      <4>2. CASE n < N
        BY ONLY <1>4, <1>8, <2>1, <3>1, <4>2
      <4> QED
        BY ONLY <1>4, <3>1, <4>1, <4>2
    <3> QED
      BY ONLY <2>3, <3>2, <3>3
  <2>4. CASE ~ (n <= N)
    <3>1. n - 1 \in 0 .. M /\ ~ (n - 1 < N) /\ ~ (n < N) /\ n # 0
      BY ONLY <1>4, <1>5, <2>1, <2>4
    <3>2. F[n - 1] = EndOfFile /\ F[n] = EndOfFile
      BY ONLY <1>8, <2>1, <3>1
    <3> QED
      BY ONLY <1>6, <3>1, <3>2
  <2> QED
    BY ONLY <1>4, <2>1, <2>2, <2>3, <2>4
<1>10. F = Step(F)
  <2>1. PICK G : G = Step(F)
    OBVIOUS
  <2>2. G = [n \in 0 .. M |->
               IF n = 0 THEN c ELSE IF F[n - 1] \in X THEN v.fat[F[n - 1]] ELSE F[n - 1]]
    BY ONLY <1>2, <1>3, <2>1, Zenon
  <2>3. \A n \in 0 .. M : F[n] = G[n]
    BY ONLY <1>9, <2>2
  <2>4. F = [n \in 0 .. M |-> F[n]] /\ G = [n \in 0 .. M |-> G[n]]
    BY ONLY <1>7, <2>2
  <2>5. F = G
    BY ONLY <2>3, <2>4
  <2> QED
    BY ONLY <2>1, <2>5, Zenon
<1>11. nth = Step(nth)
  BY ONLY <1>10
<1>12. Chain(v, c) =
         [n \in 1 .. Cardinality({m \in 0 .. M : nth[m] \in X}) |-> nth[n - 1]]
  <2>1. Chain(v, c) =
          [n \in 1 .. Cardinality({m \in 0 .. Cardinality(DOMAIN v.fat) :
                                     nth[m] \in DOMAIN v.fat}) |-> nth[n - 1]]
    BY ONLY DEF Chain
  <2> HIDE DEF nth
  <2> QED
    BY ONLY <1>2, <1>3, <2>1, Zenon
<1> HIDE DEF nth
<1>13. nth[0] = c /\ \A n \in 1 .. M :
         nth[n] = IF nth[n - 1] \in X THEN v.fat[nth[n - 1]] ELSE nth[n - 1]
  <2>1. \A n \in 0 .. M : nth[n] =
          IF n = 0 THEN c ELSE IF nth[n - 1] \in X THEN v.fat[nth[n - 1]] ELSE nth[n - 1]
    BY ONLY <1>2, <1>3, <1>11, Zenon
  <2>2. 0 \in 0 .. M /\ \A n \in 1 .. M : n \in 0 .. M /\ n # 0
    BY ONLY <1>5
  <2> QED
    BY ONLY <2>1, <2>2, Zenon
<1>14. \A n \in 0 .. M : nth[n] = F[n]
  <2> DEFINE H == {n \in 0 .. M : nth[n] = F[n]}
  <2>1. 0 \in H
    <3>1. 0 \in 0 .. M
      BY ONLY <1>5
    <3> QED
      BY ONLY <1>9, <1>13, <3>1
  <2>2. ASSUME NEW n \in 1 .. M, n - 1 \in H PROVE n \in H
    <3>1. n \in 0 .. M /\ n # 0
      BY ONLY <1>5, <2>2
    <3>2. nth[n - 1] = F[n - 1]
      BY ONLY <2>2, Zenon
    <3> QED
      BY ONLY <1>9, <1>13, <2>2, <3>1, <3>2, Zenon
  <2>3. \A n \in 0 .. M : n \in H
    <3> HIDE DEF H
    <3> QED
      BY ONLY <2>1, <2>2, <1>5, Stepwise
  <2> QED
    BY ONLY <2>3
<1>15. {m \in 0 .. M : nth[m] \in X} = 0 .. N - 1
  <2>1. \A m \in 0 .. M : nth[m] \in X <=> m < N
    <3>1. \A m \in 0 .. M : m < N => m + 1 \in 1 .. N
      BY ONLY <1>4
    <3> QED
      BY ONLY <1>4, <1>6, <1>8, <1>14, <3>1
  <2> QED
    BY ONLY <1>4, <1>5, <2>1
<1>16. Cardinality(0 .. N - 1) = N
  <2>1. 0 \in Int /\ N - 1 \in Int /\ ~ (0 > N - 1) /\ N - 1 - 0 + 1 = N
    BY ONLY <1>4
  <2> QED
    BY <2>1, FS_Interval
<1>17. \A n \in 1 .. N : nth[n - 1] = s[n]
  <2>1. \A n \in 1 .. N : n - 1 \in 0 .. M /\ n - 1 < N /\ n - 1 + 1 = n
    BY ONLY <1>4, <1>5
  <2> QED
    BY ONLY <1>8, <1>14, <2>1
<1> QED
  BY ONLY <1>4, <1>12, <1>15, <1>16, <1>17
-----------------------------------------------------------------------------
(***************************************************************************)
(* What the names of a path lead to.                                       *)
(***************************************************************************)
RootItem(v) == [slot |-> [kind |-> "directory", first |-> v.root]]
Follows(v, path, n, F) ==
  F[0] = {RootItem(v)} /\ \A m \in 1 .. n : F[m] = Under(v, F[m - 1], path[m])

LEMMA FollowExists ==
  ASSUME NEW v, NEW path, NEW N \in Nat
  PROVE  \E F : Follows(v, path, N, F)
<1> DEFINE H == {n \in 0 .. N : \E F : Follows(v, path, n, F)}
<1>1. 0 \in H
  <2>1. PICK F : F = [m \in 0 .. 0 |-> {RootItem(v)}]
    OBVIOUS
  <2>2. Follows(v, path, 0, F)
    BY ONLY <2>1 DEF Follows
  <2> QED
    BY <2>2
<1>2. ASSUME NEW n \in 1 .. N, n - 1 \in H PROVE n \in H
  <2>1. PICK F : Follows(v, path, n - 1, F)
    BY <1>2
  <2>2. PICK y : y = Under(v, F[n - 1], path[n])
    OBVIOUS
  <2>3. PICK G : G = [m \in 0 .. n |-> IF m = n THEN y ELSE F[m]]
    OBVIOUS
  <2>4. n \in Nat /\ n # 0
    BY <1>2
  <2>5. G[n] = y /\ \A m \in 0 .. n - 1 : G[m] = F[m]
    BY ONLY <2>3, <2>4
  <2>6. G[0] = {RootItem(v)}
    BY ONLY <2>1, <2>4, <2>5 DEF Follows
  <2>7. ASSUME NEW m \in 1 .. n PROVE G[m] = Under(v, G[m - 1], path[m])
    <3>1. CASE m = n
      <4>1. n - 1 \in 0 .. n - 1
        BY ONLY <2>4
      <4>2. G[n - 1] = F[n - 1]
        BY ONLY <2>5, <4>1
      <4> QED
        BY ONLY <2>2, <2>5, <3>1, <4>2
    <3>2. CASE m # n
      <4>1. m \in 1 .. n - 1 /\ m \in 0 .. n - 1 /\ m - 1 \in 0 .. n - 1
        BY ONLY <2>4, <2>7, <3>2
      <4>2. G[m] = F[m] /\ G[m - 1] = F[m - 1]
        BY ONLY <2>5, <4>1
      <4>3. F[m] = Under(v, F[m - 1], path[m])
        BY ONLY <2>1, <4>1 DEF Follows
      <4> QED
        BY ONLY <4>2, <4>3
    <3> QED
      BY ONLY <3>1, <3>2
  <2>8. Follows(v, path, n, G)
    BY ONLY <2>6, <2>7 DEF Follows
  <2> QED
    BY <2>8
<1>3. \A n \in 0 .. N : n \in H
  <2> HIDE DEF H
  <2> QED
    BY <1>1, <1>2, Stepwise
<1> QED
  BY <1>3

LEMMA ReachedFollows ==
  ASSUME NEW v, NEW path, NEW k \in Nat, NEW F, Follows(v, path, k, F)
  PROVE  Reached(v, path, k) = F[k]
<1> DEFINE Step(f) == [n \in 0 .. k |->
              IF n = 0 THEN {[slot |-> [kind |-> "directory", first |-> v.root]]}
              ELSE Under(v, f[n - 1], path[n])]
           reached == CHOOSE f : f = Step(f)
<1>1. PICK E : E = [n \in 0 .. k |-> F[n]]
  OBVIOUS
<1>2. \A n \in 0 .. k : E[n] = F[n]
  BY ONLY <1>1
<1>3. \A n \in 0 .. k : n # 0 => n \in 1 .. k /\ n - 1 \in 0 .. k
  BY <1>1
<1>4. \A n \in 0 .. k : E[n] = IF n = 0 THEN {RootItem(v)} ELSE Under(v, E[n - 1], path[n])
  <2>1. SUFFICES ASSUME NEW n \in 0 .. k
                 PROVE  E[n] = IF n = 0 THEN {RootItem(v)} ELSE Under(v, E[n - 1], path[n])
    OBVIOUS
  <2>2. CASE n = 0
    BY ONLY <1>2, <2>1, <2>2, Follows(v, path, k, F) DEF Follows
  <2>3. CASE n # 0
    <3>1. E[n] = F[n] /\ E[n - 1] = F[n - 1] /\ n \in 1 .. k
      BY ONLY <1>2, <1>3, <2>1, <2>3
    <3>2. F[n] = Under(v, F[n - 1], path[n])
      BY ONLY <3>1, Follows(v, path, k, F) DEF Follows
    <3> QED
      BY ONLY <2>3, <3>1, <3>2
  <2> QED
    BY ONLY <2>2, <2>3
<1>5. E = Step(E)
  <2>1. PICK G : G = Step(E)
    OBVIOUS
  <2>2. G = [n \in 0 .. k |-> IF n = 0 THEN {RootItem(v)} ELSE Under(v, E[n - 1], path[n])]
    BY ONLY <2>1, Zenon DEF RootItem
  <2>3. \A n \in 0 .. k : E[n] = G[n]
    BY ONLY <1>4, <2>2
  <2>4. E = [n \in 0 .. k |-> E[n]] /\ G = [n \in 0 .. k |-> G[n]]
    BY ONLY <1>1, <2>2
  <2>5. E = G
    BY ONLY <2>3, <2>4
  <2> QED
    BY ONLY <2>1, <2>5, Zenon
<1>6. reached = Step(reached)
  BY ONLY <1>5
<1>7. Reached(v, path, k) = reached[k]
  BY ONLY DEF Reached
<1> HIDE DEF reached
<1>8. \A n \in 0 .. k : reached[n] =
        IF n = 0 THEN {RootItem(v)} ELSE Under(v, reached[n - 1], path[n])
  BY ONLY <1>6, Zenon DEF RootItem
<1>9. \A n \in 0 .. k : reached[n] = E[n]
  <2> DEFINE H == {n \in 0 .. k : reached[n] = E[n]}
  <2>1. 0 \in H
    <3>1. 0 \in 0 .. k
      BY <1>1
    <3> QED
      BY ONLY <1>4, <1>8, <3>1
  <2>2. ASSUME NEW n \in 1 .. k, n - 1 \in H PROVE n \in H
    <3>1. n \in 0 .. k /\ n # 0
      BY <2>2
    <3>2. reached[n - 1] = E[n - 1]
      BY ONLY <2>2, Zenon
    <3> QED
      BY ONLY <1>4, <1>8, <3>1, <3>2, Zenon
  <2>3. \A n \in 0 .. k : n \in H
    <3> HIDE DEF H
    <3> QED
      BY <2>1, <2>2, Stepwise
  <2> QED
    BY ONLY <2>3
<1>10. k \in 0 .. k
  BY <1>1
<1> QED
  BY ONLY <1>2, <1>7, <1>9, <1>10

\* One name after the other, from the root.
LEMMA ReachedIs ==
  ASSUME NEW v, NEW path, NEW k \in Nat
  PROVE  /\ Reached(v, path, 0) = {RootItem(v)}
         /\ Reached(v, path, k + 1) = Under(v, Reached(v, path, k), path[k + 1])
<1>1. PICK F : Follows(v, path, k + 1, F)
  BY FollowExists
<1>2. /\ F[0] = {RootItem(v)}
      /\ \A m \in 1 .. k + 1 : F[m] = Under(v, F[m - 1], path[m])
  BY ONLY <1>1 DEF Follows
<1>3. Follows(v, path, 0, F) /\ Follows(v, path, k, F)
  <2>1. \A m \in 1 .. k : m \in 1 .. k + 1
    OBVIOUS
  <2>2. \A m \in 1 .. 0 : m \in 1 .. k + 1
    OBVIOUS
  <2> QED
    BY ONLY <1>2, <2>1, <2>2 DEF Follows
<1>4. /\ Reached(v, path, 0) = F[0] /\ Reached(v, path, k) = F[k]
      /\ Reached(v, path, k + 1) = F[k + 1]
  BY <1>1, <1>3, ReachedFollows
<1>5. k + 1 \in 1 .. k + 1 /\ k + 1 - 1 = k
  OBVIOUS
<1>6. F[k + 1] = Under(v, F[k], path[k + 1])
  BY ONLY <1>2, <1>5
<1> QED
  BY ONLY <1>2, <1>4, <1>6

\* Where one name leads nowhere, so does the rest.
LEMMA NothingFurther ==
  ASSUME NEW v, NEW path, NEW k \in Nat, NEW n \in Nat, k <= n,
         Reached(v, path, k) = {}
  PROVE  Reached(v, path, n) = {}
<1>1. PICK N : N \in Nat /\ N = n - k
  <2>1. n - k \in Nat
    OBVIOUS
  <2> QED
    BY ONLY <2>1
<1> DEFINE H == {m \in 0 .. N : Reached(v, path, k + m) = {}}
<1>2. 0 \in H
  BY <1>1
<1>3. ASSUME NEW m \in 1 .. N, m - 1 \in H PROVE m \in H
  <2>1. PICK l : l \in Nat /\ l = k + (m - 1)
    <3>1. k + (m - 1) \in Nat
      BY <1>1
    <3> QED
      BY ONLY <3>1
  <2>2. l + 1 = k + m /\ m \in 0 .. N
    BY <1>1, <2>1
  <2>3. Reached(v, path, l) = {}
    BY ONLY <1>3, <2>1
  <2>4. Reached(v, path, l + 1) = Under(v, {}, path[l + 1])
    BY <2>1, <2>3, ReachedIs
  <2>5. Under(v, {}, path[l + 1]) = {}
    BY ONLY DEF Under
  <2> QED
    BY ONLY <2>2, <2>4, <2>5
<1>4. \A m \in 0 .. N : m \in H
  <2> HIDE DEF H
  <2> QED
    BY <1>1, <1>2, <1>3, Stepwise
<1>5. N \in 0 .. N /\ k + N = n
  BY <1>1
<1> QED
  BY ONLY <1>4, <1>5
-----------------------------------------------------------------------------
(***************************************************************************)
(* What a directory, the slots D, lists, and where the loops over it stand. *)
(***************************************************************************)
NameIn(D, i) ==
  IF i > 1 /\ D[i - 1].kind = "long" THEN D[i - 1].name ELSE D[i].name
ListedIn(D) ==
  {i \in 1 .. Len(D) : /\ D[i].kind \in {"file", "directory"}
                       /\ \A j \in 1 .. i : D[j].kind # "end"}
Item(D, i) == [slot |-> D[i], name |-> NameIn(D, i), at |-> i, last |-> i = Len(D)]

\* A name begins at p, and none before it is the one looked for.
Behind(D, p, name) ==
  /\ p \in 1 .. Len(D) + 1
  /\ \A i \in 1 .. p - 1 :
       D[i].kind # "end" /\ (D[i].kind # "long" => NameIn(D, i) # name)
  /\ p > 1 => D[p - 1].kind # "long"

\* The name that begins at p has its entry at e.
EntryAt(D, p, e) ==
  /\ e \in p .. Len(D)
  /\ D[p].kind # "end" /\ D[e].kind # "long"
  /\ \A j \in p .. e - 1 : D[j].kind = "long"
NameAt(D, p, e) == D[IF e = p THEN p ELSE e - 1].name

LEMMA EntryListed ==
  ASSUME NEW D \in Seq(Slot), NEW p, NEW e, NEW name,
         LongGoesOn(D), Behind(D, p, name), EntryAt(D, p, e)
  PROVE  /\ e \in ListedIn(D) /\ NameIn(D, e) = NameAt(D, p, e)
         /\ \A i \in 1 .. e : D[i].kind # "end"
<1>1. PICK N : N \in Nat /\ N = Len(D)
  OBVIOUS
<1>2. /\ p \in 1 .. N + 1 /\ e \in p .. N /\ e \in Nat /\ p \in Nat /\ p <= e
      /\ \A i \in 1 .. p - 1 : D[i].kind # "end"
      /\ p > 1 => D[p - 1].kind # "long"
      /\ D[p].kind # "end" /\ D[e].kind # "long"
      /\ \A j \in p .. e - 1 : D[j].kind = "long"
  BY <1>1 DEF Behind, EntryAt
<1>3. \A i \in 1 .. N : D[i] \in Slot
  BY <1>1
<1>4. e \in 1 .. N
  BY ONLY <1>1, <1>2
<1>5. D[e].kind # "end"
  <2>1. CASE e = p
    BY ONLY <1>2, <2>1
  <2>2. CASE e # p
    <3>1. e - 1 \in p .. e - 1 /\ e - 1 \in 1 .. N - 1 /\ (e - 1) + 1 = e
      BY ONLY <1>1, <1>2, <2>2
    <3>2. D[e - 1].kind = "long"
      BY ONLY <1>2, <3>1
    <3>3. D[(e - 1) + 1].kind # "end"
      BY <1>1, <3>1, <3>2 DEF LongGoesOn
    <3> QED
      BY ONLY <3>1, <3>3
  <2> QED
    BY ONLY <2>1, <2>2
<1>6. ASSUME NEW i \in 1 .. e PROVE D[i].kind # "end"
  <2>1. i \in 1 .. p - 1 \/ i \in p .. e - 1 \/ i = e
    BY ONLY <1>2, <1>6
  <2>2. "long" # "end"
    OBVIOUS
  <2> QED
    BY ONLY <1>2, <1>5, <2>1, <2>2, Zenon
<1>7. D[e].kind \in {"file", "directory"}
  <2>1. D[e].kind \in {"end", "long", "file", "directory"}
    BY <1>3, <1>4 DEF Slot
  <2> QED
    BY ONLY <1>2, <1>5, <2>1
<1>8. NameIn(D, e) = NameAt(D, p, e)
  <2>1. CASE e = p
    BY ONLY <1>2, <2>1 DEF NameIn, NameAt
  <2>2. CASE e # p
    <3>1. e > 1 /\ e - 1 \in p .. e - 1
      BY ONLY <1>2, <2>2
    <3>2. D[e - 1].kind = "long"
      BY ONLY <1>2, <3>1
    <3> QED
      BY ONLY <2>2, <3>1, <3>2 DEF NameIn, NameAt
  <2> QED
    BY ONLY <2>1, <2>2
<1> QED
  BY ONLY <1>1, <1>4, <1>6, <1>7, <1>8 DEF ListedIn

LEMMA FirstOfItsName ==
  ASSUME NEW D \in Seq(Slot), NEW p, NEW e, NEW name,
         Behind(D, p, name), EntryAt(D, p, e),
         NEW i \in ListedIn(D), NameIn(D, i) = name
  PROVE  e <= i
<1>1. PICK N : N \in Nat /\ N = Len(D)
  OBVIOUS
<1>2. /\ p \in 1 .. N + 1 /\ e \in p .. N
      /\ \A j \in 1 .. p - 1 : D[j].kind # "long" => NameIn(D, j) # name
      /\ \A j \in p .. e - 1 : D[j].kind = "long"
  BY <1>1 DEF Behind, EntryAt
<1>3. i \in 1 .. N /\ D[i].kind # "long"
  BY <1>1 DEF ListedIn
<1>4. i \notin 1 .. p - 1 /\ i \notin p .. e - 1
  BY ONLY <1>2, <1>3, NameIn(D, i) = name
<1> QED
  BY ONLY <1>1, <1>2, <1>3, <1>4

LEMMA BehindNext ==
  ASSUME NEW D \in Seq(Slot), NEW p, NEW e, NEW name,
         LongGoesOn(D), Behind(D, p, name), EntryAt(D, p, e), NameAt(D, p, e) # name
  PROVE  Behind(D, e + 1, name)
<1>1. PICK N : N \in Nat /\ N = Len(D)
  OBVIOUS
<1>2. /\ p \in 1 .. N + 1 /\ e \in p .. N
      /\ \A j \in 1 .. p - 1 : D[j].kind # "long" => NameIn(D, j) # name
      /\ \A j \in p .. e - 1 : D[j].kind = "long"
      /\ D[e].kind # "long"
  BY <1>1 DEF Behind, EntryAt
<1>3. NameIn(D, e) # name /\ \A i \in 1 .. e : D[i].kind # "end"
  BY EntryListed
<1>4. ASSUME NEW i \in 1 .. e, D[i].kind # "long" PROVE NameIn(D, i) # name
  <2>1. i \in 1 .. p - 1 \/ i \in p .. e - 1 \/ i = e
    BY ONLY <1>1, <1>2, <1>4
  <2> QED
    BY ONLY <1>2, <1>3, <1>4, <2>1, Zenon
<1>5. /\ e + 1 \in 1 .. N + 1 /\ (e + 1) - 1 = e /\ e + 1 > 1
  BY ONLY <1>1, <1>2
<1> QED
  BY ONLY <1>1, <1>2, <1>3, <1>4, <1>5 DEF Behind

\* Where the list ends, or the directory does, all of it has been passed.
LEMMA NoneOfTheName ==
  ASSUME NEW D \in Seq(Slot), NEW p, NEW name, Behind(D, p, name),
         p > Len(D) \/ D[p].kind = "end",
         NEW i \in ListedIn(D)
  PROVE  NameIn(D, i) # name /\ i < p
<1>1. PICK N : N \in Nat /\ N = Len(D)
  OBVIOUS
<1>2. /\ p \in 1 .. N + 1
      /\ \A j \in 1 .. p - 1 : D[j].kind # "long" => NameIn(D, j) # name
      /\ p > N \/ D[p].kind = "end"
  BY <1>1 DEF Behind
<1>3. i \in 1 .. N /\ D[i].kind # "long" /\ \A j \in 1 .. i : D[j].kind # "end"
  BY <1>1 DEF ListedIn
<1>4. p <= i => p \in 1 .. i /\ ~ (p > N)
  BY ONLY <1>1, <1>2, <1>3
<1>5. ~ (p <= i)
  BY ONLY <1>2, <1>3, <1>4
<1>6. i \in 1 .. p - 1 /\ i < p
  BY ONLY <1>1, <1>2, <1>3, <1>5
<1> QED
  BY ONLY <1>2, <1>3, <1>6

LEMMA ItemsAre ==
  ASSUME NEW v \in Volumes, NEW s, NEW c, Whole(v, s, c)
  PROVE  Items(v, c) = {Item(SlotsOf(v, s), i) : i \in ListedIn(SlotsOf(v, s))}
<1>1. PICK D : D = SlotsOf(v, s)
  OBVIOUS
<1>2. Chain(v, c) = s
  BY ChainIs
<1>3. Items(v, c) =
        {[slot |-> D[i],
          name |-> IF i > 1 /\ D[i - 1].kind = "long" THEN D[i - 1].name ELSE D[i].name,
          at |-> i, last |-> i = Len(D)] :
           i \in {j \in 1 .. Len(D) : /\ D[j].kind \in {"file", "directory"}
                                      /\ \A k \in 1 .. j : D[k].kind # "end"}}
  BY ONLY <1>1, <1>2 DEF Items
<1> QED
  BY ONLY <1>1, <1>3 DEF Item, NameIn, ListedIn

\* What one directory lists under a name: the first, if there is one.
Firsts(D, name) ==
  {i \in ListedIn(D) : /\ NameIn(D, i) = name
                       /\ \A j \in ListedIn(D) : NameIn(D, j) = name => i <= j}

IsDirectory(v, s, d) ==
  v \in Volumes /\ d.slot.kind = "directory" /\ Whole(v, s, d.slot.first)

LEMMA UnderOne ==
  ASSUME NEW v, NEW s, NEW d, IsDirectory(v, s, d), NEW name
  PROVE  Under(v, {d}, name) = {Item(SlotsOf(v, s), i) : i \in Firsts(SlotsOf(v, s), name)}
<1> USE DEF IsDirectory
<1>1. PICK D : D = SlotsOf(v, s)
  OBVIOUS
<1>2. PICK L : L = ListedIn(D)
  OBVIOUS
<1>3. PICK I : I = Items(v, d.slot.first)
  OBVIOUS
<1>4. I = {Item(D, i) : i \in L}
  BY <1>1, <1>2, <1>3, ItemsAre
<1>5. \A i : Item(D, i).at = i /\ Item(D, i).name = NameIn(D, i)
  BY ONLY DEF Item
<1>6. Under(v, {d}, name) =
        {i \in I : i.name = name /\ \A j \in I : j.name = name => i.at <= j.at}
  <2> DEFINE FirstOf(list) ==
        {i \in list : i.name = name /\ \A j \in list : j.name = name => i.at <= j.at}
  <2>1. {e \in {d} : e.slot.kind = "directory"} = {d}
    BY ONLY IsDirectory(v, s, d)
  <2>2. Under(v, {d}, name) =
          UNION {FirstOf(Items(v, e.slot.first)) :
                   e \in {e \in {d} : e.slot.kind = "directory"}}
    BY ONLY DEF Under
  <2> HIDE DEF FirstOf
  <2>3. Under(v, {d}, name) = UNION {FirstOf(Items(v, e.slot.first)) : e \in {d}}
    BY ONLY <2>1, <2>2
  <2>4. Under(v, {d}, name) = FirstOf(Items(v, d.slot.first))
    BY ONLY <2>3
  <2> QED
    BY ONLY <1>3, <2>4 DEF FirstOf
<1>7. ASSUME NEW x \in Under(v, {d}, name)
      PROVE  \E i \in Firsts(D, name) : x = Item(D, i)
  <2>1. x \in I /\ x.name = name /\ \A j \in I : j.name = name => x.at <= j.at
    BY ONLY <1>6, <1>7
  <2>2. PICK i \in L : x = Item(D, i)
    BY ONLY <1>4, <2>1
  <2>3. NameIn(D, i) = name
    BY ONLY <1>5, <2>1, <2>2
  <2>4. ASSUME NEW j \in L, NameIn(D, j) = name PROVE i <= j
    <3>1. Item(D, j) \in I
      BY ONLY <1>4, <2>4
    <3> QED
      BY ONLY <1>5, <2>1, <2>2, <2>4, <3>1
  <2>5. i \in Firsts(D, name)
    BY <1>2, <2>2, <2>3, <2>4 DEF Firsts
  <2> QED
    BY ONLY <2>2, <2>5
<1>8. ASSUME NEW i \in Firsts(D, name) PROVE Item(D, i) \in Under(v, {d}, name)
  <2>1. i \in L /\ NameIn(D, i) = name /\ \A j \in L : NameIn(D, j) = name => i <= j
    BY ONLY <1>2, <1>8 DEF Firsts
  <2>2. Item(D, i) \in I
    BY ONLY <1>4, <2>1
  <2>3. ASSUME NEW x \in I, x.name = name PROVE Item(D, i).at <= x.at
    <3>1. PICK j \in L : x = Item(D, j)
      BY ONLY <1>4, <2>3
    <3> QED
      BY ONLY <1>5, <2>1, <2>3, <3>1
  <2> QED
    BY ONLY <1>5, <1>6, <2>1, <2>2, <2>3
<1> QED
  BY <1>1, <1>7, <1>8

\* The loop over a directory comes to what the directory lists under the name,
\* or passes all of it when there is nothing.
ComesTo(v, s, d, name, p, e) ==
  /\ v \in Volumes /\ d.slot.kind = "directory" /\ Whole(v, s, d.slot.first)
  /\ Behind(SlotsOf(v, s), p, name) /\ EntryAt(SlotsOf(v, s), p, e)
  /\ NameAt(SlotsOf(v, s), p, e) = name

LEMMA UnderFound ==
  ASSUME NEW v, NEW s, NEW d, NEW name, NEW p, NEW e, ComesTo(v, s, d, name, p, e)
  PROVE  /\ Under(v, {d}, name) = {Item(SlotsOf(v, s), e)}
         /\ SlotsOf(v, s)[e].kind \in {"file", "directory"}
<1> USE DEF ComesTo
<1>1. PICK D : D = SlotsOf(v, s)
  OBVIOUS
<1>2. D \in Seq(Slot) /\ LongGoesOn(D)
  <2>1. D \in Seq(Entries(v)) /\ LongGoesOn(D)
    BY <1>1, SlotsFacts DEF Whole
  <2>2. Entries(v) \subseteq Slot
    BY DEF Entries
  <2> QED
    BY ONLY <2>1, <2>2
<1>3. e \in ListedIn(D) /\ NameIn(D, e) = name
  BY <1>1, <1>2, EntryListed
<1>4. \A i \in ListedIn(D) : NameIn(D, i) = name => e <= i
  BY <1>1, <1>2, FirstOfItsName
<1>5. Firsts(D, name) = {e}
  <2>1. e \in Firsts(D, name)
    BY ONLY <1>3, <1>4 DEF Firsts
  <2>2. ASSUME NEW i \in Firsts(D, name) PROVE i = e
    <3>1. i \in ListedIn(D) /\ NameIn(D, i) = name /\ i <= e
      BY ONLY <1>3, <2>2 DEF Firsts
    <3>2. e <= i /\ i \in Nat /\ e \in Nat
      BY <1>2, <1>3, <1>4, <3>1 DEF ListedIn
    <3> QED
      BY ONLY <3>1, <3>2
  <2> QED
    BY ONLY <2>1, <2>2
<1>6. Under(v, {d}, name) = {Item(D, i) : i \in Firsts(D, name)}
  <2>1. Under(v, {d}, name) = {Item(SlotsOf(v, s), i) : i \in Firsts(SlotsOf(v, s), name)}
    <3>1. IsDirectory(v, s, d)
      BY DEF IsDirectory
    <3> QED
      BY ONLY <3>1, UnderOne
  <2> QED
    BY ONLY <1>1, <2>1, Zenon
<1>7. D[e].kind \in {"file", "directory"}
  BY <1>3 DEF ListedIn
<1> QED
  BY ONLY <1>1, <1>5, <1>6, <1>7

LEMMA UnderNone ==
  ASSUME NEW v \in Volumes, NEW s, NEW d, Whole(v, s, d.slot.first),
         d.slot.kind = "directory", NEW name, NEW p,
         Behind(SlotsOf(v, s), p, name),
         p > Len(SlotsOf(v, s)) \/ SlotsOf(v, s)[p].kind = "end"
  PROVE  Under(v, {d}, name) = {}
<1>1. PICK D : D = SlotsOf(v, s)
  OBVIOUS
<1>2. D \in Seq(Slot)
  <2>1. D \in Seq(Entries(v))
    BY <1>1, SlotsFacts DEF Whole
  <2>2. Entries(v) \subseteq Slot
    BY DEF Entries
  <2> QED
    BY ONLY <2>1, <2>2
<1>3. \A i \in ListedIn(D) : NameIn(D, i) # name
  BY <1>1, <1>2, NoneOfTheName
<1>4. Firsts(D, name) = {}
  BY ONLY <1>3 DEF Firsts
<1>5. Under(v, {d}, name) = {Item(D, i) : i \in Firsts(D, name)}
  <2>1. Under(v, {d}, name) = {Item(SlotsOf(v, s), i) : i \in Firsts(SlotsOf(v, s), name)}
    <3>1. IsDirectory(v, s, d)
      BY DEF IsDirectory
    <3> QED
      BY ONLY <3>1, UnderOne
  <2> QED
    BY ONLY <1>1, <2>1, Zenon
<1> QED
  BY ONLY <1>4, <1>5
-----------------------------------------------------------------------------
(***************************************************************************)
(* The invariant of the driver, and the loops it is about.                 *)
(***************************************************************************)
FatTypes ==
  /\ TypeOK
  /\ call \in {"open", "load", "font"}
  /\ asked \in Seq(STRING) /\ bufsize \in Nat
  /\ IF pc = "idle" THEN buf = <<>> ELSE depth \in 1 .. Len(asked)
  /\ pc = "opendir" => depth < Len(asked)
  /\ pc \in {"readdir", "file_length", "file_read", "opened", "loaded"} => depth = Len(asked)
  /\ \A n \in Sizes : size + n < Wide
  /\ pc \in {"file_length", "opened"} => call = "open"
  /\ pc = "loaded" => call # "open"
  /\ pc = "failed" => call = "open"
  /\ call = "font" => Len(asked) = 1
  /\ pc = "file_read" /\ call # "open" => bufsize = Limit

\* The loops over a chain are on the way along it, with a buffer that fits, but
\* for those of fixed size.
Counting ==
  pc \in {"directory_length", "file_length"} =>
    \E s : Leads(volume, s, first) /\ Len(s) = length + 1 /\ s[Len(s)] = cluster
Read == IF cluster = OtherMark THEN Leads(volume, buf, first)
        ELSE cluster \in DOMAIN volume.fat /\ Leads(volume, Append(buf, cluster), first)
Reading ==
  /\ pc \in {"directory_read", "file_read"} => Read
  /\ pc = "directory_read" \/ (pc = "file_read" /\ call = "open") =>
       /\ cluster # OtherMark
       /\ \E s : Whole(volume, s, first) /\ Len(s) * volume.unit <= bufsize
  /\ (pc = "file_read" /\ call = "open") \/ pc = "opened" => size <= bufsize
ReadWhole ==
  pc \in {"opendir", "readdir", "opened"} => Whole(volume, buf, first)

\* The loops over a directory stand where a name begins, behind the names that
\* are not the one they look for.
Positioned ==
  pc \in {"opendir", "readdir"} => Behind(Directory, pos, asked[depth])

LoopInv == FatTypes /\ Counting /\ Reading /\ ReadWhole /\ Positioned

\* What has been found is what the names so far lead to.
Standing ==
  ~ ThroughFile(asked) =>
    /\ pc \in {"directory_length", "directory_read", "opendir", "readdir"} =>
         \E d : /\ Reached(volume, asked, depth - 1) = {d}
                /\ d.slot.kind = "directory" /\ d.slot.first = first
    /\ pc \in {"file_length", "file_read", "opened", "loaded"} =>
         IF Missing THEN call = "load" => first = 0 /\ size = 0
         ELSE \E i \in Reached(volume, asked, Len(asked)) :
                i.slot.first = first /\ i.slot.size = size

\* How a search may end.
Filled ==
  pc = "loaded" =>
    /\ Linked(buf, first)
    /\ /\ size <= (Limit \div volume.unit) * volume.unit
       /\ size <= Len(Chain(volume, first)) * volume.unit
       => size <= Len(buf) * volume.unit
FailsRight ==
  pc = "failed" /\ ~ ThroughFile(asked) =>
    \/ Reached(volume, asked, Len(asked)) = {}
    \/ \E i \in Reached(volume, asked, Len(asked)) :
         Len(Chain(volume, i.slot.first)) * volume.unit < i.slot.size

FatInv == LoopInv /\ Standing /\ Filled /\ FailsRight

\* A slot, or what exec goes on with when it has found none, is read.
Fits(e) ==
  e.first \in DOMAIN volume.fat /\ e.size \in Nat /\ \A n \in Sizes : e.size + n < Wide
Taken == \E e : Fits(e) /\ Take(e)

\* A search begins, as exec's, fat_open's or DisplayInit's does.
Begin ==
  \E what \in {"open", "load", "font"}, path \in Seq(STRING) \ {<<>>} :
    Search(what, path) /\ (what = "font" => Len(path) = 1)
-----------------------------------------------------------------------------
LEMMA DirectoryFacts ==
  ASSUME volume \in Volumes, Whole(volume, buf, first)
  PROVE  /\ Directory \in Seq(Slot) /\ Directory # <<>> /\ LongGoesOn(Directory)
         /\ \A i \in 1 .. Len(Directory) : Directory[i] \in Entries(volume)
<1>1. PICK D : D = Directory
  OBVIOUS
<1>2. D \in Seq(Entries(volume)) /\ D # <<>> /\ LongGoesOn(D)
  BY <1>1, SlotsFacts DEF Whole, Directory
<1>3. Entries(volume) \subseteq Slot
  BY DEF Entries
<1>4. D \in Seq(Slot) /\ \A i \in 1 .. Len(D) : D[i] \in Entries(volume)
  BY ONLY <1>2, <1>3
<1> QED
  BY ONLY <1>1, <1>2, <1>4

LEMMA EntryFacts ==
  ASSUME LoopInv, pc \in {"opendir", "readdir"}, IsName
  PROVE  /\ EntryAt(Directory, pos, Entry)
         /\ Entry \in 1 .. Len(Directory) /\ pos \in 1 .. Len(Directory)
         /\ Directory[Entry] \in Entries(volume)
         /\ Behind(Directory, pos, asked[depth])
         /\ Directory \in Seq(Slot) /\ LongGoesOn(Directory)
         /\ Whole(volume, buf, first) /\ volume \in Volumes
         /\ Named(asked[depth]) <=> NameAt(Directory, pos, Entry) = asked[depth]
<1>1. PICK D : D = Directory
  OBVIOUS
<1>2. Behind(D, pos, asked[depth]) /\ Whole(volume, buf, first) /\ volume \in Volumes
  BY <1>1 DEF LoopInv, Positioned, ReadWhole, FatTypes, TypeOK
<1>3. /\ D \in Seq(Slot) /\ LongGoesOn(D)
      /\ \A i \in 1 .. Len(D) : D[i] \in Entries(volume)
  BY <1>1, <1>2, DirectoryFacts
<1>4. PICK N : N \in Nat /\ N = Len(D)
  BY ONLY <1>3
<1>5. pos \in 1 .. N + 1
  BY ONLY <1>2, <1>4 DEF Behind
<1>6. pos <= N /\ D[pos].kind # "end" /\ \E i \in pos .. N : D[i].kind # "long"
  BY <1>1, <1>4 DEF IsName, NoName, BrokenOff
<1> DEFINE T == {i \in pos .. N : D[i].kind # "long"}
<1>7. T \subseteq Nat /\ T # {}
  BY ONLY <1>4, <1>5, <1>6
<1>8. PICK e : e \in T /\ \A m \in T : e <= m
  <2> HIDE DEF T
  <2> QED
    BY ONLY <1>7, LeastNatural
<1>9. e \in pos .. N /\ D[e].kind # "long" /\ \A j \in pos .. e - 1 : D[j].kind = "long"
  <2>1. e \in pos .. N /\ D[e].kind # "long"
    BY ONLY <1>8
  <2>2. ASSUME NEW j \in pos .. e - 1 PROVE D[j].kind = "long"
    <3>1. j \in pos .. N /\ ~ (e <= j)
      BY ONLY <1>4, <1>5, <2>1, <2>2
    <3> QED
      BY ONLY <1>8, <3>1
  <2> QED
    BY ONLY <2>1, <2>2
<1>10. /\ Entry \in pos .. N /\ D[Entry].kind # "long"
       /\ \A j \in pos .. Entry - 1 : D[j].kind = "long"
  <2>1. Entry = CHOOSE i \in pos .. N :
                   D[i].kind # "long" /\ \A j \in pos .. i - 1 : D[j].kind = "long"
    BY ONLY <1>1, <1>4, Zenon DEF Entry
  <2> QED
    BY ONLY <1>9, <2>1, Zenon
<1>11. EntryAt(D, pos, Entry)
  BY ONLY <1>4, <1>6, <1>10 DEF EntryAt
<1>12. pos \in 1 .. N /\ Entry \in 1 .. N
  BY ONLY <1>4, <1>5, <1>6, <1>10
<1>13. Named(asked[depth]) <=> NameAt(Directory, pos, Entry) = asked[depth]
  BY ONLY Zenon DEF Named, NameAt
<1> QED
  BY ONLY <1>1, <1>2, <1>3, <1>4, <1>11, <1>12, <1>13

\* An entry points to a cluster, and has a size that can be added to.
LEMMA EntriesFacts ==
  ASSUME NEW e \in Entries(volume)
  PROVE  /\ e.first \in DOMAIN volume.fat /\ e.size \in Nat
         /\ \A n \in Sizes : e.size + n < Wide
<1>1. e \in Slot
  BY DEF Entries
<1> QED
  BY <1>1 DEF Entries, Slot

\* From a cluster to the next, or to the end.
LEMMA LeadsOn ==
  ASSUME NEW v, NEW s, NEW c, NEW d \in DOMAIN v.fat, Leads(v, s, c), v.fat[s[Len(s)]] = d
  PROVE  /\ Leads(v, Append(s, d), c) /\ Len(Append(s, d)) = Len(s) + 1
         /\ Append(s, d)[Len(s) + 1] = d
<1>1. PICK N : N = Len(s)
  OBVIOUS
<1>2. N \in Nat \ {0} /\ s \in Seq(DOMAIN v.fat) /\ s[1] = c
      /\ \A i \in 1 .. N : i < N => v.fat[s[i]] = s[i + 1] /\ i + 1 \in 1 .. N
  BY <1>1, LeadsFacts DEF Leads
<1>3. PICK t : t = Append(s, d)
  OBVIOUS
<1>4. /\ t \in Seq(DOMAIN v.fat) /\ t # <<>> /\ Len(t) = N + 1
      /\ \A i \in 1 .. N : t[i] = s[i]
      /\ t[N + 1] = d
  BY ONLY <1>1, <1>2, <1>3, d \in DOMAIN v.fat
<1>5. ASSUME NEW i \in 1 .. Len(t) - 1 PROVE v.fat[t[i]] = t[i + 1]
  <2>1. i \in 1 .. N /\ (i = N \/ i < N)
    BY ONLY <1>2, <1>4, <1>5
  <2> QED
    BY <1>1, <1>2, <1>4, <2>1
<1>6. t[1] = c
  BY ONLY <1>2, <1>4
<1> QED
  BY ONLY <1>1, <1>3, <1>4, <1>5, <1>6 DEF Leads

LEMMA LeadsOne ==
  ASSUME NEW v, NEW c \in DOMAIN v.fat
  PROVE  Leads(v, <<c>>, c) /\ Append(<<>>, c) = <<c>> /\ Len(<<c>>) = 1
<1>1. PICK S : S = DOMAIN v.fat
  OBVIOUS
<1>2. <<c>> \in Seq(S) /\ <<c>> # <<>> /\ Len(<<c>>) = 1 /\ <<c>>[1] = c
  <2>1. c \in S
    BY <1>1
  <2>2. <<c>> \in Seq(S)
    BY ONLY <2>1
  <2>3. <<c>> # <<>> /\ Len(<<c>>) = 1 /\ <<c>>[1] = c
    OBVIOUS
  <2> QED
    BY ONLY <2>2, <2>3
<1>3. \A i \in 1 .. Len(<<c>>) - 1 : FALSE
  BY ONLY <1>2
<1>4. Append(<<>>, c) = <<c>>
  OBVIOUS
<1> QED
  BY ONLY <1>1, <1>2, <1>3, <1>4 DEF Leads

\* Products of what is counted and the size of a cluster.
LEMMA Products ==
  ASSUME NEW a \in Nat, NEW b \in Nat, NEW u \in Nat \ {0}
  PROVE  /\ a * u \in Nat
         /\ a <= b => a * u <= b * u
         /\ a * u < (b + 1) * u => a <= b
<1>1. a * u \in Nat
  OBVIOUS
<1>2. ASSUME a <= b PROVE a * u <= b * u
  <2>1. b - a \in Nat /\ (b - a) * u \in Nat
    BY <1>2
  <2>2. b * u = a * u + (b - a) * u
    BY <2>1
  <2> QED
    BY <1>1, <2>1, <2>2
<1>3. ASSUME a * u < (b + 1) * u PROVE a <= b
  <2> SUFFICES ASSUME ~ (a <= b) PROVE FALSE
    OBVIOUS
  <2>1. a - (b + 1) \in Nat /\ (a - (b + 1)) * u \in Nat
    OBVIOUS
  <2>2. a * u = (b + 1) * u + (a - (b + 1)) * u
    BY <2>1
  <2>3. (b + 1) * u \in Nat
    OBVIOUS
  <2> QED
    BY <1>3, <2>1, <2>2, <2>3
<1> QED
  BY <1>1, <1>2, <1>3
-----------------------------------------------------------------------------
(***************************************************************************)
(* No step of the driver leaves the chain, the buffer or the directory     *)
(* that it is in.                                                          *)
(***************************************************************************)
LEMMA SizesFit ==
  ASSUME NEW v \in Volumes, NEW n \in Sizes
  PROVE  n \in Nat /\ 0 + n < Wide /\ Wide \in Nat
<1>1. n \in Nat /\ Wide \in Nat
  BY FatAssumption
<1>2. v.root \in DOMAIN v.fat
  BY VolumeFacts
<1>3. PICK q : q = v.slots[v.root]
  OBVIOUS
<1>4. q \in Seq(Entries(v)) /\ q # <<>>
  BY <1>2, <1>3, ClusterFacts
<1>5. q[1] \in Entries(v)
  BY ONLY <1>4
<1>6. q[1].size \in Nat /\ q[1].size + n < Wide
  BY <1>5 DEF Entries, Slot
<1> QED
  BY ONLY <1>1, <1>6

LEMMA LoopInit == Init => LoopInv
<1> SUFFICES ASSUME Init PROVE LoopInv
  OBVIOUS
<1>1. volume \in Volumes /\ pc = "idle" /\ buf = <<>> /\ first = 0 /\ cluster = 0 /\ size = 0
  BY DEF Init
<1>2. 0 \in DOMAIN volume.fat /\ volume.unit \in Nat \ {0}
  BY <1>1, VolumeFacts
<1>3. \A n \in Sizes : size + n < Wide
  BY <1>1, SizesFit
<1>4. <<>> \in Seq(DOMAIN volume.fat) /\ Len(<<>>) = 0 /\ <<>> \in Seq(STRING)
  OBVIOUS
<1>5. TypeOK
  BY <1>1, <1>2, <1>4 DEF TypeOK, Init
<1>6. FatTypes
  BY <1>1, <1>3, <1>4, <1>5 DEF FatTypes, Init
<1> QED
  BY <1>1, <1>6 DEF LoopInv, Counting, Reading, ReadWhole, Positioned

LEMMA TypesNext ==
  ASSUME volume \in Volumes, volume' = volume,
         pc' \in {"idle", "directory_length", "directory_read", "opendir", "readdir",
                 "file_length", "file_read", "opened", "loaded", "failed",
                 "astray", "overrun"},
         first' \in DOMAIN volume.fat, cluster' \in DOMAIN volume.fat \cup {OtherMark},
         buf' \in Seq(DOMAIN volume.fat), Len(buf') * volume.unit <= bufsize',
         depth' \in 0 .. Len(asked'), pos' \in Nat,
         pc' = "opendir" => pos' \in 1 .. Len(Directory'),
         offset' \in Int, length' \in Nat, size' \in Nat
  PROVE  TypeOK'
<1>1. PICK X : X = DOMAIN volume.fat
  OBVIOUS
<1>2. DOMAIN volume'.fat = X /\ volume'.unit = volume.unit
  BY <1>1
<1>3. first' \in X /\ cluster' \in X \cup {OtherMark} /\ buf' \in Seq(X)
  BY <1>1, Zenon
<1>4. Len(buf') * volume'.unit <= bufsize'
  BY <1>2, Zenon
<1> QED
  BY <1>2, <1>3, <1>4, Zenon DEF TypeOK

LEMMA NoClusters ==
  ASSUME NEW S, NEW u \in Nat
  PROVE  <<>> \in Seq(S) /\ Len(<<>>) * u = 0
<1>1. <<>> \in Seq(S)
  OBVIOUS
<1>2. Len(<<>>) = 0
  OBVIOUS
<1> QED
  BY <1>1, <1>2

LEMMA LoopBegin == ASSUME LoopInv, Begin PROVE LoopInv'
<1>1. PICK what \in {"open", "load", "font"}, path \in Seq(STRING) \ {<<>>} :
        Search(what, path) /\ (what = "font" => Len(path) = 1)
  BY DEF Begin
<1>2. /\ volume' = volume /\ pc = "idle" /\ pc' = "directory_length" /\ call' = what
      /\ asked' = path /\ depth' = 1 /\ first' = volume.root /\ cluster' = volume.root
      /\ length' = 0 /\ bufsize' = 0 /\ buf' = buf /\ pos' = pos /\ size' = size
      /\ offset' = offset
  BY <1>1 DEF Search
<1>3. /\ volume \in Volumes /\ buf = <<>> /\ pos \in Nat /\ size \in Nat /\ offset \in Int
      /\ \A n \in Sizes : size + n < Wide
  BY <1>2 DEF LoopInv, FatTypes, TypeOK
<1>4. volume.root \in DOMAIN volume.fat /\ volume.unit \in Nat \ {0}
  BY <1>3, VolumeFacts
<1>5. Len(path) \in Nat \ {0}
  BY <1>1
<1>6. TypeOK'
  <2>1. buf' = <<>>
    BY <1>2, <1>3
  <2>2. buf' \in Seq(DOMAIN volume.fat) /\ Len(buf') * volume.unit <= bufsize'
    BY <1>2, <1>4, <2>1, NoClusters
  <2>3. depth' \in 0 .. Len(asked')
    BY <1>2, <1>5
  <2> QED
    BY <1>2, <1>3, <1>4, <2>2, <2>3, TypesNext
<1>7. FatTypes'
  BY <1>1, <1>2, <1>3, <1>5, <1>6 DEF FatTypes
<1>8. Counting'
  <2>1. PICK t : t = <<volume.root>>
    OBVIOUS
  <2>2. Leads(volume, t, volume.root) /\ Len(t) = 1 /\ t[1] = volume.root
    BY <1>4, <2>1, LeadsOne
  <2>3. Len(t) = length' + 1 /\ t[Len(t)] = cluster' /\ Leads(volume', t, first')
    BY ONLY <1>2, <2>2
  <2> QED
    BY ONLY <2>3 DEF Counting
<1> QED
  BY <1>2, <1>7, <1>8 DEF LoopInv, Reading, ReadWhole, Positioned

LEMMA LoopCount == ASSUME LoopInv, CountCluster PROVE LoopInv'
<1>1. /\ pc \in {"directory_length", "file_length"} /\ length' = length + 1
      /\ UNCHANGED <<volume, call, asked, depth, first, pos, size, offset>>
  BY DEF CountCluster
<1>2. /\ volume \in Volumes /\ first \in DOMAIN volume.fat
      /\ pos \in Nat /\ offset \in Int /\ length \in Nat /\ size \in Nat
      /\ buf \in Seq(DOMAIN volume.fat) /\ Len(buf) * volume.unit <= bufsize
      /\ bufsize \in Nat /\ depth \in 1 .. Len(asked)
      /\ cluster \in DOMAIN volume.fat
  <2>1. PICK s : Leads(volume, s, first) /\ Len(s) = length + 1 /\ s[Len(s)] = cluster
    BY <1>1 DEF LoopInv, Counting
  <2>2. Len(s) \in 1 .. Len(s) /\ \A i \in 1 .. Len(s) : s[i] \in DOMAIN volume.fat
    BY <2>1, LeadsFacts
  <2>3. cluster \in DOMAIN volume.fat
    BY <2>1, <2>2
  <2> QED
    BY <1>1, <2>3 DEF LoopInv, FatTypes, TypeOK
<1>3. volume.unit \in Nat \ {0} /\ EndOfFile \notin DOMAIN volume.fat
  BY <1>2, VolumeFacts
<1>4. PICK s : Leads(volume, s, first) /\ Len(s) = length + 1 /\ s[Len(s)] = cluster
  BY <1>1 DEF LoopInv, Counting
<1>5. CASE NextInChain = EndOfFile
  <2>1. /\ pc' = IF pc = "directory_length" THEN "directory_read"
                 ELSE IF BufferFor < size THEN "failed" ELSE "file_read"
        /\ cluster' = first /\ bufsize' = BufferFor /\ buf' = <<>>
    <3>1. EndOfFile # OtherMark
      BY FatAssumption
    <3> QED
      BY ONLY CountCluster, <1>3, <1>5, <3>1 DEF CountCluster
  <2>2. Whole(volume, s, first)
    BY <1>4, <1>5 DEF Whole, NextInChain
  <2>3. BufferFor \in Nat /\ Len(s) * volume.unit <= BufferFor
    BY <1>2, <1>3, <1>4 DEF BufferFor, Needed
  <2>4. TypeOK'
    <3>1. buf' \in Seq(DOMAIN volume.fat) /\ Len(buf') * volume.unit <= bufsize'
      BY <1>3, <2>1, <2>3, NoClusters
    <3> QED
      BY <1>1, <1>2, <2>1, <3>1, TypesNext
  <2>5. FatTypes'
    BY <1>1, <1>2, <2>1, <2>3, <2>4 DEF LoopInv, FatTypes
  <2>6. Leads(volume, Append(<<>>, first), first) /\ first # OtherMark
    BY <1>2, LeadsOne, VolumeFacts
  <2>7. Reading'
    BY <1>1, <1>2, <2>1, <2>2, <2>3, <2>6 DEF Reading, Read
  <2> QED
    BY <1>1, <2>1, <2>5, <2>7 DEF LoopInv, Counting, ReadWhole, Positioned
<1>6. CASE NextInChain \in DOMAIN volume.fat
  <2>1. cluster' = NextInChain /\ UNCHANGED <<pc, bufsize, buf>>
    BY <1>2, <1>3, <1>6, VolumeFacts DEF CountCluster
  <2>2. TypeOK'
    BY <1>1, <1>2, <1>6, <2>1, TypesNext
  <2>3. FatTypes'
    BY <1>1, <1>2, <2>1, <2>2 DEF LoopInv, FatTypes
  <2>4. Counting'
    <3>1. volume.fat[s[Len(s)]] = NextInChain
      BY <1>4 DEF NextInChain
    <3>2. PICK t : t = Append(s, NextInChain)
      OBVIOUS
    <3>3. Leads(volume, t, first) /\ Len(t) = Len(s) + 1 /\ t[Len(s) + 1] = NextInChain
      BY <1>4, <1>6, <3>1, <3>2, LeadsOn
    <3>4. Len(t) = length' + 1 /\ t[Len(t)] = cluster'
      BY <1>1, <1>4, <2>1, <3>3
    <3> QED
      BY <1>1, <3>3, <3>4 DEF Counting
  <2> QED
    BY <1>1, <2>1, <2>3, <2>4 DEF LoopInv, Reading, ReadWhole, Positioned
<1>7. CASE NextInChain = OtherMark
  <2>1. pc' = "astray" /\ UNCHANGED <<cluster, bufsize, buf>>
    BY <1>2, <1>7, VolumeFacts, FatAssumption DEF CountCluster
  <2>2. TypeOK'
    BY <1>1, <1>2, <2>1, TypesNext
  <2>3. FatTypes'
    BY <1>1, <1>2, <2>1, <2>2 DEF LoopInv, FatTypes
  <2> QED
    BY <2>1, <2>3 DEF LoopInv, Counting, Reading, ReadWhole, Positioned
<1> QED
  BY <1>5, <1>6, <1>7 DEF CountCluster

\* No other mark stands in a chain that has an end.
LEMMA NoMarkInside ==
  ASSUME NEW v \in Volumes, NEW s, NEW t, NEW c, Whole(v, s, c), Leads(v, t, c)
  PROVE  v.fat[t[Len(t)]] # OtherMark
<1>1. PICK N : N = Len(t)
  OBVIOUS
<1>2. Leads(v, s, c) /\ v.fat[s[Len(s)]] = EndOfFile
  BY DEF Whole
<1>3. /\ Len(s) \in Nat \ {0} /\ N \in Nat \ {0} /\ N <= Len(s)
      /\ \A i \in 1 .. Len(s) : s[i] \in DOMAIN v.fat
      /\ \A i \in 1 .. Len(s) : i < Len(s) => v.fat[s[i]] = s[i + 1] /\ i + 1 \in 1 .. Len(s)
  BY <1>1, <1>2, WholeLongest, LeadsFacts
<1>4. \A k \in 1 .. N : s[k] = t[k]
  BY <1>1, <1>2, <1>3, LeadsSame
<1>5. N \in 1 .. N /\ N \in 1 .. Len(s)
  BY ONLY <1>3
<1>6. s[N] = t[N]
  BY ONLY <1>4, <1>5
<1>7. CASE N = Len(s)
  <2>1. EndOfFile # OtherMark
    BY FatAssumption
  <2> QED
    BY ONLY <1>1, <1>2, <1>6, <1>7, <2>1
<1>8. CASE N < Len(s)
  <2>1. v.fat[s[N]] \in DOMAIN v.fat
    BY ONLY <1>3, <1>5, <1>8
  <2>2. OtherMark \notin DOMAIN v.fat
    BY VolumeFacts
  <2> QED
    BY ONLY <1>1, <1>6, <2>1, <2>2
<1> QED
  BY ONLY <1>3, <1>7, <1>8

LEMMA LoopRead == ASSUME LoopInv, ReadCluster PROVE LoopInv'
<1>1. /\ pc \in {"directory_read", "file_read"} /\ ~ NoRoom /\ cluster # OtherMark
      /\ buf' = Append(buf, cluster) /\ pos' = 1
      /\ UNCHANGED <<volume, call, asked, depth, first, length, bufsize, size, offset>>
  BY DEF ReadCluster
<1>2. /\ volume \in Volumes /\ first \in DOMAIN volume.fat /\ cluster \in DOMAIN volume.fat
      /\ offset \in Int /\ length \in Nat /\ size \in Nat
      /\ buf \in Seq(DOMAIN volume.fat) /\ bufsize \in Nat /\ depth \in 1 .. Len(asked)
      /\ Leads(volume, Append(buf, cluster), first)
  BY <1>1 DEF LoopInv, FatTypes, TypeOK, Reading, Read
<1>3. volume.unit \in Nat \ {0} /\ EndOfFile \notin DOMAIN volume.fat /\ OtherMark \notin DOMAIN volume.fat
  BY <1>2, VolumeFacts
<1>4. PICK t : t = Append(buf, cluster)
  OBVIOUS
<1>5. /\ t \in Seq(DOMAIN volume.fat) /\ Len(t) = Len(buf) + 1 /\ t[Len(t)] = cluster
      /\ Len(buf) \in Nat
  BY <1>2, <1>4
<1>6. Len(buf') * volume.unit <= bufsize'
  <2>1. (Len(buf) + 1) * volume.unit \in Nat
    BY <1>3, <1>5
  <2>2. ~ (bufsize < (Len(buf) + 1) * volume.unit)
    BY <1>1 DEF NoRoom
  <2>3. (Len(buf) + 1) * volume.unit <= bufsize
    BY ONLY <1>2, <2>1, <2>2
  <2> QED
    BY ONLY <1>1, <1>4, <1>5, <2>3
<1>7. buf' \in Seq(DOMAIN volume.fat) /\ Leads(volume', buf', first')
  BY ONLY <1>1, <1>2, <1>4, <1>5
<1>8. CASE NextInChain = EndOfFile
  <2>1. pc' = ReadOver /\ cluster' = cluster
    <3>1. EndOfFile # OtherMark
      BY FatAssumption
    <3> QED
      BY ONLY ReadCluster, <1>3, <1>8, <3>1 DEF ReadCluster
  <2>2. Whole(volume', buf', first')
    <3>1. volume'.fat[buf'[Len(buf')]] = EndOfFile
      BY ONLY <1>1, <1>4, <1>5, <1>8 DEF NextInChain
    <3> QED
      BY ONLY <1>7, <3>1 DEF Whole
  <2>3. pc' \in {"opendir", "readdir"} =>
          pos' \in 1 .. Len(Directory') /\ Behind(Directory', pos', asked'[depth'])
    <3>1. Directory' \in Seq(Slot) /\ Directory' # <<>>
      <4>1. SlotsOf(volume', buf') \in Seq(Entries(volume')) /\ SlotsOf(volume', buf') # <<>>
        BY <1>1, <1>2, <2>2, SlotsFacts DEF Whole
      <4>2. Entries(volume') \subseteq Slot
        BY DEF Entries
      <4> QED
        BY ONLY <4>1, <4>2 DEF Directory
    <3>2. PICK D : D = Directory'
      OBVIOUS
    <3>3. 1 \in 1 .. Len(D) /\ 1 \in 1 .. Len(D) + 1
      BY ONLY <3>1, <3>2
    <3>4. \A i \in 1 .. 1 - 1 : FALSE
      OBVIOUS
    <3>5. Behind(D, 1, asked'[depth'])
      BY ONLY <3>3, <3>4 DEF Behind
    <3> QED
      BY ONLY <1>1, <3>2, <3>3, <3>5
  <2>4. pc' \in {"opendir", "readdir", "opened", "loaded"}
    BY <2>1 DEF ReadOver
  <2>5. TypeOK'
    BY <1>1, <1>2, <1>6, <1>7, <2>1, <2>3, <2>4, TypesNext
  <2>6. FatTypes'
    BY <1>1, <1>2, <2>1, <2>4, <2>5 DEF LoopInv, FatTypes, ReadOver
  <2>7. Reading'
    BY <1>1, <2>1, <2>4 DEF LoopInv, Reading, ReadOver
  <2> QED
    BY <1>1, <2>2, <2>3, <2>4, <2>6, <2>7 DEF LoopInv, Counting, ReadWhole, Positioned
<1>9. CASE NextInChain # EndOfFile
  <2>1. cluster' = NextInChain /\ pc' = pc
    BY ONLY ReadCluster, <1>9 DEF ReadCluster
  <2>2. NextInChain \in DOMAIN volume.fat \cup {OtherMark}
    BY <1>2, <1>9, VolumeFacts DEF NextInChain
  <2>3. TypeOK'
    BY <1>1, <1>2, <1>6, <1>7, <2>1, <2>2, TypesNext
  <2>4. FatTypes'
    BY <1>1, <1>2, <2>1, <2>3 DEF LoopInv, FatTypes, Limit
  <2>5. volume.fat[t[Len(t)]] = NextInChain /\ Leads(volume, t, first)
    BY ONLY <1>2, <1>4, <1>5 DEF NextInChain
  <2>6. Read'
    <3>1. CASE NextInChain = OtherMark
      BY ONLY <1>1, <1>4, <2>1, <2>5, <3>1 DEF Read
    <3>2. CASE NextInChain \in DOMAIN volume.fat
      <4>1. Leads(volume, Append(t, NextInChain), first)
        BY ONLY <2>5, <3>2, LeadsOn
      <4>2. Leads(volume', Append(buf', cluster'), first') /\ cluster' # OtherMark
        BY ONLY <1>1, <1>3, <1>4, <2>1, <3>2, <4>1
      <4>3. cluster' \in DOMAIN volume'.fat
        BY ONLY <1>1, <2>1, <3>2
      <4> QED
        BY ONLY <4>2, <4>3 DEF Read
    <3> QED
      BY <2>2, <3>1, <3>2
  <2>7. ASSUME pc = "directory_read" \/ (pc = "file_read" /\ call = "open")
        PROVE  /\ cluster' # OtherMark
               /\ \E s : Whole(volume, s, first) /\ Len(s) * volume.unit <= bufsize
    <3>1. PICK s : Whole(volume, s, first) /\ Len(s) * volume.unit <= bufsize
      BY <2>7 DEF LoopInv, Reading
    <3>2. NextInChain # OtherMark
      BY <1>2, <1>9, <2>5, <3>1, NoMarkInside
    <3> QED
      BY <2>1, <3>1, <3>2
  <2>8. Reading'
    BY <1>1, <2>1, <2>6, <2>7 DEF LoopInv, Reading
  <2> QED
    BY <1>1, <2>1, <2>4, <2>8 DEF LoopInv, Counting, ReadWhole, Positioned
<1> QED
  BY <1>8, <1>9

\* Only a buffer of fixed size can have too little room.
LEMMA RoomForAll ==
  ASSUME LoopInv, pc \in {"directory_read", "file_read"}, NoRoom
  PROVE  pc = "file_read" /\ call # "open" /\ bufsize = Limit
<1>1. /\ volume \in Volumes /\ buf \in Seq(DOMAIN volume.fat) /\ bufsize \in Nat
      /\ cluster # OtherMark => Leads(volume, Append(buf, cluster), first)
  BY DEF LoopInv, FatTypes, TypeOK, Reading, Read
<1>2. volume.unit \in Nat \ {0}
  BY <1>1, VolumeFacts
<1>3. Len(buf) \in Nat /\ Len(Append(buf, cluster)) = Len(buf) + 1
  BY <1>1
<1>4. ~ (cluster # OtherMark /\ \E s : Whole(volume, s, first) /\ Len(s) * volume.unit <= bufsize)
  <2> SUFFICES ASSUME cluster # OtherMark,
                      NEW s, Whole(volume, s, first), Len(s) * volume.unit <= bufsize
               PROVE  FALSE
    OBVIOUS
  <2>1. Len(buf) + 1 <= Len(s) /\ Len(s) \in Nat
    <3>1. Len(Append(buf, cluster)) <= Len(s)
      BY <1>1, WholeLongest
    <3>2. Len(s) \in Nat
      BY LeadsFacts DEF Whole
    <3> QED
      BY ONLY <1>3, <3>1, <3>2
  <2>2. PICK a, b : a = Len(buf) + 1 /\ b = Len(s)
    OBVIOUS
  <2>3. a \in Nat /\ b \in Nat /\ a <= b
    BY ONLY <1>3, <2>1, <2>2
  <2>4. a * volume.unit \in Nat /\ b * volume.unit \in Nat /\ a * volume.unit <= b * volume.unit
    BY ONLY <1>2, <2>3, Products
  <2>5. bufsize < a * volume.unit /\ b * volume.unit <= bufsize
    BY <2>2 DEF NoRoom
  <2> QED
    BY ONLY <1>1, <2>4, <2>5
<1>5. pc = "file_read" /\ call # "open"
  BY <1>4 DEF LoopInv, Reading
<1> QED
  BY <1>5 DEF LoopInv, FatTypes

LEMMA LoopStop == ASSUME LoopInv, StopReading PROVE LoopInv'
<1>1. /\ pc \in {"directory_read", "file_read"} /\ NoRoom /\ pc' = ReadOver
      /\ UNCHANGED <<volume, call, asked, depth, first, cluster, length, bufsize, buf, pos, size, offset>>
  BY DEF StopReading, search
<1>2. pc = "file_read" /\ call # "open" /\ pc' = "loaded"
  BY <1>1, RoomForAll DEF ReadOver
<1>3. TypeOK'
  BY <1>1, <1>2 DEF LoopInv, FatTypes, TypeOK
<1>4. FatTypes'
  BY <1>1, <1>2, <1>3 DEF LoopInv, FatTypes
<1> QED
  BY <1>2, <1>4 DEF LoopInv, Counting, Reading, ReadWhole, Positioned

LEMMA LoopOpenDir == ASSUME LoopInv, OpenDir PROVE LoopInv'
<1>1. /\ pc = "opendir"
      /\ UNCHANGED <<volume, call, asked, bufsize, buf, size, offset>>
  BY DEF OpenDir
<1>2. /\ volume \in Volumes /\ first \in DOMAIN volume.fat /\ cluster \in DOMAIN volume.fat \cup {OtherMark}
      /\ pos \in Nat /\ offset \in Int /\ length \in Nat /\ size \in Nat
      /\ buf \in Seq(DOMAIN volume.fat) /\ bufsize \in Nat
      /\ Len(buf) * volume.unit <= bufsize
      /\ Len(asked) \in Nat /\ depth \in 1 .. Len(asked) /\ depth < Len(asked)
      /\ Whole(volume, buf, first)
  BY <1>1 DEF LoopInv, FatTypes, TypeOK, ReadWhole
<1>3. CASE pc' = "astray" /\ UNCHANGED <<depth, first, cluster, length, pos>>
  <2>1. TypeOK'
    BY <1>1, <1>2, <1>3, TypesNext
  <2>2. FatTypes'
    BY <1>1, <1>2, <1>3, <2>1 DEF LoopInv, FatTypes
  <2> QED
    BY <1>3, <2>2 DEF LoopInv, Counting, Reading, ReadWhole, Positioned
<1>4. CASE IsName /\ NextPos <= Len(Directory) /\ Named(asked[depth]) /\ pc' = "directory_length"
  <2>1. /\ depth' = depth + 1 /\ first' = Directory[Entry].first /\ cluster' = first'
        /\ length' = 0 /\ pos' = pos
    BY <1>1, <1>4 DEF OpenDir
  <2>2. Directory[Entry] \in Entries(volume)
    BY <1>1, <1>4, EntryFacts
  <2>3. first' \in DOMAIN volume.fat
    BY <2>1, <2>2, EntriesFacts
  <2>4. depth' \in 1 .. Len(asked') /\ depth' \in 0 .. Len(asked')
    BY <1>1, <1>2, <2>1
  <2>5. TypeOK'
    BY <1>1, <1>2, <1>4, <2>1, <2>3, <2>4, TypesNext
  <2>6. FatTypes'
    BY <1>1, <1>4, <2>4, <2>5 DEF LoopInv, FatTypes
  <2>7. Counting'
    <3>1. PICK t : t = <<first'>>
      OBVIOUS
    <3>2. Leads(volume, t, first') /\ Len(t) = 1 /\ t[1] = first'
      BY <2>3, <3>1, LeadsOne
    <3>3. Len(t) = length' + 1 /\ t[Len(t)] = cluster' /\ Leads(volume', t, first')
      BY ONLY <1>1, <2>1, <3>2
    <3> QED
      BY ONLY <3>3 DEF Counting
  <2> QED
    BY <1>4, <2>6, <2>7 DEF LoopInv, Reading, ReadWhole, Positioned
<1>5. CASE /\ IsName /\ NextPos <= Len(Directory) /\ ~ Named(asked[depth])
           /\ pos' = NextPos /\ UNCHANGED <<pc, depth, first, cluster, length>>
  <2>1. /\ EntryAt(Directory, pos, Entry) /\ Entry \in 1 .. Len(Directory)
        /\ Behind(Directory, pos, asked[depth])
        /\ Directory \in Seq(Slot) /\ LongGoesOn(Directory)
        /\ NameAt(Directory, pos, Entry) # asked[depth]
    BY <1>1, <1>5, EntryFacts
  <2>2. pos' = Entry + 1 /\ Directory' = Directory
    BY <1>1, <1>5 DEF NextPos, Directory
  <2>3. Behind(Directory, Entry + 1, asked[depth])
    BY ONLY <2>1, BehindNext
  <2>4. pos' \in 1 .. Len(Directory') /\ pos' \in Nat
    <3>1. Entry + 1 <= Len(Directory)
      BY <1>5 DEF NextPos
    <3> QED
      BY ONLY <2>1, <2>2, <3>1
  <2>5. Behind(Directory', pos', asked'[depth'])
    BY ONLY <1>1, <1>5, <2>2, <2>3
  <2>6. TypeOK'
    BY <1>1, <1>2, <1>5, <2>4, TypesNext
  <2>7. FatTypes'
    BY <1>1, <1>2, <1>5, <2>6 DEF LoopInv, FatTypes
  <2> QED
    BY <1>1, <1>2, <1>5, <2>5, <2>7 DEF LoopInv, Counting, Reading, ReadWhole, Positioned
<1> QED
  BY <1>3, <1>4, <1>5 DEF OpenDir

LEMMA LoopReadDir == ASSUME LoopInv, ReadDir PROVE LoopInv'
<1>1. /\ pc = "readdir" /\ IsName /\ ~ Named(asked[depth]) /\ pos' = NextPos
      /\ UNCHANGED <<volume, pc, call, asked, depth, first, cluster, length, bufsize, buf, size, offset>>
  BY DEF ReadDir
<1>2. /\ EntryAt(Directory, pos, Entry) /\ Entry \in 1 .. Len(Directory)
      /\ Behind(Directory, pos, asked[depth])
      /\ Directory \in Seq(Slot) /\ LongGoesOn(Directory)
      /\ NameAt(Directory, pos, Entry) # asked[depth]
  BY <1>1, EntryFacts
<1>3. pos' = Entry + 1 /\ Directory' = Directory
  BY <1>1 DEF NextPos, Directory
<1>4. Behind(Directory, Entry + 1, asked[depth]) /\ Entry + 1 \in Nat
  <2>1. Entry + 1 \in Nat
    BY ONLY <1>2
  <2> QED
    BY ONLY <1>2, <2>1, BehindNext
<1>5. Behind(Directory', pos', asked'[depth']) /\ pos' \in Nat
  BY ONLY <1>1, <1>3, <1>4
<1>6. TypeOK'
  BY <1>1, <1>5 DEF LoopInv, FatTypes, TypeOK
<1>7. FatTypes'
  BY <1>1, <1>6 DEF LoopInv, FatTypes
<1> QED
  BY <1>1, <1>5, <1>7 DEF LoopInv, Counting, Reading, ReadWhole, Positioned

\* A search that is over, or lost.
LEMMA LoopEnds ==
  ASSUME LoopInv, pc # "idle", UNCHANGED <<volume, search, offset>>,
         pc' \in {"failed", "astray", "overrun"}, pc' = "failed" => call = "open"
  PROVE  LoopInv'
<1>1. UNCHANGED <<volume, call, asked, depth, first, cluster, length, bufsize, buf, pos, size, offset>>
  BY DEF search
<1>2. TypeOK'
  BY <1>1 DEF LoopInv, FatTypes, TypeOK
<1>3. FatTypes'
  BY <1>1, <1>2 DEF LoopInv, FatTypes
<1> QED
  BY <1>3 DEF LoopInv, Counting, Reading, ReadWhole, Positioned

LEMMA LoopTake ==
  ASSUME LoopInv, pc = "readdir", NEW e, Fits(e), Take(e)
  PROVE  LoopInv'
<1>1. /\ first' = e.first /\ cluster' = first' /\ size' = e.size /\ length' = 0 /\ buf' = <<>>
      /\ IF call = "open" THEN pc' = "file_length" /\ UNCHANGED bufsize
         ELSE bufsize' = Limit /\ pc' = IF Limit < size' THEN "loaded" ELSE "file_read"
      /\ UNCHANGED <<volume, call, asked, depth, pos, offset>>
  BY DEF Take
<1>2. /\ volume \in Volumes /\ pos \in Nat /\ offset \in Int /\ bufsize \in Nat
      /\ depth \in 1 .. Len(asked) /\ depth = Len(asked) /\ Len(asked) \in Nat
  BY DEF LoopInv, FatTypes, TypeOK
<1>3. /\ e.first \in DOMAIN volume.fat /\ e.size \in Nat
      /\ \A n \in Sizes : e.size + n < Wide
  BY DEF Fits
<1>4. volume.unit \in Nat \ {0}
  BY <1>2, VolumeFacts
<1>5. Limit \in Nat
  BY FatAssumption DEF Limit
<1>6. bufsize' \in Nat
  BY <1>1, <1>2, <1>5
<1>7. buf' \in Seq(DOMAIN volume.fat) /\ Len(buf') * volume.unit <= bufsize'
  BY <1>1, <1>4, <1>6, NoClusters
<1>8. pc' \in {"file_length", "file_read", "loaded"}
  BY <1>1
<1>9. depth' \in 0 .. Len(asked') /\ first' \in DOMAIN volume.fat /\ cluster' \in DOMAIN volume.fat
  BY <1>1, <1>2, <1>3
<1>10. TypeOK'
  BY <1>1, <1>2, <1>3, <1>7, <1>8, <1>9, TypesNext
<1>11. FatTypes'
  BY <1>1, <1>2, <1>3, <1>6, <1>8, <1>10 DEF LoopInv, FatTypes, Limit
<1>12. PICK t : t = <<first'>>
  OBVIOUS
<1>13. Leads(volume, t, first') /\ Len(t) = 1 /\ t[1] = first' /\ Append(<<>>, first') = t
  BY <1>1, <1>3, <1>12, LeadsOne
<1>14. Counting'
  <2>1. Leads(volume', t, first') /\ Len(t) = length' + 1 /\ t[Len(t)] = cluster'
    BY ONLY <1>1, <1>13
  <2> QED
    BY ONLY <2>1 DEF Counting
<1>15. Reading'
  <2>1. Read'
    <3>1. Leads(volume', Append(buf', cluster'), first')
      BY ONLY <1>1, <1>13
    <3>2. cluster' # OtherMark /\ cluster' \in DOMAIN volume'.fat
      BY <1>1, <1>2, <1>9, VolumeFacts
    <3> QED
      BY ONLY <3>1, <3>2 DEF Read
  <2>2. pc' = "file_read" => call' # "open"
    BY <1>1
  <2> QED
    BY <1>8, <2>1, <2>2 DEF Reading
<1> QED
  BY <1>8, <1>11, <1>14, <1>15 DEF LoopInv, ReadWhole, Positioned

LEMMA EntriesFit ==
  ASSUME NEW e \in Entries(volume)
  PROVE  Fits(e)
  BY EntriesFacts DEF Fits

LEMMA GoesOnTakes ==
  ASSUME LoopInv, GoesOnWithout
  PROVE  /\ pc = "readdir" /\ call = "font" /\ NoName
         /\ \/ Taken
            \/ pc' = "astray" /\ UNCHANGED <<volume, search, offset>>
<1>1. pc = "readdir" /\ call = "font" /\ NoName
  BY DEF GoesOnWithout
<1>2. CASE pos > 1 /\ Take(Directory[pos - 1])
  <2>1. Behind(Directory, pos, asked[depth]) /\ Whole(volume, buf, first) /\ volume \in Volumes
    BY <1>1 DEF LoopInv, Positioned, ReadWhole, FatTypes, TypeOK
  <2>2. \A i \in 1 .. Len(Directory) : Directory[i] \in Entries(volume)
    BY <2>1, DirectoryFacts
  <2>3. Len(Directory) \in Nat
    BY <2>1, DirectoryFacts
  <2>4. pos - 1 \in 1 .. Len(Directory)
    BY <1>2, <2>1, <2>3 DEF Behind
  <2> QED
    BY <1>1, <1>2, <2>2, <2>4, EntriesFit DEF Taken
<1>3. CASE pc' = "astray" /\ UNCHANGED <<volume, search, offset>>
  BY <1>1, <1>3
<1> QED
  BY <1>2, <1>3 DEF GoesOnWithout

LEMMA FoundTakes ==
  ASSUME LoopInv, FoundFile
  PROVE  pc = "readdir" /\ Taken
<1>1. pc = "readdir" /\ IsName /\ Take(Directory[Entry])
  BY DEF FoundFile
<1>2. Directory[Entry] \in Entries(volume)
  BY <1>1, EntryFacts
<1> QED
  BY <1>1, <1>2, EntriesFit DEF Taken

\* The search is over, or goes on with what is cleared.
LEMMA EndsTakes ==
  ASSUME LoopInv, ReadDirEnds
  PROVE  /\ pc = "readdir" /\ (pos > Len(Directory) \/ NoName)
         /\ \/ call = "load" /\ Take(Cleared) /\ Taken
            \/ call = "open" /\ pc' = "failed" /\ UNCHANGED <<volume, search, offset>>
<1>1. volume \in Volumes /\ call \in {"open", "load", "font"}
  BY DEF LoopInv, FatTypes, TypeOK
<1>2. Fits(Cleared)
  <2>1. 0 \in DOMAIN volume.fat
    BY <1>1, VolumeFacts
  <2>2. \A n \in Sizes : 0 + n < Wide
    BY <1>1, SizesFit
  <2> QED
    BY <2>1, <2>2 DEF Fits, Cleared
<1> QED
  BY <1>1, <1>2 DEF ReadDirEnds, Taken

LEMMA LoopReadDirEnds == ASSUME LoopInv, ReadDirEnds PROVE LoopInv'
  BY EndsTakes, LoopTake, LoopEnds DEF Taken

LEMMA LoopFound == ASSUME LoopInv, FoundFile PROVE LoopInv'
  BY FoundTakes, LoopTake DEF Taken

LEMMA LoopGoesOn == ASSUME LoopInv, GoesOnWithout PROVE LoopInv'
<1>1. /\ pc = "readdir"
      /\ \/ Taken
         \/ pc' = "astray" /\ UNCHANGED <<volume, search, offset>>
  BY GoesOnTakes
<1> QED
  BY <1>1, LoopTake, LoopEnds DEF Taken

\* fat_read keeps to the buffer; fat_lseek goes where it may.
LEMMA LoopOpened ==
  ASSUME LoopInv, pc = "opened", UNCHANGED <<volume, search>>,
         pc' \in {"opened", "overrun"}, offset' \in Int
  PROVE  LoopInv'
<1>1. UNCHANGED <<volume, call, asked, depth, first, cluster, length, bufsize, buf, pos, size>>
  BY DEF search
<1>2. TypeOK'
  BY <1>1 DEF LoopInv, FatTypes, TypeOK
<1>3. FatTypes'
  BY <1>1, <1>2 DEF LoopInv, FatTypes
<1>4. Reading' /\ ReadWhole'
  BY <1>1 DEF LoopInv, Reading, ReadWhole
<1> QED
  BY <1>3, <1>4 DEF LoopInv, Counting, Positioned

LEMMA LoopOver == ASSUME LoopInv, Over PROVE LoopInv'
<1>1. /\ pc' = "idle" /\ call' = "open" /\ asked' = <<>> /\ depth' = 0
      /\ first' = 0 /\ cluster' = 0 /\ length' = 0
      /\ bufsize' = 0 /\ buf' = <<>> /\ pos' = 1 /\ size' = 0 /\ offset' = 0
      /\ volume' = volume
  BY DEF Over
<1>2. volume \in Volumes
  BY DEF LoopInv, FatTypes, TypeOK
<1>3. volume.unit \in Nat \ {0} /\ 0 \in DOMAIN volume.fat
  BY <1>2, VolumeFacts
<1>4. \A n \in Sizes : size' + n < Wide
  BY <1>1, <1>2, SizesFit
<1>5. buf' \in Seq(DOMAIN volume.fat) /\ Len(buf') * volume.unit <= bufsize'
  BY <1>1, <1>3, NoClusters
<1>6. asked' \in Seq(STRING) /\ Len(asked') = 0
  BY <1>1
<1>7. TypeOK'
  BY <1>1, <1>2, <1>3, <1>5, <1>6, TypesNext
<1>8. FatTypes'
  BY <1>1, <1>4, <1>6, <1>7 DEF FatTypes
<1> QED
  BY <1>1, <1>8 DEF LoopInv, Counting, Reading, ReadWhole, Positioned

LEMMA LoopUnchanged == ASSUME LoopInv, UNCHANGED vars PROVE LoopInv'
<1>1. UNCHANGED <<volume, pc, call, asked, depth, first, cluster, length, bufsize, buf, pos, size, offset>>
  BY DEF vars, search
<1>2. TypeOK'
  BY <1>1 DEF LoopInv, FatTypes, TypeOK, Directory
<1>3. FatTypes'
  BY <1>1, <1>2 DEF LoopInv, FatTypes, Limit
<1>4. Counting' /\ Reading' /\ ReadWhole'
  BY <1>1 DEF LoopInv, Counting, Reading, Read, ReadWhole
<1>5. Positioned'
  BY <1>1 DEF LoopInv, Positioned, Directory
<1> QED
  BY <1>3, <1>4, <1>5 DEF LoopInv
-----------------------------------------------------------------------------
\* Whatever main does, this is what the driver does.
FatStep ==
  \/ Begin \/ Loop
  \/ \E n \in Sizes : fat_read(n)
  \/ \E whence \in {"SET", "CUR", "END", "other"}, by \in Offsets : fat_lseek(whence, by)
  \/ Over
  \/ UNCHANGED vars

LEMMA FatSteps == ASSUME [BootNext]_bootVars PROVE FatStep
<1>1. CASE DisplayInit
  <2>1. Search("font", <<FontFile>>)
    BY <1>1 DEF DisplayInit
  <2>2. <<FontFile>> \in Seq(STRING) \ {<<>>} /\ Len(<<FontFile>>) = 1
    <3>1. PICK path : path = <<FontFile>>
      OBVIOUS
    <3>2. path \in Seq(STRING)
      <4>1. FontFile \in STRING
        BY BootAssumption
      <4>2. \A S : FontFile \in S => <<FontFile>> \in Seq(S)
        OBVIOUS
      <4>3. <<FontFile>> \in Seq(STRING)
        BY ONLY <4>1, <4>2, Zenon
      <4> QED
        BY ONLY <3>1, <4>3, Zenon
    <3>3. Len(path) = 1 /\ path # <<>>
      BY <3>1
    <3> QED
      BY ONLY <3>1, <3>2, <3>3
  <2> QED
    BY <2>1, <2>2 DEF FatStep, Begin
<1>2. CASE ReadFont
  BY <1>2 DEF ReadFont, FatStep
<1>3. CASE FrameBufferClear
  BY <1>3 DEF FrameBufferClear, FatStep
<1>4. CASE Run
  <2>1. Next
    BY <1>4 DEF Run
  <2>2. CASE \E what \in {"open", "load"}, path \in Paths : Search(what, path)
    <3>1. PICK what \in {"open", "load"}, path \in Paths : Search(what, path)
      BY <2>2
    <3>2. path \in Seq(STRING) \ {<<>>}
      BY FatAssumption
    <3>3. what \in {"open", "load", "font"} /\ what # "font"
      OBVIOUS
    <3> QED
      BY <3>1, <3>2, <3>3 DEF FatStep, Begin
  <2> QED
    BY <2>1, <2>2 DEF Next, FatStep, Lost
<1>5. CASE Enumerate \/ Stuck \/ UNCHANGED bootVars
  BY <1>5 DEF Enumerate, Stuck, bootVars, FatStep
<1> QED
  BY <1>1, <1>2, <1>3, <1>4, <1>5 DEF BootNext

LEMMA ReadEnds ==
  ASSUME LoopInv, NEW n \in Sizes, fat_read(n)
  PROVE  /\ pc = "opened" /\ UNCHANGED <<volume, search>>
         /\ pc' \in {"opened", "overrun"} /\ offset' \in Int
<1>1. /\ pc = "opened" /\ UNCHANGED <<volume, search>> /\ pc' \in {"opened", "overrun"}
      /\ offset' = offset \/ offset' = offset + Count(n)
  BY DEF fat_read
<1>2. offset \in Int /\ size \in Nat /\ n \in Nat /\ size + n < Wide /\ Wide \in Nat
  BY FatAssumption DEF LoopInv, FatTypes, TypeOK
<1>3. Wide > 0
  BY ONLY <1>2
<1>4. Count(n) \in Int
  BY <1>2, <1>3 DEF Count
<1> QED
  BY <1>1, <1>2, <1>4

LEMMA LoopStep == ASSUME LoopInv, FatStep PROVE LoopInv'
<1>1. CASE Loop
  <2>1. CASE BehindBuffer \/ ReadMark
    <3>1. pc # "idle" /\ pc' = "astray" /\ UNCHANGED <<volume, search, offset>>
      BY <2>1 DEF BehindBuffer, ReadMark
    <3> QED
      BY <3>1, LoopEnds
  <2> QED
    BY <1>1, <2>1, LoopCount, LoopRead, LoopStop, LoopOpenDir, LoopReadDir, LoopReadDirEnds,
       LoopFound, LoopGoesOn DEF Loop
<1>2. CASE \E n \in Sizes : fat_read(n)
  BY <1>2, ReadEnds, LoopOpened
<1>3. CASE \E whence \in {"SET", "CUR", "END", "other"}, by \in Offsets : fat_lseek(whence, by)
  <2>1. pc = "opened" /\ pc' = pc /\ UNCHANGED <<volume, search>>
        /\ (offset' \in Offsets \/ offset' = offset)
    BY <1>3 DEF fat_lseek
  <2>2. offset' \in Int
    BY <2>1, FatAssumption DEF LoopInv, FatTypes, TypeOK
  <2> QED
    BY <2>1, <2>2, LoopOpened
<1> QED
  BY <1>1, <1>2, <1>3, LoopBegin, LoopOver, LoopUnchanged DEF FatStep

\* compute_cluster_chain_length and read_cluster_chain stay in the chain, the
\* reads in the buffer, and the loops of fatfs_opendir at a slot of the
\* directory, on every volume (src/fs/fat.c).
THEOREM TypeCorrect == BootSpec => []TypeOK
<1>1. BootInit => LoopInv
  BY LoopInit DEF BootInit
<1>2. LoopInv /\ [BootNext]_bootVars => LoopInv'
  BY FatSteps, LoopStep
<1>3. LoopInv => TypeOK
  BY DEF LoopInv, FatTypes
<1> QED
  BY <1>1, <1>2, <1>3, PTL DEF BootSpec

LEMMA Modulo == ASSUME NEW a \in Nat, NEW w \in Nat, a < w PROVE a % w = a
  OBVIOUS

LEMMA ReadStep ==
  ASSUME LoopInv, NEW n \in Sizes, fat_read(n), offset \in 0 .. size
  PROVE  LET end == IF offset + n > size THEN size ELSE offset + n
         IN /\ offset' = end
            /\ given' = SubSeq(BytesOf(volume, Chain(volume, first)), offset + 1, end)
<1> DEFINE end == IF offset + n > size THEN size ELSE offset + n
<1>1. pc = "opened"
  BY DEF fat_read
<1>2. /\ volume \in Volumes /\ size \in Nat /\ offset \in 0 .. size /\ n \in Nat
      /\ size + n < Wide /\ Wide \in Nat
      /\ size <= bufsize /\ bufsize \in Nat /\ Whole(volume, buf, first)
  BY <1>1, FatAssumption DEF LoopInv, FatTypes, TypeOK, Reading, ReadWhole
<1>3. Chain(volume, first) = buf
  BY <1>2, ChainIs
<1>4. (offset + n) % Wide = offset + n /\ (size - offset) % Wide = size - offset
  <2>1. offset + n \in Nat /\ offset + n < Wide /\ size - offset \in Nat /\ size - offset < Wide
    BY ONLY <1>2
  <2> QED
    BY ONLY <1>2, <2>1, Modulo
<1>5. offset + Count(n) = end
  BY ONLY <1>2, <1>4 DEF Count, PastEnd
<1>6. offset >= 0 /\ end <= bufsize
  BY ONLY <1>2
<1> HIDE DEF end
<1>7. offset' = end /\ given' = SubSeq(BytesOf(volume, buf), offset + 1, end)
  BY ONLY fat_read(n), <1>5, <1>6 DEF fat_read
<1> QED
  BY ONLY <1>3, <1>7 DEF end

\* fat_read delivers the bytes of the file that stand at the offset, up to its
\* end, on every volume and after any reads and seeks (src/fs/fs_generic.c).
THEOREM ReadsCorrect == BootSpec => ReadsRight
<1>1. BootInit => LoopInv
  BY LoopInit DEF BootInit
<1>2. LoopInv /\ [BootNext]_bootVars => LoopInv'
  BY FatSteps, LoopStep
<1> DEFINE Delivers ==
      \A n \in Sizes :
        fat_read(n) /\ offset \in 0 .. size =>
          LET end == IF offset + n > size THEN size ELSE offset + n
          IN /\ offset' = end
             /\ given' = SubSeq(BytesOf(volume, Chain(volume, first)), offset + 1, end)
<1>3. LoopInv /\ [BootNext]_bootVars => [Delivers]_vars
  BY ReadStep
<1> QED
  BY <1>1, <1>2, <1>3, PTL DEF BootSpec, ReadsRight
-----------------------------------------------------------------------------
(***************************************************************************)
(* A search ends with what its path names.                                 *)
(***************************************************************************)
LEMMA Quotient ==
  ASSUME NEW l \in Nat, NEW u \in Nat \ {0}
  PROVE  /\ (l \div u) * u \in Nat /\ (l \div u) * u <= l
         /\ \A n \in Nat : l < (n + 1) * u => (l \div u) * u <= n * u
<1>1. PICK q, r : q = l \div u /\ r = l % u
  OBVIOUS
<1>2. q \in Nat /\ r \in 0 .. u - 1 /\ l = q * u + r
  <2>1. l \div u \in Nat /\ l % u \in 0 .. u - 1 /\ l = (l \div u) * u + (l % u)
    OBVIOUS
  <2> QED
    BY ONLY <1>1, <2>1
<1>3. q * u \in Nat /\ q * u <= l
  <2>1. q * u \in Nat
    BY ONLY <1>2, u \in Nat \ {0}
  <2> QED
    BY ONLY <1>2, <2>1, u \in Nat \ {0}
<1>4. ASSUME NEW n \in Nat, l < (n + 1) * u PROVE q * u <= n * u
  <2>1. (n + 1) * u \in Nat
    BY <1>4
  <2>2. q * u < (n + 1) * u
    BY ONLY <1>3, <1>4, <2>1, l \in Nat
  <2>3. q <= n
    BY ONLY <1>2, <1>4, <2>2, u \in Nat \ {0}, Products
  <2> QED
    BY ONLY <1>2, <1>4, <2>3, u \in Nat \ {0}, Products
<1> QED
  BY ONLY <1>1, <1>3, <1>4

LEMMA LeadsLinked ==
  ASSUME NEW s, NEW c, Leads(volume, s, c)
  PROVE  Linked(s, c)
<1>1. PICK N : N = Len(s)
  OBVIOUS
<1>2. /\ N \in Nat \ {0} /\ s[1] = c
      /\ \A i \in 1 .. N : i < N => volume.fat[s[i]] = s[i + 1]
  BY <1>1, LeadsFacts
<1>3. ASSUME NEW i \in 1 .. N PROVE s[i] = IF i = 1 THEN c ELSE volume.fat[s[i - 1]]
  <2>1. CASE i = 1
    BY ONLY <1>2, <2>1
  <2>2. CASE i # 1
    <3>1. i - 1 \in 1 .. N /\ i - 1 < N /\ (i - 1) + 1 = i
      BY ONLY <1>2, <1>3, <2>2
    <3> QED
      BY ONLY <1>2, <2>2, <3>1
  <2> QED
    BY ONLY <2>1, <2>2
<1> QED
  BY ONLY <1>1, <1>3 DEF Linked

LEMMA PrefixLinked ==
  ASSUME NEW S, NEW s \in Seq(S), NEW d, NEW c, Linked(Append(s, d), c)
  PROVE  Linked(s, c)
<1>1. PICK N : N = Len(s)
  OBVIOUS
<1>2. PICK t : t = Append(s, d)
  OBVIOUS
<1>3. N \in Nat /\ Len(t) = N + 1 /\ \A i \in 1 .. N : t[i] = s[i]
  BY <1>1, <1>2
<1>4. ASSUME NEW i \in 1 .. N PROVE s[i] = IF i = 1 THEN c ELSE volume.fat[s[i - 1]]
  <2>1. i \in 1 .. N + 1 /\ (i # 1 => i - 1 \in 1 .. N)
    BY ONLY <1>3, <1>4
  <2>2. t[i] = IF i = 1 THEN c ELSE volume.fat[t[i - 1]]
    BY <1>2, <1>3, <2>1 DEF Linked
  <2> QED
    BY ONLY <1>3, <1>4, <2>1, <2>2
<1> QED
  BY ONLY <1>1, <1>4 DEF Linked

LEMMA SearchEndsRight == ASSUME FatInv PROVE SearchRight
<1> SUFFICES ASSUME ~ ThroughFile(asked) PROVE SearchRight
  BY DEF SearchRight
<1>1. ASSUME pc \in {"opened", "loaded"}, ~ Missing
      PROVE  \E i \in Reached(volume, asked, Len(asked)) :
               /\ first = i.slot.first /\ size = i.slot.size
               /\ pc = "opened" => buf = Chain(volume, first)
               /\ pc = "loaded" =>
                    /\ Linked(buf, first)
                    /\ /\ size <= (Limit \div volume.unit) * volume.unit
                       /\ size <= Len(Chain(volume, first)) * volume.unit
                       => size <= Len(buf) * volume.unit
  <2>1. PICK i \in Reached(volume, asked, Len(asked)) : i.slot.first = first /\ i.slot.size = size
    BY <1>1 DEF FatInv, Standing
  <2>2. pc = "opened" => buf = Chain(volume, first)
    <3> SUFFICES ASSUME pc = "opened" PROVE buf = Chain(volume, first)
      OBVIOUS
    <3>1. volume \in Volumes /\ Whole(volume, buf, first)
      BY DEF FatInv, LoopInv, FatTypes, TypeOK, ReadWhole
    <3> QED
      BY <3>1, ChainIs
  <2> QED
    BY <2>1, <2>2 DEF FatInv, Filled
<1>2. ASSUME pc = "failed"
      PROVE  /\ call = "open"
             /\ \/ Reached(volume, asked, Len(asked)) = {}
                \/ \E i \in Reached(volume, asked, Len(asked)) :
                     Len(Chain(volume, i.slot.first)) * volume.unit < i.slot.size
  BY <1>2 DEF FatInv, FailsRight, LoopInv, FatTypes
<1>3. ASSUME pc = "loaded", call = "load", Missing PROVE first = 0 /\ size = 0
  BY <1>3 DEF FatInv, Standing
<1> QED
  BY <1>1, <1>2, <1>3, Zenon DEF SearchRight

LEMMA FilledStep == ASSUME LoopInv, Filled, FatStep PROVE Filled'
<1> SUFFICES ASSUME pc' = "loaded" PROVE Filled'
  BY DEF Filled
<1> DEFINE Fill == /\ Linked(buf', first)
                   /\ /\ size' <= (Limit \div volume.unit) * volume.unit
                      /\ size' <= Len(Chain(volume, first)) * volume.unit
                      => size' <= Len(buf') * volume.unit
<1>1. CASE ReadCluster
  <2>1. /\ UNCHANGED <<volume, call, first, size>> /\ buf' = Append(buf, cluster)
        /\ pc = "file_read" /\ NextInChain = EndOfFile /\ call # "open"
    BY <1>1 DEF ReadCluster, ReadOver
  <2>2. /\ volume \in Volumes /\ buf \in Seq(DOMAIN volume.fat) /\ cluster \in DOMAIN volume.fat
        /\ Leads(volume, buf', first)
    BY <1>1, <2>1 DEF ReadCluster, LoopInv, FatTypes, TypeOK, Reading, Read
  <2>3. buf'[Len(buf')] = cluster
    BY <2>1, <2>2
  <2>4. Whole(volume, buf', first)
    BY <2>1, <2>2, <2>3 DEF Whole, NextInChain
  <2>5. Chain(volume, first) = buf' /\ Linked(buf', first)
    BY <2>2, <2>4, ChainIs, LeadsLinked
  <2>6. Fill
    BY ONLY <2>5
  <2> QED
    BY <2>1, <2>6 DEF Filled, Linked, Limit
<1>2. CASE StopReading
  <2>1. /\ pc \in {"directory_read", "file_read"} /\ NoRoom
        /\ UNCHANGED <<volume, call, first, size, buf>>
    BY <1>2 DEF StopReading, search
  <2>2. bufsize = Limit /\ pc = "file_read" /\ call # "open"
    BY <2>1, RoomForAll
  <2>3. /\ volume \in Volumes /\ buf \in Seq(DOMAIN volume.fat) /\ size \in Nat
        /\ Leads(volume, buf, first) \/ Leads(volume, Append(buf, cluster), first)
    BY <2>1 DEF LoopInv, FatTypes, TypeOK, Reading, Read
  <2>4. Linked(buf, first)
    BY <2>3, LeadsLinked, PrefixLinked
  <2>5. volume.unit \in Nat \ {0} /\ Limit \in Nat /\ Len(buf) \in Nat
    BY <2>3, VolumeFacts, FatAssumption DEF Limit
  <2>6. Limit < (Len(buf) + 1) * volume.unit
    BY <2>1, <2>2 DEF NoRoom
  <2>7. /\ (Limit \div volume.unit) * volume.unit <= Len(buf) * volume.unit
        /\ (Limit \div volume.unit) * volume.unit \in Nat
    BY ONLY <2>5, <2>6, Quotient
  <2>8. Len(buf) * volume.unit \in Nat
    BY ONLY <2>5, Products
  <2>9. Fill
    <3>1. PICK a, b : a = (Limit \div volume.unit) * volume.unit /\ b = Len(buf) * volume.unit
      OBVIOUS
    <3>2. size <= a => size <= b
      BY ONLY <2>3, <2>7, <2>8, <3>1
    <3> QED
      BY ONLY <2>1, <2>4, <3>1, <3>2
  <2> QED
    BY <2>1, <2>9 DEF Filled, Linked, Limit
<1>3. CASE Taken
  <2>1. PICK e : Fits(e) /\ Take(e)
    BY <1>3 DEF Taken
  <2>2. UNCHANGED <<volume, call>> /\ buf' = <<>> /\ Limit < size' /\ size' = e.size
    BY <2>1 DEF Take
  <2>3. Linked(buf', first')
    <3>1. \A i \in 1 .. Len(<<>>) : FALSE
      OBVIOUS
    <3> QED
      BY ONLY <2>2, <3>1 DEF Linked
  <2>4. volume \in Volumes
    BY DEF LoopInv, FatTypes, TypeOK
  <2>5. volume.unit \in Nat \ {0} /\ Limit \in Nat /\ size' \in Nat
    BY <2>2, <2>4, VolumeFacts, FatAssumption, <2>1 DEF Limit, Fits
  <2>6. (Limit \div volume.unit) * volume.unit \in Nat /\ (Limit \div volume.unit) * volume.unit <= Limit
    BY ONLY <2>5, Quotient
  <2>7. ~ (size' <= (Limit \div volume.unit) * volume.unit)
    BY ONLY <2>2, <2>5, <2>6
  <2>8. Limit' = Limit /\ volume' = volume
    BY <2>2 DEF Limit
  <2> QED
    BY <2>3, <2>7, <2>8 DEF Filled, Linked
<1>4. CASE UNCHANGED vars
  <2>1. UNCHANGED <<pc, volume, call, first, size, buf>>
    BY <1>4 DEF vars, search
  <2> QED
    BY <2>1 DEF Filled, Linked, Limit
<1> QED
  <2>1. Loop \/ UNCHANGED vars
    BY DEF FatStep, Begin, Search, fat_read, fat_lseek, Over, LoopInv, FatTypes
  <2>2. Loop => ReadCluster \/ StopReading \/ FoundFile \/ GoesOnWithout \/ ReadDirEnds
    BY DEF Loop, CountCluster, OpenDir, ReadDir, BehindBuffer, ReadMark
  <2> QED
    BY <1>1, <1>2, <1>3, <1>4, <2>1, <2>2, FoundTakes, GoesOnTakes, EndsTakes

LEMMA Here ==
  ASSUME LoopInv, Standing, ~ ThroughFile(asked), pc \in {"opendir", "readdir"}
  PROVE  /\ volume \in Volumes /\ depth \in Nat \ {0} /\ Len(asked) \in Nat /\ depth <= Len(asked)
         /\ Behind(Directory, pos, asked[depth])
         /\ \E d : /\ d.slot.kind = "directory" /\ Whole(volume, buf, d.slot.first)
                  /\ Reached(volume, asked, depth) = Under(volume, {d}, asked[depth])
<1>1. /\ volume \in Volumes /\ depth \in 1 .. Len(asked) /\ Len(asked) \in Nat
      /\ Whole(volume, buf, first) /\ Behind(Directory, pos, asked[depth])
  BY DEF LoopInv, FatTypes, TypeOK, ReadWhole, Positioned
<1>2. PICK k : k = depth - 1
  OBVIOUS
<1>3. k \in Nat /\ k + 1 = depth /\ depth \in Nat \ {0} /\ depth <= Len(asked)
  BY ONLY <1>1, <1>2
<1>4. PICK d : /\ Reached(volume, asked, k) = {d}
               /\ d.slot.kind = "directory" /\ d.slot.first = first
  BY <1>2 DEF Standing
<1>5. Reached(volume, asked, k + 1) = Under(volume, {d}, asked[k + 1])
  BY ONLY <1>3, <1>4, ReachedIs
<1> QED
  BY ONLY <1>1, <1>3, <1>4, <1>5

LEMMA PassedAll ==
  ASSUME LoopInv, Standing, ~ ThroughFile(asked), pc \in {"opendir", "readdir"},
         NEW p, Behind(Directory, p, asked[depth]),
         p > Len(Directory) \/ Directory[p].kind = "end"
  PROVE  Reached(volume, asked, Len(asked)) = {}
<1>1. /\ volume \in Volumes /\ depth \in Nat \ {0} /\ Len(asked) \in Nat /\ depth <= Len(asked)
      /\ \E d : /\ d.slot.kind = "directory" /\ Whole(volume, buf, d.slot.first)
               /\ Reached(volume, asked, depth) = Under(volume, {d}, asked[depth])
  BY Here
<1>2. PICK d : /\ d.slot.kind = "directory" /\ Whole(volume, buf, d.slot.first)
               /\ Reached(volume, asked, depth) = Under(volume, {d}, asked[depth])
  BY <1>1
<1>3. Under(volume, {d}, asked[depth]) = {}
  BY <1>1, <1>2, UnderNone DEF Directory
<1>4. Reached(volume, asked, depth) = {} /\ depth \in Nat
  BY ONLY <1>1, <1>2, <1>3
<1> QED
  BY ONLY <1>1, <1>4, NothingFurther

LEMMA CameTo ==
  ASSUME LoopInv, Standing, ~ ThroughFile(asked), pc \in {"opendir", "readdir"},
         IsName, Named(asked[depth])
  PROVE  /\ Reached(volume, asked, depth) = {Item(Directory, Entry)}
         /\ Directory[Entry].kind \in {"file", "directory"}
         /\ depth < Len(asked) => Directory[Entry].kind = "directory"
<1>1. /\ volume \in Volumes /\ depth \in Nat \ {0} /\ Len(asked) \in Nat /\ depth <= Len(asked)
      /\ Behind(Directory, pos, asked[depth])
      /\ \E d : /\ d.slot.kind = "directory" /\ Whole(volume, buf, d.slot.first)
               /\ Reached(volume, asked, depth) = Under(volume, {d}, asked[depth])
  BY Here
<1>2. PICK d : /\ d.slot.kind = "directory" /\ Whole(volume, buf, d.slot.first)
               /\ Reached(volume, asked, depth) = Under(volume, {d}, asked[depth])
  BY <1>1
<1>3. EntryAt(Directory, pos, Entry) /\ NameAt(Directory, pos, Entry) = asked[depth]
  BY EntryFacts
<1>4. /\ Under(volume, {d}, asked[depth]) = {Item(Directory, Entry)}
      /\ Directory[Entry].kind \in {"file", "directory"}
  <2>1. PICK D, e, name : D = Directory /\ e = Entry /\ name = asked[depth]
    OBVIOUS
  <2>2. D = SlotsOf(volume, buf)
    BY <2>1 DEF Directory
  <2>3. /\ Behind(SlotsOf(volume, buf), pos, name) /\ EntryAt(SlotsOf(volume, buf), pos, e)
        /\ NameAt(SlotsOf(volume, buf), pos, e) = name
    BY ONLY <1>1, <1>3, <2>1, <2>2
  <2>4. volume \in Volumes /\ Whole(volume, buf, d.slot.first) /\ d.slot.kind = "directory"
    BY ONLY <1>1, <1>2
  <2>5. /\ Under(volume, {d}, name) = {Item(SlotsOf(volume, buf), e)}
        /\ SlotsOf(volume, buf)[e].kind \in {"file", "directory"}
    <3>1. ComesTo(volume, buf, d, name, pos, e)
      BY ONLY <2>3, <2>4 DEF ComesTo
    <3> QED
      BY ONLY <3>1, UnderFound
  <2> QED
    BY ONLY <2>1, <2>2, <2>5
<1>5. ASSUME depth < Len(asked) PROVE Directory[Entry].kind # "file"
  <2>1. depth \in 1 .. Len(asked) - 1
    BY ONLY <1>1, <1>5
  <2>2. Item(Directory, Entry) \in Reached(volume, asked, depth)
    BY ONLY <1>2, <1>4
  <2>3. Item(Directory, Entry).slot = Directory[Entry]
    BY DEF Item
  <2> QED
    BY <2>1, <2>2, <2>3 DEF ThroughFile
<1> QED
  BY <1>2, <1>4, <1>5

LEMMA SamePath ==
  ASSUME UNCHANGED <<volume, asked>>
  PROVE  ThroughFile(asked)' <=> ThroughFile(asked)
  BY DEF ThroughFile

LEMMA FailsStep == ASSUME FatInv, FatStep PROVE FailsRight'
<1> SUFFICES ASSUME pc' = "failed", ~ ThroughFile(asked)' PROVE FailsRight'
  BY DEF FailsRight
<1> USE DEF FatInv
<1> DEFINE Excused == \/ Reached(volume, asked, Len(asked)) = {}
                      \/ \E i \in Reached(volume, asked, Len(asked)) :
                           Len(Chain(volume, i.slot.first)) * volume.unit < i.slot.size
<1>1. ASSUME UNCHANGED <<volume, asked>>, Excused PROVE FailsRight'
  BY <1>1 DEF FailsRight
<1>2. UNCHANGED <<volume, asked>> => ~ ThroughFile(asked)
  BY SamePath
<1>3. CASE CountCluster
  <2>1. /\ UNCHANGED <<volume, asked>> /\ pc = "file_length" /\ NextInChain = EndOfFile
        /\ BufferFor < size
    BY <1>3 DEF CountCluster
  <2>2. /\ volume \in Volumes /\ call = "open" /\ ~ Missing
        /\ \E s : Leads(volume, s, first) /\ Len(s) = length + 1 /\ s[Len(s)] = cluster
    BY <2>1 DEF LoopInv, FatTypes, TypeOK, Counting, Missing
  <2>3. PICK s : Leads(volume, s, first) /\ Len(s) = length + 1 /\ s[Len(s)] = cluster
    BY <2>2
  <2>4. Whole(volume, s, first)
    BY <2>1, <2>3 DEF Whole, NextInChain
  <2>5. Chain(volume, first) = s
    BY <2>2, <2>4, ChainIs
  <2>6. PICK i \in Reached(volume, asked, Len(asked)) : i.slot.first = first /\ i.slot.size = size
    BY <1>2, <2>1, <2>2 DEF Standing
  <2>7. (length + 1) * volume.unit < size
    BY <2>1 DEF BufferFor, Needed
  <2>8. Len(Chain(volume, i.slot.first)) * volume.unit < i.slot.size
    BY ONLY <2>3, <2>5, <2>6, <2>7
  <2> QED
    BY <1>1, <2>1, <2>8
<1>4. CASE ReadDirEnds
  <2>1. /\ UNCHANGED <<volume, asked>> /\ pc = "readdir"
        /\ pos > Len(Directory) \/ NoName
    BY <1>4 DEF ReadDirEnds, Take, search
  <2>2. ~ ThroughFile(asked)
    BY <1>2, <2>1
  <2>3. Behind(Directory, pos, asked[depth])
    BY <2>1, <2>2, Here
  <2>4. pos > Len(Directory) \/ Directory[pos].kind = "end"
    BY <2>1 DEF NoName
  <2>5. Reached(volume, asked, Len(asked)) = {}
    BY <2>1, <2>2, <2>3, <2>4, PassedAll
  <2> QED
    BY <1>1, <2>1, <2>5
<1>5. CASE UNCHANGED vars
  <2>1. UNCHANGED <<pc, volume, asked>>
    BY <1>5 DEF vars, search
  <2>2. Excused
    BY <1>2, <2>1 DEF FailsRight
  <2> QED
    BY <1>1, <2>1, <2>2
<1> QED
  <2>1. Loop \/ UNCHANGED vars
    BY DEF FatStep, Begin, Search, fat_read, fat_lseek, Over, LoopInv, FatTypes
  <2>2. Loop => CountCluster \/ ReadDirEnds
    BY DEF Loop, ReadCluster, StopReading, ReadMark, ReadOver, OpenDir, ReadDir, BehindBuffer,
           FoundFile, GoesOnWithout, Take
  <2> QED
    BY <1>3, <1>4, <1>5, <2>1, <2>2

\* What stands in the directory is kept while its chain is followed and its
\* slots are passed, and what is known of the file while it is read.
LEMMA KeepsDirectory ==
  ASSUME Standing, UNCHANGED <<volume, asked, depth, first>>,
         pc \in {"directory_length", "directory_read", "opendir", "readdir"},
         pc' \in {"directory_length", "directory_read", "opendir", "readdir"}
  PROVE  Standing'
<1> SUFFICES ASSUME ~ ThroughFile(asked)' PROVE Standing'
  BY DEF Standing
<1>1. ~ ThroughFile(asked)
  BY SamePath
<1>2. PICK d : /\ Reached(volume, asked, depth - 1) = {d}
               /\ d.slot.kind = "directory" /\ d.slot.first = first
  BY <1>1 DEF Standing
<1>3. /\ Reached(volume', asked', depth' - 1) = {d}
      /\ d.slot.kind = "directory" /\ d.slot.first = first'
  BY <1>2
<1> QED
  BY <1>3 DEF Standing

LEMMA KeepsFile ==
  ASSUME Standing, UNCHANGED <<volume, asked, call, first, size>>,
         pc \in {"file_length", "file_read", "opened", "loaded"},
         pc' \in {"file_length", "file_read", "opened", "loaded"}
  PROVE  Standing'
<1> SUFFICES ASSUME ~ ThroughFile(asked)' PROVE Standing'
  BY DEF Standing
<1>1. ~ ThroughFile(asked) /\ (Missing' <=> Missing)
  BY SamePath DEF Missing
<1>2. CASE Missing
  BY <1>1, <1>2 DEF Standing
<1>3. CASE ~ Missing
  <2>1. PICK i \in Reached(volume, asked, Len(asked)) : i.slot.first = first /\ i.slot.size = size
    BY <1>1, <1>3 DEF Standing
  <2>2. i \in Reached(volume', asked', Len(asked')) /\ i.slot.first = first' /\ i.slot.size = size'
    BY <2>1
  <2> QED
    BY <1>1, <1>3, <2>2 DEF Standing
<1> QED
  BY <1>2, <1>3

LEMMA StandsNowhere ==
  ASSUME pc' \in {"idle", "failed", "astray", "overrun"}
  PROVE  Standing'
  BY DEF Standing

\* Every slot has been passed, and none was the one that is looked for.
LEMMA NothingThere ==
  ASSUME LoopInv, Standing, ~ ThroughFile(asked), pc = "readdir", call # "open",
         pos > Len(Directory) \/ NoName, UNCHANGED <<volume, call, asked>>
  PROVE  Missing'
<1>1. Behind(Directory, pos, asked[depth])
  BY Here
<1>2. pos > Len(Directory) \/ Directory[pos].kind = "end"
  BY DEF NoName
<1>3. Reached(volume, asked, Len(asked)) = {}
  BY <1>1, <1>2, PassedAll
<1> QED
  BY <1>3 DEF Missing

LEMMA StandingStep == ASSUME LoopInv, Standing, FatStep PROVE Standing'
<1>1. CASE Begin
  <2>1. /\ volume' = volume /\ pc' = "directory_length" /\ depth' = 1 /\ first' = volume.root
    BY <1>1 DEF Begin, Search
  <2>2. Reached(volume, asked', 0) = {RootItem(volume)}
    BY ReachedIs
  <2>3. PICK d : d = RootItem(volume)
    OBVIOUS
  <2>4. d.slot.kind = "directory" /\ d.slot.first = volume.root
    BY ONLY <2>3 DEF RootItem
  <2>5. /\ Reached(volume', asked', depth' - 1) = {d}
        /\ d.slot.kind = "directory" /\ d.slot.first = first'
    BY ONLY <2>1, <2>2, <2>3, <2>4
  <2> QED
    BY <2>1, <2>5 DEF Standing
<1>2. CASE CountCluster \/ ReadCluster \/ StopReading
  <2>1. UNCHANGED <<volume, asked, call, depth, first, size>>
    BY <1>2 DEF CountCluster, ReadCluster, StopReading, search
  <2>2. CASE pc \in {"directory_length", "directory_read"}
    <3>1. pc' \in {"directory_length", "directory_read", "opendir", "readdir", "astray"}
      BY <1>2, <2>2 DEF CountCluster, ReadCluster, StopReading, ReadOver
    <3> QED
      BY <2>1, <2>2, <3>1, KeepsDirectory, StandsNowhere
  <2>3. CASE pc \in {"file_length", "file_read"}
    <3>1. pc' \in {"file_length", "file_read", "opened", "loaded", "failed", "astray"}
      BY <1>2, <2>3 DEF CountCluster, ReadCluster, StopReading, ReadOver
    <3> QED
      BY <2>1, <2>3, <3>1, KeepsFile, StandsNowhere
  <2> QED
    BY <1>2, <2>2, <2>3 DEF CountCluster, ReadCluster, StopReading
<1>3. CASE OpenDir
  <2>1. UNCHANGED <<volume, asked>> /\ pc = "opendir"
    BY <1>3 DEF OpenDir
  <2>2. CASE pc' = "astray"
    BY <2>2, StandsNowhere
  <2>3. CASE UNCHANGED <<pc, depth, first>>
    BY <2>1, <2>3, KeepsDirectory
  <2>4. CASE /\ IsName /\ Named(asked[depth]) /\ pc' = "directory_length"
             /\ depth' = depth + 1 /\ first' = Directory[Entry].first
    <3> SUFFICES ASSUME ~ ThroughFile(asked)' PROVE Standing'
      BY DEF Standing
    <3>1. ~ ThroughFile(asked)
      BY <2>1, SamePath
    <3>2. depth \in Nat /\ depth < Len(asked)
      BY <2>1 DEF LoopInv, FatTypes
    <3>3. Reached(volume, asked, depth) = {Item(Directory, Entry)} /\ Directory[Entry].kind = "directory"
      BY <2>1, <2>4, <3>1, <3>2, CameTo
    <3>4. PICK d : d = Item(Directory, Entry)
      OBVIOUS
    <3>5. d.slot = Directory[Entry]
      BY <3>4 DEF Item
    <3>6. depth' - 1 = depth
      BY ONLY <2>4, <3>2
    <3>7. /\ Reached(volume', asked', depth' - 1) = {d}
          /\ d.slot.kind = "directory" /\ d.slot.first = first'
      BY ONLY <2>1, <2>4, <3>3, <3>4, <3>5, <3>6
    <3> QED
      BY <2>4, <3>7 DEF Standing
  <2> QED
    BY <1>3, <2>2, <2>3, <2>4 DEF OpenDir
<1>4. CASE ReadDir
  BY <1>4, KeepsDirectory DEF ReadDir
<1>5. CASE BehindBuffer \/ ReadMark \/ Over
  BY <1>5, StandsNowhere DEF BehindBuffer, ReadMark, Over
<1>6. CASE FoundFile
  <2>1. /\ pc = "readdir" /\ IsName /\ Named(asked[depth]) /\ Take(Directory[Entry])
    BY <1>6 DEF FoundFile
  <2>2. /\ UNCHANGED <<volume, asked>> /\ pc' \in {"file_length", "file_read", "loaded"}
        /\ first' = Directory[Entry].first /\ size' = Directory[Entry].size
    BY <2>1 DEF Take
  <2> SUFFICES ASSUME ~ ThroughFile(asked)' PROVE Standing'
    BY DEF Standing
  <2>3. ~ ThroughFile(asked)
    BY <2>2, SamePath
  <2>4. Reached(volume, asked, depth) = {Item(Directory, Entry)} /\ depth = Len(asked)
    BY <2>1, <2>3, CameTo DEF LoopInv, FatTypes
  <2>5. PICK i : i = Item(Directory, Entry)
    OBVIOUS
  <2>6. i.slot = Directory[Entry]
    BY <2>5 DEF Item
  <2>7. i \in Reached(volume', asked', Len(asked')) /\ i.slot.first = first' /\ i.slot.size = size'
        /\ ~ Missing'
    BY ONLY <2>2, <2>4, <2>5, <2>6 DEF Missing
  <2> QED
    BY <2>2, <2>7 DEF Standing
<1>7. CASE GoesOnWithout
  <2>1. CASE pc' = "astray"
    BY <2>1, StandsNowhere
  <2>2. CASE Taken
    <3>1. pc = "readdir" /\ call = "font" /\ NoName
      BY <1>7, GoesOnTakes
    <3>2. UNCHANGED <<volume, call, asked>> /\ pc' \in {"file_length", "file_read", "loaded"}
      BY <2>2 DEF Taken, Take
    <3> SUFFICES ASSUME ~ ThroughFile(asked)' PROVE Standing'
      BY DEF Standing
    <3>3. ~ ThroughFile(asked)
      BY <3>2, SamePath
    <3>4. Missing'
      BY <3>1, <3>2, <3>3, NothingThere
    <3> QED
      BY <3>1, <3>2, <3>4 DEF Standing
  <2> QED
    BY <1>7, <2>1, <2>2, GoesOnTakes
<1>8. CASE (\E n \in Sizes : fat_read(n))
           \/ \E whence \in {"SET", "CUR", "END", "other"}, by \in Offsets : fat_lseek(whence, by)
  <2>1. /\ UNCHANGED <<volume, asked, call, first, size>> /\ pc = "opened"
        /\ pc' \in {"opened", "overrun"}
    BY <1>8 DEF fat_read, fat_lseek, search
  <2> QED
    BY <2>1, KeepsFile, StandsNowhere
<1>9. CASE ReadDirEnds
  <2>1. CASE pc' = "failed"
    BY <2>1, StandsNowhere
  <2>2. CASE call = "load" /\ Take(Cleared)
    <3>1. pc = "readdir" /\ (pos > Len(Directory) \/ NoName)
      BY <1>9, EndsTakes
    <3>2. /\ UNCHANGED <<volume, call, asked>> /\ pc' \in {"file_read", "loaded"}
          /\ first' = 0 /\ size' = 0
      BY <2>2 DEF Take, Cleared
    <3> SUFFICES ASSUME ~ ThroughFile(asked)' PROVE Standing'
      BY DEF Standing
    <3>3. ~ ThroughFile(asked)
      BY <3>2, SamePath
    <3>4. Missing'
      BY <2>2, <3>1, <3>2, <3>3, NothingThere
    <3> QED
      BY <3>2, <3>4 DEF Standing
  <2> QED
    BY <1>9, <2>1, <2>2, EndsTakes
<1>10. CASE UNCHANGED vars
  <2>1. UNCHANGED <<volume, asked, call, depth, first, size, pc>>
    BY <1>10 DEF vars, search
  <2>2. ThroughFile(asked)' <=> ThroughFile(asked)
    BY <2>1, SamePath
  <2>3. Missing' <=> Missing
    BY <2>1 DEF Missing
  <2> QED
    BY <2>1, <2>2, <2>3 DEF Standing
<1> QED
  BY <1>1, <1>2, <1>3, <1>4, <1>5, <1>6, <1>7, <1>8, <1>9, <1>10 DEF FatStep, Loop

\* On every volume, a search for any path ends with the file that the
\* directories list under its names, and fails only for the reasons the property
\* names (fatfs_searchfile, fatfs_opendir, read_file of src/fs/fat.c).
THEOREM SearchCorrect == BootSpec => []SearchRight
<1>1. BootInit => FatInv
  <2> SUFFICES ASSUME BootInit PROVE FatInv
    OBVIOUS
  <2>1. Init /\ pc = "idle"
    BY DEF BootInit, Init
  <2> QED
    BY <2>1, LoopInit DEF FatInv, Standing, Filled, FailsRight
<1>2. FatInv /\ [BootNext]_bootVars => FatInv'
  BY FatSteps, LoopStep, StandingStep, FilledStep, FailsStep DEF FatInv
<1>3. FatInv => SearchRight
  BY SearchEndsRight
<1> QED
  BY <1>1, <1>2, <1>3, PTL DEF BootSpec
=============================================================================
