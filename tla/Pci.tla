-------------------------------- MODULE Pci --------------------------------
(***************************************************************************)
(* The enumeration of the PCI bus in src/arch/x86/pci.c, one turn of a     *)
(* loop at a time, and the search for the display in the list it leaves.   *)
(*                                                                         *)
(* What the code compares is  reg & 0xffff == 0xffff,  which is  reg & 1:  *)
(* a loop ends at an odd vendor identifier, that of nothing (all ones) or  *)
(* of a device.                                                            *)
(***************************************************************************)
EXTENDS Integers, Sequences

CONSTANTS
  Devices,    \* how many devices a bus can have: 32
  Functions,  \* how many functions a device can have: 8
  Buses       \* what may be on bus 0: headers by device and function

NoVendor == 65535

ASSUME PciAssumption ==
  /\ Devices \in Nat \ {0} /\ Functions \in Nat \ {0}
  /\ \A b \in Buses :
       /\ DOMAIN b \subseteq (0 .. Devices - 1) \X (0 .. Functions - 1)
       /\ \A place \in DOMAIN b :
            /\ b[place].Vendor_ID \in 0 .. NoVendor - 1
            /\ b[place].display \in BOOLEAN  \* its class code
            /\ b[place].bar \in Nat          \* Base_Address_Register[0], masked

VARIABLES
  bus,           \* what is on the bus
  pci_dev_list,  \* the functions found, in the order of the list
  dev, func,     \* the loop counters of pci_init
  enumeration    \* the loop that runs, or how it ended

pciVars == <<bus, pci_dev_list, dev, func, enumeration>>

PciInit ==
  /\ bus \in Buses
  /\ pci_dev_list = <<>>
  /\ dev = 0 /\ func = 0
  /\ enumeration = "devices"
-----------------------------------------------------------------------------
Vendor(place) == IF place \in DOMAIN bus THEN bus[place].Vendor_ID ELSE NoVendor

EndsLoop(place) == Vendor(place) % 2 = 1

NextDevice ==
  /\ enumeration = "devices"
  /\ dev < Devices
  /\ IF EndsLoop(<<dev, 0>>)
       THEN enumeration' = "complete" /\ UNCHANGED func
       ELSE enumeration' = "functions" /\ func' = 0
  /\ UNCHANGED <<bus, pci_dev_list, dev>>

\* list_add_before the head of the list: the new one becomes the last.
ListedFirstM(device) == <<device>> \o pci_dev_list
Listed(device) == Append(pci_dev_list, device)

NextFunction ==
  /\ enumeration = "functions"
  /\ func < Functions
  /\ IF EndsLoop(<<dev, func>>)
       THEN /\ enumeration' = "devices"
            /\ dev' = dev + 1
            /\ UNCHANGED <<pci_dev_list, func>>
       ELSE /\ pci_dev_list' = Listed([place |-> <<dev, func>>,
                                       header |-> bus[<<dev, func>>]])
            /\ func' = func + 1
            /\ UNCHANGED <<enumeration, dev>>
  /\ UNCHANGED bus

\* The loops know no end but an odd vendor: on a bus or a device that is full,
\* the assertion of __pci_conf_addr_reg_write fails.
RunsOver ==
  /\ \/ enumeration = "devices" /\ dev = Devices
     \/ enumeration = "functions" /\ func = Functions
  /\ enumeration' = "halted"
  /\ UNCHANGED <<bus, pci_dev_list, dev, func>>

PciNext == NextDevice \/ NextFunction \/ RunsOver

\* The address of the first display in the list, or 0.
DisplaysListed == {i \in 1 .. Len(pci_dev_list) : pci_dev_list[i].header.display}

LastDisplayM ==
  IF DisplaysListed = {} THEN 0
  ELSE LET last == CHOOSE i \in DisplaysListed : \A j \in DisplaysListed : i >= j
       IN pci_dev_list[last].header.bar
get_vga_frame_buffer_addr ==
  IF DisplaysListed = {} THEN 0
  ELSE LET found == CHOOSE i \in DisplaysListed : \A j \in DisplaysListed : i <= j
       IN pci_dev_list[found].header.bar
-----------------------------------------------------------------------------
(***************************************************************************)
(* What the list should be, said of the bus alone.  LastDisplayM and       *)
(* ListedFirstM are mistaken forms of the definitions after them.          *)
(***************************************************************************)
Before(p, q) == p[1] < q[1] \/ (p[1] = q[1] /\ p[2] < q[2])

\* Devices, and functions of a device, are numbered without gaps; and no vendor
\* has an odd number, as many real ones have.
Regular ==
  \A place \in DOMAIN bus :
    /\ bus[place].Vendor_ID % 2 = 0
    /\ \A d \in 0 .. place[1] : <<d, 0>> \in DOMAIN bus
    /\ \A f \in 0 .. place[2] : <<place[1], f>> \in DOMAIN bus

\* pci_init lists functions of the bus, each once, with its own header and in the
\* order of their places, and all of them if the bus is regular.  (On another bus
\* functions may be missing from the list, though pci.c:13 says that it
\* enumerates all devices.)  It comes to no end only if no place for a device,
\* or for a function of a device, is free.
Enumerated ==
  /\ enumeration = "complete" =>
       /\ \A i \in 1 .. Len(pci_dev_list) :
            /\ pci_dev_list[i].place \in DOMAIN bus
            /\ pci_dev_list[i].header = bus[pci_dev_list[i].place]
       /\ \A i, j \in 1 .. Len(pci_dev_list) :
            i < j => Before(pci_dev_list[i].place, pci_dev_list[j].place)
       /\ Regular => {pci_dev_list[i].place : i \in 1 .. Len(pci_dev_list)} = DOMAIN bus
  /\ enumeration = "halted" =>
       \/ (0 .. Devices - 1) \X {0} \subseteq DOMAIN bus
       \/ \E d \in 0 .. Devices - 1 : {d} \X (0 .. Functions - 1) \subseteq DOMAIN bus
=============================================================================
