-------------------------------- MODULE Boot --------------------------------
(***************************************************************************)
(* The kernel coming up, as far as it depends on what is on the bus and on *)
(* the disk (src/boot/main.c): pci_init, then DisplayInit, which looks for *)
(* the frame buffer in the list of PCI devices and reads the font with     *)
(* read_file, then the file system as it is used afterwards.               *)
(***************************************************************************)
EXTENDS Fat, Pci

CONSTANTS
  FontFile,  \* "unifont-asiic.bdf"
  Machines   \* which bus comes with which volume

ASSUME BootAssumption == Machines \subseteq Buses \X Volumes /\ FontFile \in STRING

VARIABLES
  frame_buffer,  \* the physical address of the frame buffer
  stage          \* how far main is

bootVars == <<vars, pciVars, frame_buffer, stage>>

BootInit ==
  /\ Init
  /\ PciInit
  /\ <<bus, volume>> \in Machines
  /\ frame_buffer = 0
  /\ stage = "pci_init"
-----------------------------------------------------------------------------
Enumerate ==
  /\ stage = "pci_init"
  /\ PciNext
  /\ UNCHANGED <<vars, frame_buffer, stage>>

\* DisplayInit up to the call of read_file.  It maps and uses whatever address
\* it gets.
DisplayInit ==
  /\ stage = "pci_init"
  /\ enumeration = "complete"
  /\ frame_buffer' = get_vga_frame_buffer_addr
  /\ Search("font", <<FontFile>>)
  /\ stage' = "font"
  /\ UNCHANGED pciVars

ReadFont ==
  /\ stage = "font"
  /\ Loop
  /\ UNCHANGED <<pciVars, frame_buffer, stage>>

\* FrameBufferClear draws spaces.  If nothing was read, file_seek finds no line
\* in the cleared font_buf, and runs on behind it.
FrameBufferClear ==
  /\ stage = "font"
  /\ pc = "loaded"
  /\ stage' = IF buf = <<>> THEN "astray" ELSE "up"
  /\ Over
  /\ UNCHANGED <<pciVars, frame_buffer>>

Run ==
  /\ stage = "up"
  /\ Next
  /\ UNCHANGED <<pciVars, frame_buffer, stage>>

\* main goes no further.
Stuck ==
  /\ \/ enumeration = "halted"
     \/ stage = "font" /\ pc = "astray"
     \/ stage = "astray"
  /\ UNCHANGED bootVars

BootNext ==
  \/ Enumerate \/ DisplayInit \/ ReadFont \/ FrameBufferClear \/ Run \/ Stuck

\* Nothing waits in a loop, nor between two calls of main.
Progress ==
  \/ Enumerate \/ DisplayInit \/ ReadFont \/ FrameBufferClear
  \/ stage = "up" /\ Loop /\ UNCHANGED <<pciVars, frame_buffer, stage>>

BootSpec == BootInit /\ [][BootNext]_bootVars /\ WF_bootVars(Progress)
-----------------------------------------------------------------------------
(***************************************************************************)
(* Properties.                                                             *)
(***************************************************************************)
\* The functions that pci_init gets to: no loop ends before them.
InReach ==
  {place \in DOMAIN bus :
     /\ \A d \in 0 .. place[1] : ~ EndsLoop(<<d, 0>>)
     /\ \A f \in 0 .. place[2] : ~ EndsLoop(<<place[1], f>>)}

\* What a machine needs for the kernel to come up: a display that pci_init gets
\* to, on a bus where the loops end, and a font of the right size in the root.
Displays == {place \in InReach : bus[place].display}

Bootable ==
  /\ WellFormed
  /\ \E d \in 0 .. Devices - 1 : EndsLoop(<<d, 0>>)
  /\ \A d \in 0 .. Devices - 1 : \E f \in 0 .. Functions - 1 : EndsLoop(<<d, f>>)
  /\ Displays # {}
  /\ volume.unit <= FontLimit
  /\ LET found == Reached(volume, <<FontFile>>, 1)
     IN found # {} /\ \A i \in found : i.slot.size <= FontLimit

\* On such a machine the kernel comes up, and draws into the frame buffer of the
\* first display, not into the first pages of memory.
ComesUp ==
  Bootable ~>
    /\ stage = "up"
    /\ \E place \in Displays :
         /\ \A other \in Displays : other = place \/ Before(place, other)
         /\ frame_buffer = bus[place].bar
=============================================================================
