------------------------------- MODULE MCFat -------------------------------
(***************************************************************************)
(* Boot, and with it Fat and Pci, for TLC: small volumes and buses, each   *)
(* with one thing that can go wrong.                                       *)
(***************************************************************************)
EXTENDS Boot, TLC

F(name, c, n) == [kind |-> "file", name |-> name, first |-> c, size |-> n]
D(name, c) == [kind |-> "directory", name |-> name, first |-> c, size |-> 0]
L(name) == [kind |-> "long", name |-> name, first |-> 0, size |-> 0]
End == [kind |-> "end", name |-> "", first |-> 0, size |-> 0]

V(unit, fat, slots) ==
  [unit |-> unit, root |-> 2, fat |-> 0 :> OtherMark @@ fat,
   slots |-> slots @@ [c \in DOMAIN fat \cup {0} |-> <<End>>]]

\* Chains of two and three clusters; a long name that begins in one cluster
\* and ends in the next; a file whose bytes look like a directory.
Usual ==
  V(2,
    2 :> 5 @@ 5 :> 11 @@ 11 :> EndOfFile @@ 12 :> EndOfFile @@ 3 :> 4 @@ 4 :> EndOfFile
      @@ 6 :> 8 @@ 8 :> EndOfFile @@ 7 :> 10 @@ 10 :> 9 @@ 9 :> EndOfFile,
    2 :> <<F("a", 6, 3), L("sub")>> @@ 5 :> <<D("SUB~1", 3), F("font", 12, 2)>>
      @@ 3 :> <<D(".", 3), F("c", 8, 2)>> @@ 4 :> <<F("b", 7, 5), End>>
      @@ 6 :> <<F("b", 9, 1), End>>)

\* Directories without a free slot; more clusters than the file needs.
Full ==
  V(2,
    2 :> 10 @@ 10 :> 4 @@ 4 :> EndOfFile @@ 3 :> EndOfFile @@ 5 :> EndOfFile
      @@ 6 :> 8 @@ 8 :> 9 @@ 9 :> EndOfFile @@ 7 :> EndOfFile,
    2 :> <<D("up", 5), F("a", 6, 3)>> @@ 10 :> <<F("FONT~1", 7, 2), F("font", 6, 5)>>
      @@ 4 :> <<L("sub"), D("SUB~1", 3)>>
      @@ 3 :> <<L("b"), F("B~1", 7, 1)>> @@ 5 :> <<D("sub", 3), F("b", 7, 2)>>)

\* A cluster is larger than what exec has room for.
Large ==
  V(8, 2 :> EndOfFile @@ 6 :> EndOfFile @@ 7 :> EndOfFile,
    2 :> <<F("a", 6, 3), F("font", 7, 8), End>>)

\* An empty file has no cluster, nor has the entry for the root in another
\* directory; a chain ends in another mark.
Odd ==
  V(2,
    2 :> EndOfFile @@ 3 :> EndOfFile @@ 6 :> OtherMark @@ 7 :> EndOfFile,
    2 :> <<F("a", 0, 0), D("sub", 3), F("font", 7, 1)>> @@ 3 :> <<D("..", 0), F("b", 6, 1)>>)

OddRoot == V(2, 2 :> OtherMark @@ 6 :> EndOfFile, 2 :> <<F("a", 6, 1), End>>)

\* The root ends in the middle of a long name.
Broken ==
  V(2, 2 :> EndOfFile @@ 6 :> EndOfFile, 2 :> <<F("font", 6, 1), L("b")>>)

\* There is no font: in a root with room, in a full one, in an empty one; or it
\* is too long, or larger than the buffer with its last cluster.
NoFont == V(2, 2 :> EndOfFile @@ 6 :> EndOfFile, 2 :> <<F("a", 6, 1), End>>)
FullNoFont == V(2, 2 :> EndOfFile @@ 6 :> EndOfFile, 2 :> <<F("a", 6, 1)>>)
EmptyRoot == V(2, 2 :> EndOfFile, 2 :> <<End>>)
LongFont ==
  V(5, 2 :> EndOfFile @@ 6 :> 7 @@ 7 :> EndOfFile, 2 :> <<F("font", 6, 9), End>>)
LargeFont == V(9, 2 :> EndOfFile @@ 6 :> EndOfFile, 2 :> <<F("font", 6, 3), End>>)

\* One cluster of the font fits, but not the whole of it; the name before "a" has
\* lost its entry, and its chain is shorter than its size.
Uneven ==
  V(5, 2 :> EndOfFile @@ 6 :> EndOfFile @@ 7 :> EndOfFile,
    2 :> <<F("font", 6, 7), L("old"), L("a"), F("A~1", 7, 9), End>>)

MCVolumes == {Uneven, Usual, Full, Large, Odd, OddRoot, Broken, NoFont, FullNoFont,
              EmptyRoot, LongFont, LargeFont}

MCPaths ==
  { <<"a">>, <<"none">>, <<"sub", "b">>, <<"sub", "c">>, <<"up", "sub", "b">>, <<"up", "b">>,
    <<"sub", "..", "a">>, <<"sub", ".", "c">>, <<"none", "b">>, <<"sub", "none">>, <<"a", "b">> }

MCOffsets == -2 .. 7

\* A function of Intel, and displays of Bochs and of Cirrus, which is odd.
Bridge == [Vendor_ID |-> 32902, display |-> FALSE, bar |-> 0]
Bochs(address) == [Vendor_ID |-> 4660, display |-> TRUE, bar |-> address]
Cirrus == [Vendor_ID |-> 4115, display |-> TRUE, bar |-> 7]

Dense ==
  <<0, 0>> :> Bridge @@ <<1, 0>> :> Bridge @@ <<1, 1>> :> Bochs(8) @@ <<2, 0>> :> Bochs(9)
DeviceGap == <<0, 0>> :> Bridge @@ <<2, 0>> :> Bochs(8)
FunctionGap == <<0, 0>> :> Bridge @@ <<0, 2>> :> Bochs(8) @@ <<1, 0>> :> Bochs(9)
OddVendor == <<0, 0>> :> Bridge @@ <<1, 0>> :> Cirrus @@ <<2, 0>> :> Bochs(8)
FullDevice == <<0, 0>> :> Bochs(8) @@ <<0, 1>> :> Bridge @@ <<0, 2>> :> Bridge
FullBus == [place \in (0 .. 3) \X {0} |-> Bochs(8)]

MCBuses == {Dense, DeviceGap, FunctionGap, OddVendor, FullDevice, FullBus}
MCMachines == ({Dense} \X MCVolumes) \cup (MCBuses \X {Large})
=============================================================================
