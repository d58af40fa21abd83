-------------------------------- MODULE Fat --------------------------------
(***************************************************************************)
(* The FAT driver (src/fs/fat.c) and the open file on top of it            *)
(* (src/fs/fs_generic.c): following cluster chains, searching directories, *)
(* loading a program for exec or the font for DisplayInit, and reading and *)
(* seeking in a file, which fat_open has read into memory whole.           *)
(*                                                                         *)
(* One action is one iteration of a loop.  A volume is what is on the      *)
(* disk; nothing writes to it.  A buffer is the sequence of the clusters   *)
(* read into it, a directory the sequence of its 32-byte slots.            *)
(***************************************************************************)
EXTENDS Integers, Sequences, FiniteSets

CONSTANTS
  Volumes,    \* what may be on the disk
  Paths,      \* what is looked for: directories, then a name
  EndOfFile,  \* FAT32_ENTRY_END_OF_FILE and its like
  OtherMark,  \* any other entry that names no cluster
  LoadLimit,  \* how many bytes exec has room for: 4096
  FontLimit,  \* how many bytes DisplayInit has room for: 40960
  Sizes,      \* how many bytes fat_read is asked for
  Offsets,    \* where fat_lseek may go
  Wide        \* offsets are added to sizes modulo Wide: 2^64

(***************************************************************************)
(* A volume has the size of a cluster in bytes, the first cluster of the   *)
(* root, the entries of the FAT, and of each cluster the slots that it     *)
(* holds (or that its bytes happen to look like).  Cluster 0 is none.      *)
(***************************************************************************)
Slot == [kind : {"end", "long", "file", "directory"},
         name : STRING, first : Nat, size : Nat]

\* A long name is followed by more of it or by what it is the name of, and no
\* caller of fat_read has a buffer of a size near 2^64.
ASSUME FatAssumption ==
  /\ EndOfFile # OtherMark
  /\ LoadLimit \in Nat /\ FontLimit \in Nat /\ Wide \in Nat
  /\ Sizes \subseteq Nat /\ Offsets \subseteq Int
  /\ Paths \subseteq Seq(STRING) \ {<<>>}
  /\ \A v \in Volumes :
       /\ v.unit \in Nat \ {0}
       /\ IsFiniteSet(DOMAIN v.fat)
       /\ EndOfFile \notin DOMAIN v.fat /\ OtherMark \notin DOMAIN v.fat
       /\ 0 \in DOMAIN v.fat /\ v.fat[0] = OtherMark
       /\ v.root \in DOMAIN v.fat
       /\ \A c \in DOMAIN v.fat :
            /\ v.fat[c] \in DOMAIN v.fat \cup {EndOfFile, OtherMark}
            /\ v.slots[c] \in Seq(Slot)
            /\ v.slots[c] # <<>>
            /\ \A i \in 1 .. Len(v.slots[c]) :
                 /\ v.slots[c][i].first \in DOMAIN v.fat
                 /\ \A n \in Sizes : v.slots[c][i].size + n < Wide
                 /\ v.slots[c][i].kind = "long" =>
                      IF i < Len(v.slots[c]) THEN v.slots[c][i + 1].kind # "end"
                      ELSE v.fat[c] \in DOMAIN v.fat => v.slots[v.fat[c]][1].kind # "end"

VARIABLES
  volume,   \* what the disk holds
  pc,       \* the loop that runs, or how it ended
  call,     \* "open" (fat_open), "load" (exec) or "font" (read_file)
  asked,    \* the path
  depth,    \* how much of it has been found
  first,    \* the first cluster of the directory or file
  cluster,  \* where the loop over its chain is
  length,   \* what compute_cluster_chain_length has counted
  bufsize,  \* the size of the buffer in bytes
  buf,      \* the clusters read into it
  pos,      \* the slot at which read_name begins
  size,     \* FileSize of the file found
  offset,   \* offset of the fat_context
  given     \* the bytes that fat_read has delivered

search == <<call, asked, depth, first, cluster, length, bufsize, buf, pos, size>>
vars == <<volume, pc, search, offset, given>>

\* Every search begins with fatfs_init, which finds out how the volume is laid
\* out; that is part of the volume here.
Init ==
  /\ volume \in Volumes
  /\ pc = "idle"
  /\ call = "open" /\ asked = <<>> /\ depth = 0
  /\ first = 0 /\ cluster = 0 /\ length = 0
  /\ bufsize = 0 /\ buf = <<>> /\ pos = 1 /\ size = 0
  /\ offset = 0 /\ given = <<>>

Concat(seqs) ==
  LET joined[n \in 0 .. Len(seqs)] ==
        IF n = 0 THEN <<>> ELSE joined[n - 1] \o seqs[n]
  IN joined[Len(seqs)]
SlotsOf(v, clusters) == Concat([i \in 1 .. Len(clusters) |-> v.slots[clusters[i]]])
BytesOf(v, clusters) ==
  Concat([i \in 1 .. Len(clusters) |-> [j \in 1 .. v.unit |-> <<clusters[i], j>>]])
-----------------------------------------------------------------------------
\* extract_fat_entry.
NextInChain == volume.fat[cluster]

\* fat_open or exec calls fatfs_searchfile, and fatfs_opendir begins at the
\* root; or DisplayInit calls read_file, which searches the root only.
Search(what, path) ==
  /\ pc = "idle"
  /\ pc' = "directory_length"
  /\ call' = what
  /\ asked' = path
  /\ depth' = 1
  /\ first' = volume.root /\ cluster' = volume.root
  /\ length' = 0 /\ bufsize' = 0
  /\ UNCHANGED <<volume, buf, pos, size, offset, given>>

\* The buffer of fatfs_opendir only grows; fat_open's is made to fit.
Needed == (length + 1) * volume.unit
BufferFor ==
  IF pc = "directory_length" /\ bufsize > Needed THEN bufsize ELSE Needed

\* compute_cluster_chain_length, one iteration, and what its callers do then.
CountCluster ==
  /\ pc \in {"directory_length", "file_length"}
  /\ length' = length + 1
  /\ \/ /\ NextInChain = EndOfFile
        /\ pc' = IF pc = "directory_length" THEN "directory_read"
                 ELSE IF BufferFor < size THEN "failed" ELSE "file_read"
        /\ cluster' = first
        /\ bufsize' = BufferFor
        /\ buf' = <<>>
     \/ /\ NextInChain \in DOMAIN volume.fat
        /\ cluster' = NextInChain
        /\ UNCHANGED <<pc, bufsize, buf>>
     \/ /\ NextInChain = OtherMark
        /\ pc' = "astray"
        /\ UNCHANGED <<cluster, bufsize, buf>>
  /\ UNCHANGED <<volume, call, asked, depth, first, pos, size, offset, given>>

\* What follows read_cluster_chain.
ReadOver ==
  IF pc = "directory_read"
    THEN IF depth < Len(asked) THEN "opendir" ELSE "readdir"
    ELSE IF call = "open" THEN "opened" ELSE "loaded"

NoRoomM == bufsize < Len(buf) * volume.unit
NoRoom == bufsize < (Len(buf) + 1) * volume.unit

\* read_cluster_chain, one iteration ...
ReadCluster ==
  /\ pc \in {"directory_read", "file_read"}
  /\ ~ NoRoom
  /\ cluster # OtherMark
  /\ buf' = Append(buf, cluster)
  /\ IF NextInChain = EndOfFile THEN pc' = ReadOver /\ UNCHANGED cluster
                                ELSE cluster' = NextInChain /\ UNCHANGED pc
  /\ pos' = 1
  /\ UNCHANGED <<volume, call, asked, depth, first, length, bufsize, size, offset, given>>

\* ... or none, when the buffer has no room for another cluster; and only when it
\* has, a mark that is not the end of the chain is taken for a cluster.
StopReading ==
  /\ pc \in {"directory_read", "file_read"}
  /\ NoRoom
  /\ pc' = ReadOver
  /\ UNCHANGED <<volume, search, offset, given>>

ReadMark ==
  /\ pc \in {"directory_read", "file_read"}
  /\ ~ NoRoom
  /\ cluster = OtherMark
  /\ pc' = "astray"
  /\ UNCHANGED <<volume, search, offset, given>>

\* The directory in fatfs_opendir's buffer.
Directory == SlotsOf(volume, buf)

\* read_name: the slots of a long name stand before the entry itself, and the
\* name is read from the last of them backwards.  It has no name to give at the
\* end of the list.  A long name that the directory breaks off makes it look one
\* slot behind the buffer.
Entry ==
  CHOOSE i \in pos .. Len(Directory) :
    /\ Directory[i].kind # "long"
    /\ \A j \in pos .. i - 1 : Directory[j].kind = "long"
ShortNamedM(name) == Directory[Entry].name = name
Named(name) == Directory[IF Entry = pos THEN pos ELSE Entry - 1].name = name
NoName == pos <= Len(Directory) /\ Directory[pos].kind = "end"
BrokenOff == \A i \in pos .. Len(Directory) : Directory[i].kind = "long"
IsName == pos <= Len(Directory) /\ ~ NoName /\ ~ BrokenOff

NextPosM == Entry
NextPos == Entry + 1

\* fatfs_opendir, one entry.  It gives up at the end of the directory before
\* it compares the name, and fatfs_searchfile closes the directory that it did
\* not get: fatfs_closedir frees what address 0 points to, and writes there.
OpenDir ==
  /\ pc = "opendir"
  /\ \/ /\ NoName \/ (IsName /\ NextPos > Len(Directory))
        /\ pc' = "astray"
        /\ UNCHANGED <<depth, first, cluster, length, pos>>
     \/ /\ IsName /\ NextPos <= Len(Directory)
        /\ IF Named(asked[depth])
             THEN /\ pc' = "directory_length"
                  /\ depth' = depth + 1
                  /\ first' = Directory[Entry].first
                  /\ cluster' = first'
                  /\ length' = 0
                  /\ UNCHANGED pos
             ELSE pos' = NextPos /\ UNCHANGED <<pc, depth, first, cluster, length>>
  /\ UNCHANGED <<volume, call, asked, bufsize, buf, size, offset, given>>

\* fatfs_readdir, called by fatfs_searchfile until the name is found, or the
\* loop of read_file.
ReadDir ==
  /\ pc = "readdir"
  /\ IsName
  /\ ~ Named(asked[depth])
  /\ pos' = NextPos
  /\ UNCHANGED <<volume, pc, call, asked, depth, first, cluster, length, bufsize,
                 buf, size, offset, given>>

\* A name is read from behind the buffer: one that is broken off, or, since
\* read_file does not check where it is, one after the last slot.
BehindBuffer ==
  /\ pc \in {"opendir", "readdir"}
  /\ IF pos > Len(Directory) THEN call = "font" ELSE BrokenOff
  /\ pc' = "astray"
  /\ UNCHANGED <<volume, search, offset, given>>

\* The file to be read has this slot.  The buffers of exec and DisplayInit have
\* a fixed size, and nothing is read of a file that is longer.
Limit == IF call = "load" THEN LoadLimit ELSE FontLimit

Take(slot) ==
  /\ first' = slot.first
  /\ cluster' = first'
  /\ size' = slot.size
  /\ length' = 0
  /\ buf' = <<>>
  /\ IF call = "open"
       THEN pc' = "file_length" /\ UNCHANGED bufsize
       ELSE /\ bufsize' = Limit
            /\ pc' = IF Limit < size' THEN "loaded" ELSE "file_read"
  /\ UNCHANGED <<volume, call, asked, depth, pos, offset, given>>

\* There is no such name.  fat_open fails; exec only says so, and goes on with
\* the FATFile_Type that nothing was written to.
Cleared == [first |-> 0, size |-> 0]

ReadDirEnds ==
  /\ pc = "readdir" /\ call # "font"
  /\ pos > Len(Directory) \/ NoName
  /\ IF call = "load" THEN Take(Cleared)
     ELSE pc' = "failed" /\ UNCHANGED <<volume, search, offset, given>>

FoundFile ==
  /\ pc = "readdir"
  /\ IsName
  /\ Named(asked[depth])
  /\ Take(Directory[Entry])

\* read_file reports that there is no such name, and goes on with the slot
\* before the one it stopped at; in an empty directory, with what stands in
\* front of the buffer.
GoesOnWithout ==
  /\ pc = "readdir" /\ call = "font"
  /\ NoName
  /\ IF pos > 1 THEN Take(Directory[pos - 1])
     ELSE pc' = "astray" /\ UNCHANGED <<volume, search, offset, given>>
-----------------------------------------------------------------------------
\* fat_read: the sum of a signed offset and an unsigned size is unsigned.
PastEndM(n) == FALSE
PastEnd(n) == (offset + n) % Wide > size
Count(n) == IF PastEnd(n) THEN (size - offset) % Wide ELSE n

fat_read(n) ==
  /\ pc = "opened"
  /\ IF offset >= 0 /\ offset + Count(n) <= bufsize
       THEN /\ given' = SubSeq(BytesOf(volume, buf), offset + 1, offset + Count(n))
            /\ offset' = offset + Count(n)
            /\ UNCHANGED pc
       ELSE pc' = "overrun" /\ UNCHANGED <<given, offset>>
  /\ UNCHANGED <<volume, search>>

\* fat_lseek returns -1 for a whence that it does not know, and moves nothing.
Base(whence) == CASE whence = "SET" -> 0 [] whence = "CUR" -> offset [] whence = "END" -> size

fat_lseek(whence, by) ==
  /\ pc = "opened"
  /\ IF whence \in {"SET", "CUR", "END"}
       THEN offset' = Base(whence) + by /\ offset' \in Offsets
       ELSE UNCHANGED offset
  /\ UNCHANGED <<volume, pc, search, given>>

\* fat_close, or fat_open and exec return: what was searched is forgotten.
Over ==
  /\ pc \in {"opened", "loaded", "failed"}
  /\ pc' = "idle"
  /\ call' = "open" /\ asked' = <<>> /\ depth' = 0
  /\ first' = 0 /\ cluster' = 0 /\ length' = 0
  /\ bufsize' = 0 /\ buf' = <<>> /\ pos' = 1 /\ size' = 0
  /\ offset' = 0 /\ given' = <<>>
  /\ UNCHANGED volume

\* A loop that reads what is not on the volume, or a copy of what is not in
\* the buffer: what the kernel does from here depends on what it finds there.
Lost == pc \in {"astray", "overrun"} /\ UNCHANGED vars

Loop ==
  \/ CountCluster \/ ReadCluster \/ StopReading \/ ReadMark
  \/ OpenDir \/ ReadDir \/ ReadDirEnds \/ BehindBuffer
  \/ FoundFile \/ GoesOnWithout

Next ==
  \/ Loop
  \/ \E what \in {"open", "load"}, path \in Paths : Search(what, path)
  \/ \E n \in Sizes : fat_read(n)
  \/ \E whence \in {"SET", "CUR", "END", "other"}, by \in Offsets : fat_lseek(whence, by)
  \/ Over
  \/ Lost

Spec == Init /\ [][Next]_vars

\* Nothing in a loop waits.
FairSpec == Spec /\ WF_vars(Loop)
-----------------------------------------------------------------------------
(***************************************************************************)
(* What the volume says, without the loops.  An operator above whose name  *)
(* ends in M is a mistaken form of the definition after it.                *)
(***************************************************************************)
\* The clusters of a chain, as the entries of the FAT link them.
Chain(v, c) ==
  LET most == Cardinality(DOMAIN v.fat)
      nth[n \in 0 .. most] ==
        IF n = 0 THEN c
        ELSE LET before == nth[n - 1]
             IN IF before \in DOMAIN v.fat THEN v.fat[before] ELSE before
  IN [n \in 1 .. Cardinality({m \in 0 .. most : nth[m] \in DOMAIN v.fat}) |-> nth[n - 1]]

\* What a directory lists: everything before the end, under its long name.
Items(v, c) ==
  LET slots == SlotsOf(v, Chain(v, c))
      Listed(i) == /\ slots[i].kind \in {"file", "directory"}
                   /\ \A j \in 1 .. i : slots[j].kind # "end"
      NameOf(i) == IF i > 1 /\ slots[i - 1].kind = "long" THEN slots[i - 1].name
                                                         ELSE slots[i].name
  IN {[slot |-> slots[i], name |-> NameOf(i), at |-> i, last |-> i = Len(slots)] :
        i \in {j \in 1 .. Len(slots) : Listed(j)}}

\* What the directories among some items list under a name: the first of each.
Under(v, items, name) ==
  LET FirstOf(list) == {i \in list : /\ i.name = name
                                     /\ \A j \in list : j.name = name => i.at <= j.at}
  IN UNION {FirstOf(Items(v, d.slot.first)) : d \in {e \in items : e.slot.kind = "directory"}}

\* The item that the first k names of a path lead to; none when there is none.
Reached(v, path, k) ==
  LET root == [slot |-> [kind |-> "directory", first |-> v.root]]
      reached[n \in 0 .. k] ==
        IF n = 0 THEN {root} ELSE Under(v, reached[n - 1], path[n])
  IN reached[k]

\* The name of a file stands where a path should have a directory; or a
\* directory of the path has the very last slot of the directory it is in.
ThroughFile(path) ==
  \E k \in 1 .. Len(path) - 1 : \E i \in Reached(volume, path, k) : i.slot.kind = "file"
ThroughLastSlot(path) ==
  \E k \in 1 .. Len(path) - 1 : \E i \in Reached(volume, path, k) : i.last

\* Chains end as the driver expects, what has an entry has a cluster, and no
\* long name is broken off.
WellFormed ==
  \A c \in DOMAIN volume.fat \ {0} :
    LET chain == Chain(volume, c)
        end   == chain[Len(chain)]
    IN /\ Len(chain) < Cardinality(DOMAIN volume.fat)
       /\ volume.fat[end] = EndOfFile
       /\ volume.slots[end][Len(volume.slots[end])].kind # "long"
       /\ \A i \in 1 .. Len(volume.slots[c]) :
            volume.slots[c][i].kind \in {"file", "directory"} => volume.slots[c][i].first # 0
-----------------------------------------------------------------------------
\* Properties.

\* Every variable has its type, and no loop leaves the volume, its buffer or its
\* directory: read_cluster_chain never writes past the buffer it is given.
TypeOK ==
  /\ volume \in Volumes
  /\ pc \in {"idle", "directory_length", "directory_read", "opendir", "readdir",
             "file_length", "file_read", "opened", "loaded", "failed",
             "astray", "overrun"}
  /\ first \in DOMAIN volume.fat /\ cluster \in DOMAIN volume.fat \cup {OtherMark}
  /\ buf \in Seq(DOMAIN volume.fat)
  /\ Len(buf) * volume.unit <= bufsize
  /\ depth \in 0 .. Len(asked)
  /\ pos \in Nat /\ (pc = "opendir" => pos \in 1 .. Len(Directory))
  /\ offset \in Int /\ length \in Nat /\ size \in Nat

\* exec or read_file looks for a file that the directories do not list.
Missing == call # "open" /\ Reached(volume, asked, Len(asked)) = {}

\* Clusters that begin with c, each linked to the next.
Linked(clusters, c) ==
  \A i \in 1 .. Len(clusters) :
    clusters[i] = IF i = 1 THEN c ELSE volume.fat[clusters[i - 1]]

\* A search ends with what the path names: the file that the directories list
\* under these names, with all its clusters in the buffer, in their order; exec
\* and DisplayInit get as many of them, from the first, as there is room for.
\* Only fat_open fails, and only when there is no such file or its chain is too
\* short for it.  exec and read_file do not fail when there is no such file: exec
\* ends with an empty file that begins at cluster 0, read_file with another
\* file.  (A path through a file is outside: its bytes are taken for a
\* directory.)
SearchRight ==
  ~ ThroughFile(asked) =>
    LET found == Reached(volume, asked, Len(asked))
        Held(c) == Len(Chain(volume, c)) * volume.unit
    IN /\ pc \in {"opened", "loaded"} /\ ~ Missing =>
            \E i \in found :
              /\ first = i.slot.first /\ size = i.slot.size
              /\ pc = "opened" => buf = Chain(volume, first)
              /\ pc = "loaded" =>
                   /\ Linked(buf, first)
                   /\ size <= (Limit \div volume.unit) * volume.unit /\ size <= Held(first)
                        => size <= Len(buf) * volume.unit
       /\ pc = "loaded" /\ call = "load" /\ Missing => first = 0 /\ size = 0
       /\ pc = "failed" =>
            /\ call = "open"
            /\ found = {} \/ \E i \in found : Held(i.slot.first) < i.slot.size

\* From any place inside the file fat_read delivers the bytes that stand there
\* in the chain of clusters, as many as there are up to the end of the file,
\* and goes on behind them, whatever was read and sought before.
ReadsRight ==
  [][\A n \in Sizes :
       fat_read(n) /\ offset \in 0 .. size =>
         LET end == IF offset + n > size THEN size ELSE offset + n
         IN /\ offset' = end
            /\ given' = SubSeq(BytesOf(volume, Chain(volume, first)), offset + 1, end)]_vars

Searching ==
  pc \in {"directory_length", "directory_read", "opendir", "readdir",
         "file_length", "file_read"}

\* On a well-formed volume a search comes to an end, found or not.  The directory
\* must be there, and be found (fatfs_opendir never compares the last slot), or
\* fatfs_closedir loses its way; for exec and read_file the file must be there.
SearchEnds ==
  (/\ WellFormed /\ Searching /\ ~ Missing
   /\ Reached(volume, asked, Len(asked) - 1) # {} /\ ~ ThroughLastSlot(asked))
    ~> (pc \in {"opened", "loaded", "failed"})
=============================================================================
