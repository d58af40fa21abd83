----------------------------- MODULE OpenFiles -----------------------------
(***************************************************************************)
(* What the kernel promises of open files: each open makes a file of its   *)
(* own, a fork shares every one of the parent's with the child under the   *)
(* same descriptor, and a file is affected by calls on its descriptors and *)
(* by nothing else.  A descriptor is for one file for ever: close does not *)
(* give it back.  After a call that has no meaning nothing is promised.    *)
(***************************************************************************)
EXTENDS Integers, Sequences

CONSTANTS
  Procs, FirstProc,  \* processes
  TableSize,         \* descriptors of a process
  Descriptors,       \* what programs pass as one
  MaxOpens,          \* bounds the files opened in a behaviour
  Paths,             \* sequences of names
  Disk,              \* the files on the volume: a function from paths to bytes
  Directories,       \* the paths of its directories
  Capacity,          \* of a pipe, in bytes
  Data, Sizes,       \* what is written, how much is read
  Offsets            \* where programs seek to

VARIABLES
  call,   \* the last call
  ok,     \* FALSE once a call had no meaning
  procs,  \* the processes there are
  table,  \* of each process, the file behind each descriptor, 0 for none
  files,  \* the files opened so far
  got,    \* the bytes that the last read delivered
  ret     \* what the last call returned

vars == <<call, ok, procs, table, files, got, ret>>

Fds == 0 .. TableSize - 1

Least(m, n) == IF m <= n THEN m ELSE n

Init ==
  /\ call = <<>>
  /\ ok = TRUE
  /\ procs = {FirstProc}
  /\ table = [p \in Procs |-> [fd \in Fds |-> 0]]
  /\ files = <<>>
  /\ got = <<>>
  /\ ret = 0
-----------------------------------------------------------------------------
\* A path of a special file may repeat its name; below /disk the volume begins.
Special(path, name) == path # <<>> /\ \A i \in 1 .. Len(path) : path[i] = name
OnVolume(path) == path # <<>> /\ path[1] = "disk"

\* A path below /disk can be searched for if the directory it is in exists.
Openable(path) ==
  \/ Special(path, "stdio")
  \/ Special(path, "pipe")
  \/ /\ OnVolume(path)
     /\ Len(path) <= 2 \/ SubSeq(path, 2, Len(path) - 1) \in Directories

\* A file that the search does not find is open in name only.
Opened(path) ==
  LET kind == IF OnVolume(path) THEN "file" ELSE path[1]
      found == OnVolume(path) /\ Tail(path) \in DOMAIN Disk
  IN [kind |-> kind, usable |-> kind = "file" => found,
      contents |-> IF found THEN Disk[Tail(path)] ELSE <<>>, at |-> 0]

Open(p, path) ==
  LET unused == {fd \in Fds : table[p][fd] = 0} IN
  /\ call' = <<"open", p, path>>
  /\ Openable(path)
  /\ Len(files) < MaxOpens
  /\ files' = Append(files, Opened(path))
  /\ \/ /\ unused = {}
        /\ ret' = -1
        /\ UNCHANGED table
     \/ \E fd \in unused :
          /\ \A other \in unused : fd <= other
          /\ table' = [table EXCEPT ![p][fd] = Len(files) + 1]
          /\ ret' = fd
  /\ UNCHANGED <<ok, procs, got>>

Fork(p, q) ==
  /\ call' = <<"fork", p, q>>
  /\ q \notin procs
  /\ procs' = procs \cup {q}
  /\ table' = [table EXCEPT ![q] = table[p]]
  /\ ret' = 0
  /\ UNCHANGED <<ok, files, got>>
-----------------------------------------------------------------------------
\* What else a program asks for: a request and its argument.  "whence" is to seek
\* from a place that there is not.
Requests ==
  ({"read"} \X Sizes) \cup ({"write"} \X Data) \cup ({"lseek"} \X Offsets)
    \cup ({"whence", "close", "ioctl", "fstat"} \X {0})

\* What a kind of file can be asked for.
Supports(kind, what) ==
  \/ what \in {"read", "close"}
  \/ what = "write" /\ kind # "file"
  \/ what = "lseek" /\ kind = "file"

\* A request that the code follows through memory that is not the file's.
Meaningless(file, what) ==
  /\ Supports(file.kind, what)
  /\ \/ ~ file.usable
     \/ what = "close" /\ file.kind = "stdio"
     \/ what = "read" /\ file.at \notin 0 .. Len(file.contents)

\* The file after a request, what the request delivers, and what it returns.
\* A read of the console is always empty; a pipe's close returns no result.
Answer(file, what, arg) ==
  LET n == Least(arg, Len(file.contents) - file.at)
      m == Least(Len(arg), Capacity - Len(file.contents))
  IN CASE what = "read" /\ file.kind = "file" ->
            [file |-> [file EXCEPT !.at = @ + n], ret |-> {n}]
       [] what = "read" /\ file.kind # "file" ->
            [file |-> [file EXCEPT !.contents = SubSeq(@, n + 1, Len(@))], ret |-> {n}]
       [] what = "write" /\ file.kind = "pipe" ->
            [file |-> [file EXCEPT !.contents = @ \o SubSeq(arg, 1, m)], ret |-> {m}]
       [] what = "write" /\ file.kind = "stdio" ->
            [file |-> file, ret |-> {Len(arg)}]
       [] what = "lseek" -> [file |-> [file EXCEPT !.at = arg], ret |-> {arg}]
       [] what = "close" ->
            [file |-> [file EXCEPT !.usable = FALSE, !.contents = <<>>, !.at = 0],
             ret |-> IF file.kind = "pipe" THEN {0, -1} ELSE {0}]

Request(p, fd, what, arg) ==
  /\ call' = <<what, p, fd, arg>>
  /\ fd \in Fds
  /\ table[p][fd] # 0
  /\ LET file == files[table[p][fd]]
         answer == Answer(file, what, arg)
     IN /\ Supports(file.kind, what)
        /\ ~ Meaningless(file, what)
        /\ files' = [files EXCEPT ![table[p][fd]] = answer.file]
        /\ ret' \in answer.ret
        /\ IF what = "read" THEN got' = SubSeq(file.contents, file.at + 1, file.at + ret')
                            ELSE UNCHANGED got
  /\ UNCHANGED <<ok, procs, table>>

\* A descriptor of nothing, or a request that the file does not support.
Refused(p, fd, what, arg) ==
  /\ call' = <<what, p, fd, arg>>
  /\ fd \in Fds
  /\ table[p][fd] # 0 => ~ Supports(files[table[p][fd]].kind, what)
  /\ ret' = -1
  /\ UNCHANGED <<ok, procs, table, files, got>>

Undefined(p, fd, what, arg) ==
  /\ call' = <<what, p, fd, arg>>
  /\ \/ fd \notin Fds
     \/ table[p][fd] # 0 /\ Meaningless(files[table[p][fd]], what)
  /\ ok' = FALSE
  /\ UNCHANGED <<procs, table, files, got, ret>>

OpensNothing(p, path) ==
  /\ call' = <<"open", p, path>>
  /\ ~ Openable(path)
  /\ ok' = FALSE
  /\ UNCHANGED <<procs, table, files, got, ret>>

Next ==
  /\ ok
  /\ \E p \in procs :
       \/ \E path \in Paths : Open(p, path) \/ OpensNothing(p, path)
       \/ \E q \in Procs : Fork(p, q)
       \/ \E fd \in Descriptors, r \in Requests :
            \/ Request(p, fd, r[1], r[2])
            \/ Refused(p, fd, r[1], r[2])
            \/ Undefined(p, fd, r[1], r[2])

Spec == Init /\ [][Next]_vars
=============================================================================
