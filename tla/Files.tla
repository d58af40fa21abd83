------------------------------- MODULE Files -------------------------------
(***************************************************************************)
(* Open files: the tree of file nodes with the functions hooked to them    *)
(* (src/fs/fs.c), the contexts that an open allocates, the descriptor      *)
(* tables of processes (src/proc/proc.c) and the system calls on           *)
(* descriptors (src/syscall/).  A call runs with interrupts off, so it is  *)
(* one action; processes interleave between calls.                         *)
(*                                                                         *)
(* A context points to what the node's open allocates: a pipe, or a file   *)
(* with the copy of its contents.  The object of a context here is the     *)
(* pipe, or the copy.  Close frees the pipe, or the file but not its copy, *)
(* and keeps the context, which every process that inherited it still has. *)
(* What a call does with what is freed, or through NULL, depends on what   *)
(* the heap or the first page of the process holds: the model then stops.  *)
(***************************************************************************)
EXTENDS Integers, Sequences, SequencesExt, FiniteSetsExt

CONSTANTS
  Procs, FirstProc,  \* proc_t structures; the process that main starts
  TableSize,         \* FD_TABLE_SIZE
  Descriptors,       \* what programs pass as a descriptor
  Contexts,          \* how many fs_context structures the heap has room for
  Addresses,         \* where the heap has room for an object
  Paths,             \* sequences of names
  Disk,              \* what the FAT search finds: a function from paths to bytes
  Directories,       \* the paths of directories on the volume
  PipeSize,          \* PIPE_BUFFER_SIZE
  Data, Sizes,       \* what is written, how much is read
  Offsets            \* what fat_lseek arrives at, in front of the file too

NULL == 0
Fds == 0 .. TableSize - 1

\* What can be in a file or a pipe.
Bytes == UNION {Range(data) : data \in Data \cup Range(Disk)}

\* A name in a path, being between two slashes, has none in it.  A file of the
\* volume is in a directory of the volume.
ASSUME FilesAssumption ==
  /\ FirstProc \in Procs
  /\ TableSize \in Nat \ {0} /\ Contexts \in Nat /\ PipeSize \in Nat
  /\ NULL \notin Addresses
  /\ Sizes \subseteq Nat /\ Offsets \subseteq Int
  /\ Data \subseteq Seq(Bytes) /\ Range(Disk) \subseteq Seq(Bytes)
  /\ \A path \in Paths : path \in Seq(STRING) /\ "/" \notin Range(path)
  /\ \A path \in DOMAIN Disk : Len(path) > 1 => Front(path) \in Directories

VARIABLES
  call,      \* the last system call
  running,   \* FALSE when an assertion has halted the machine, or a call has
             \* used memory of which no model says what it holds
  nodes,     \* the tree: a sequence of nodes, the root first
  procs,
  fd_table,  \* of each process: numbers of contexts, or NULL
  contexts,  \* the fs_context structures; none is ever freed
  freed,     \* the contexts that are closed: their pipe or file is freed
  used,      \* where there is an object
  memory,    \* the objects: the bytes of a pipe or file, the file's offset
  got,       \* the bytes that the last read has stored for its caller
  ret        \* what the last call returned

heap == <<freed, used, memory>>
vars == <<nodes, call, running, procs, fd_table, contexts, heap, got, ret>>
-----------------------------------------------------------------------------
(***************************************************************************)
(* The tree, which fs_init builds and nothing changes.                     *)
(***************************************************************************)
HookNames == {"open", "close", "read", "write", "lseek", "ioctl", "fstat"}
Names == {"/", "stdio", "disk", "pipe"}
Types == {"root", "special", "mount point"}
Functions == {"none", "stdio_open", "stdio_close", "stdio_read", "stdio_write",
              "fat_open", "fat_close", "fat_read", "fat_lseek",
              "pipe_open", "pipe_close", "pipe_read", "pipe_write"}

Node(name, type) ==
  [name |-> name, type |-> type, children |-> <<>>,
   hook |-> [h \in HookNames |-> "none"]]

Root == 1
NoNode == 0

\* One component of a path: the first child of that name, or else the node
\* itself if the name is its own.
Below(tree, node, name) ==
  LET child == SelectInSeq(tree[node].children, LAMBDA c : tree[c].name = name)
  IN IF child # 0 THEN tree[node].children[child]
     ELSE IF tree[node].name = name THEN node ELSE NoNode

\* find_node: where a component is not found the walk ends, at a mount point
\* with the mount point.
FindNode(tree, path) ==
  LET at[i \in 0 .. Len(path)] ==
        IF i = 0 THEN Root
        ELSE IF at[i - 1] = NoNode THEN NoNode ELSE Below(tree, at[i - 1], path[i])
      misses == {i \in DOMAIN at : at[i] = NoNode}
  IN IF misses = {} THEN at[Len(path)]
     ELSE LET last == at[Min(misses) - 1]
          IN IF tree[last].type = "mount point" THEN last ELSE NoNode

Mknode(tree, path, type) ==
  LET parent == FindNode(tree, Front(path)) IN
  IF parent = NoNode THEN tree
  ELSE Append([tree EXCEPT ![parent].children = Append(@, Len(tree) + 1)],
              Node(Last(path), type))

Reghook(tree, path, h, function) ==
  LET target == FindNode(tree, path) IN
  IF target = NoNode THEN tree ELSE [tree EXCEPT ![target].hook[h] = function]

Hooked(tree, path, hooks) ==
  LET done[i \in 0 .. Len(hooks)] ==
        IF i = 0 THEN tree
        ELSE Reghook(done[i - 1], path, hooks[i][1], hooks[i][2])
  IN done[Len(hooks)]

stdio_mknode(tree, path) ==
  Hooked(Mknode(tree, path, "special"), path,
         << <<"open", "stdio_open">>, <<"close", "stdio_close">>,
            <<"read", "stdio_read">>, <<"write", "stdio_write">> >>)

fat_mknode(tree, path) ==
  Hooked(Mknode(tree, path, "mount point"), path,
         << <<"open", "fat_open">>, <<"close", "fat_close">>,
            <<"read", "fat_read">>, <<"lseek", "fat_lseek">> >>)

pipe_mknode(tree, path) ==
  Hooked(Mknode(tree, path, "special"), path,
         << <<"open", "pipe_open">>, <<"close", "pipe_close">>,
            <<"read", "pipe_read">>, <<"write", "pipe_write">> >>)

fs_init ==
  pipe_mknode(fat_mknode(stdio_mknode(<<Node("/", "root")>>,
                                      <<"stdio">>), <<"disk">>), <<"pipe">>)

Init ==
  /\ nodes = fs_init
  /\ call = <<>>
  /\ running = TRUE
  /\ procs = {FirstProc}
  /\ fd_table = [p \in Procs |-> [fd \in Fds |-> NULL]]
  /\ contexts = <<>>
  /\ freed = {}
  /\ used = {}
  /\ memory = [a \in Addresses |-> [bytes |-> <<>>, offset |-> 0]]
  /\ got = <<>>
  /\ ret = 0
-----------------------------------------------------------------------------
\* An assertion halts the machine, or the call goes where no model follows.
Astray ==
  /\ running' = FALSE
  /\ UNCHANGED <<procs, fd_table, contexts, heap, got, ret>>

Minus1 ==
  /\ ret' = -1
  /\ UNCHANGED <<running, procs, fd_table, contexts, heap, got>>

\* fd_alloc: the first entry that is NULL.
UnusedM(p) == {fd \in 0 .. TableSize : fd \in Fds => fd_table[p][fd] = NULL}
Unused(p) == {fd \in Fds : fd_table[p][fd] = NULL}

Entered(table, fd, context) ==
  [e \in Fds \cup {fd} |-> IF e = fd THEN context ELSE table[e]]

fd_alloc(p, context) ==
  IF Unused(p) = {}
    THEN ret' = -1 /\ UNCHANGED fd_table
    ELSE /\ ret' = Min(Unused(p))
         /\ fd_table' = [fd_table EXCEPT ![p] = Entered(@, Min(Unused(p)), context)]

\* The end of fs_open, and sys_open: the context is lost if the table is full.
Gives(p, node, object) ==
  /\ contexts' = Append(contexts, [node |-> node, object |-> object])
  /\ fd_alloc(p, Len(contexts) + 1)
  /\ UNCHANGED <<running, procs, freed, got>>

\* malloc returns memory that may have been another object's, and clears it.
ClearedM(bytes, a) ==
  [bytes |-> IF bytes = <<>> THEN memory[a].bytes ELSE bytes, offset |-> 0]
Cleared(bytes, a) == [bytes |-> bytes, offset |-> 0]

Allocate(a, bytes) ==
  /\ a \notin used
  /\ used' = used \cup {a}
  /\ memory' = [memory EXCEPT ![a] = Cleared(bytes, a)]

\* What is written to stdio goes to the console, and there is nothing to read.
stdio_open(p, node) == Gives(p, node, NULL) /\ UNCHANGED <<used, memory>>

\* fat_open searches the volume for what follows the node's name in the path.
RealPath(node, path) ==
  SubSeq(path, SelectInSeq(path, LAMBDA name : name = nodes[node].name) + 1, Len(path))

\* A search in a directory that is missing writes through NULL; one that finds
\* no file makes fat_open return NULL, which sys_open does not notice.
fat_open(p, node, path) ==
  LET real_path == RealPath(node, path) IN
  \/ /\ Len(real_path) > 1 /\ Front(real_path) \notin Directories
     /\ Astray
  \/ /\ Len(real_path) <= 1 \/ Front(real_path) \in Directories
     /\ real_path \notin DOMAIN Disk
     /\ Gives(p, node, NULL)
     /\ UNCHANGED <<used, memory>>
  \/ /\ real_path \in DOMAIN Disk
     /\ \E a \in Addresses : Allocate(a, Disk[real_path]) /\ Gives(p, node, a)

\* When find_node fails, or finds the root, fs_open calls what lies at NULL.
sys_open(p, path) ==
  LET node == FindNode(nodes, path)
      open == IF node = NoNode THEN "none" ELSE nodes[node].hook["open"]
  IN /\ call' = <<"open", p, path>>
     /\ Len(contexts) < Contexts
     /\ \/ open = "none" /\ Astray
        \/ open = "stdio_open" /\ stdio_open(p, node)
        \/ open = "fat_open" /\ fat_open(p, node, path)
        \/ /\ open = "pipe_open"
           /\ \E a \in Addresses : Allocate(a, <<>>) /\ Gives(p, node, a)

\* fork, as far as descriptors go: proc_init copies the parent's table.
Inherited(p) == fd_table[p]

Fork(p, q) ==
  /\ call' = <<"fork", p, q>>
  /\ q \in Procs \ procs
  /\ procs' = procs \cup {q}
  /\ fd_table' = [fd_table EXCEPT ![q] = Inherited(p)]
  /\ ret' = 0
  /\ UNCHANGED <<running, contexts, heap, got>>
-----------------------------------------------------------------------------
\* Every other call goes by the descriptor to a context and by its node to a
\* hook.  get_fd_ptr asserts that the descriptor is in range.
Hook(c, what) == nodes[contexts[c].node].hook[what]
Object(c) == contexts[c].object

\* Whether a context has its object still, as the hooks of pipes and files assume.
HasObject(c) == Object(c) # NULL /\ c \notin freed

Stores(bytes) ==
  /\ got' = bytes
  /\ ret' = Len(bytes)
  /\ UNCHANGED <<running, procs, fd_table, contexts, freed, used>>

stdio_read == Stores(<<>>) /\ UNCHANGED memory

fs_read(c, size) ==
  LET o == Object(c)
      bytes == memory[o].bytes
      n == Min({size, Len(bytes)})
      end == Min({memory[o].offset + size, Len(bytes)})
  IN \/ /\ Hook(c, "read") = "stdio_read"
        /\ stdio_read
     \/ /\ Hook(c, "read") = "pipe_read" /\ HasObject(c)
        /\ Stores(SubSeq(bytes, 1, n))
        /\ memory' = [memory EXCEPT ![o].bytes = SubSeq(@, n + 1, Len(@))]
     \/ /\ Hook(c, "read") = "fat_read" /\ HasObject(c)
        /\ memory[o].offset \in 0 .. Len(bytes)
        /\ Stores(SubSeq(bytes, memory[o].offset + 1, end))
        /\ memory' = [memory EXCEPT ![o].offset = end]
     \/ /\ Hook(c, "read") # "stdio_read"
        /\ HasObject(c) => /\ Hook(c, "read") = "fat_read"
                           /\ memory[o].offset \notin 0 .. Len(bytes)
        /\ Astray

stdio_write(data) ==
  /\ ret' = Len(data)
  /\ UNCHANGED <<running, procs, fd_table, contexts, heap, got>>

fs_write(c, data) ==
  LET o == Object(c)
      n == Min({Len(data), PipeSize - Len(memory[o].bytes)})
  IN \/ Hook(c, "write") = "none" /\ Minus1
     \/ /\ Hook(c, "write") = "stdio_write"
        /\ stdio_write(data)
     \/ /\ Hook(c, "write") = "pipe_write" /\ HasObject(c)
        /\ memory' = [memory EXCEPT ![o].bytes = @ \o SubSeq(data, 1, n)]
        /\ ret' = n
        /\ UNCHANGED <<running, procs, fd_table, contexts, freed, used, got>>
     \/ Hook(c, "write") = "pipe_write" /\ ~ HasObject(c) /\ Astray

fs_lseek(c, offset) ==
  \/ Hook(c, "lseek") = "none" /\ Minus1
  \/ /\ Hook(c, "lseek") = "fat_lseek" /\ HasObject(c)
     /\ memory' = [memory EXCEPT ![Object(c)].offset = offset]
     /\ ret' = offset
     /\ UNCHANGED <<running, procs, fd_table, contexts, freed, used, got>>
  \/ Hook(c, "lseek") = "fat_lseek" /\ ~ HasObject(c) /\ Astray

\* pipe_close frees the pipe, and has no return statement.  fat_close frees the
\* file and leaves its copy where it is.  fs_close frees the pipe or the file
\* again, of which the heap takes no notice but to report it; stdio has neither,
\* and freeing NULL reads in front of address 0.
ReleasedM(c) == {}
Released(c) == IF Hook(c, "close") = "fat_close" THEN {} ELSE {Object(c)}

fs_close(c) ==
  \/ /\ HasObject(c)
     /\ used' = used \ Released(c)
     /\ freed' = freed \cup {c}
     /\ ret' \in IF Hook(c, "close") = "pipe_close" THEN {0, -1} ELSE {0}
     /\ UNCHANGED <<running, procs, fd_table, contexts, memory, got>>
  \/ ~ HasObject(c) /\ Astray

\* No node has an ioctl or fstat hook.
fs_status(c, what) == Hook(c, what) = "none" /\ Minus1

\* What get_fd_ptr finds, and the two ways a call ends without a context.
get_fd_ptr(p, fd) == fd_table[p][fd]
IsOpen(p, fd) == fd \in Fds /\ get_fd_ptr(p, fd) # NULL

Unopened(p, fd) ==
  \/ fd \notin Fds /\ Astray
  \/ fd \in Fds /\ get_fd_ptr(p, fd) = NULL /\ Minus1

sys_read(p, fd, size) ==
  /\ call' = <<"read", p, fd, size>>
  /\ \/ Unopened(p, fd)
     \/ IsOpen(p, fd) /\ fs_read(get_fd_ptr(p, fd), size)

sys_write(p, fd, data) ==
  /\ call' = <<"write", p, fd, data>>
  /\ \/ Unopened(p, fd)
     \/ IsOpen(p, fd) /\ fs_write(get_fd_ptr(p, fd), data)

sys_lseek(p, fd, offset) ==
  /\ call' = <<"lseek", p, fd, offset>>
  /\ \/ Unopened(p, fd)
     \/ IsOpen(p, fd) /\ fs_lseek(get_fd_ptr(p, fd), offset)

\* With a whence that fat_lseek does not know, and where there is no fat_lseek.
sys_lseek_astray(p, fd) ==
  /\ call' = <<"whence", p, fd, 0>>
  /\ Unopened(p, fd) \/ (IsOpen(p, fd) /\ Minus1)

sys_close(p, fd) ==
  /\ call' = <<"close", p, fd, 0>>
  /\ \/ Unopened(p, fd)
     \/ IsOpen(p, fd) /\ fs_close(get_fd_ptr(p, fd))

sys_ioctl(p, fd) ==
  /\ call' = <<"ioctl", p, fd, 0>>
  /\ \/ Unopened(p, fd)
     \/ IsOpen(p, fd) /\ fs_status(get_fd_ptr(p, fd), "ioctl")

sys_fstat(p, fd) ==
  /\ call' = <<"fstat", p, fd, 0>>
  /\ \/ Unopened(p, fd)
     \/ IsOpen(p, fd) /\ fs_status(get_fd_ptr(p, fd), "fstat")

Stopped == ~ running /\ UNCHANGED vars

Step(p) ==
  \/ \E path \in Paths : sys_open(p, path)
  \/ \E q \in Procs : Fork(p, q)
  \/ \E fd \in Descriptors :
       \/ \E size \in Sizes : sys_read(p, fd, size)
       \/ \E data \in Data : sys_write(p, fd, data)
       \/ \E offset \in Offsets : sys_lseek(p, fd, offset)
       \/ \/ sys_lseek_astray(p, fd)
       \/ sys_close(p, fd) \/ sys_ioctl(p, fd) \/ sys_fstat(p, fd)

Next ==
  \/ /\ running
     /\ \E p \in procs : Step(p)
     /\ UNCHANGED nodes
  \/ Stopped

Spec == Init /\ [][Next]_vars
-----------------------------------------------------------------------------
(***************************************************************************)
(* Properties.  An operator above whose name ends in M is a mistaken form  *)
(* of the one after it, which the properties must tell from it.            *)
(***************************************************************************)

\* Every variable has its type: fd_alloc never writes behind a table, and a
\* table holds only contexts that fs_open has returned.
TypeOK ==
  /\ running \in BOOLEAN
  /\ nodes \in Seq([name : Names, type : Types, children : Seq(DOMAIN nodes),
                   hook : [HookNames -> Functions]])
  /\ FirstProc \in procs /\ procs \subseteq Procs
  /\ fd_table \in [Procs -> [Fds -> {NULL} \cup DOMAIN contexts]]
  /\ contexts \in Seq([node : DOMAIN nodes, object : Addresses \cup {NULL}])
  /\ freed \subseteq DOMAIN contexts
  /\ used \subseteq Addresses
  /\ memory \in [Addresses -> [bytes : Seq(Bytes), offset : Int]]

\* The copies of files that are closed, which no call will ever use or free.
LeftBehind == {Object(c) : c \in {d \in freed : Hook(d, "open") = "fat_open"}}

\* Open and close, in whatever order and by whichever process, give no object to
\* two contexts, and of the closed ones nothing is on the heap but the copies of
\* files: every other object has exactly one context, which is not closed, and a
\* copy left behind has none and is never given again.
Owned ==
  /\ LeftBehind \subseteq used
  /\ \A a \in Addresses :
       LET owners == {c \in DOMAIN contexts : Object(c) = a /\ c \notin freed}
       IN IF a \in used \ LeftBehind THEN \E c \in DOMAIN contexts : owners = {c}
                                     ELSE owners = {}

\* The open file that a context stands for.
File(c) ==
  [kind |-> IF nodes[contexts[c].node].name = "disk" THEN "file"
            ELSE nodes[contexts[c].node].name,
   usable |-> HasObject(c) \/ Hook(c, "open") = "stdio_open",
   contents |-> IF HasObject(c) THEN memory[Object(c)].bytes ELSE <<>>,
   at |-> IF HasObject(c) THEN memory[Object(c)].offset ELSE 0]

\* The nodes, contexts and objects implement open files: a call on a descriptor
\* changes the file that this process, or the one it inherited the descriptor
\* from, has opened under it, and no other file, though their memory is reused.
Abstract == INSTANCE OpenFiles WITH
  MaxOpens <- Contexts, Capacity <- PipeSize, ok <- running, table <- fd_table,
  files <- [c \in DOMAIN contexts |-> File(c)]

ImplementsOpenFiles == Abstract!Spec
=============================================================================
