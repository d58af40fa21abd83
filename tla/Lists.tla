------------------------------- MODULE Lists -------------------------------
(***************************************************************************)
(* The circular doubly linked lists of src/include/list.h and the queue of *)
(* src/lib/queue.c, at the level of their pointers.                        *)
(*                                                                         *)
(* A cell is a list_head_t; list_entry, which finds the structure that     *)
(* embeds a cell, is the identity: a structure stands for its cell.  The   *)
(* pointers of all cells are one function "link".                          *)
(***************************************************************************)
EXTENDS Integers

list_init(link, cell) == [link EXCEPT ![cell] = [next |-> cell, prev |-> cell]]

\* __list_add: four stores, in this order, of which one may hide another when
\* the new cell is already in the list.
list_add(link, before, after, new) ==
  [link EXCEPT ![new].prev = before,
               ![before].next = new,
               ![new].next = after,
               ![after].prev = new]

\* The new cell becomes the last of the list of this head.
list_add_before(link, head, new) == list_add(link, link[head].prev, head, new)

\* The neighbours of the cell close up; its own pointers are left as they are.
list_del(link, cell) ==
  [link EXCEPT ![link[cell].prev].next = link[cell].next,
               ![link[cell].next].prev = link[cell].prev]
-----------------------------------------------------------------------------
(***************************************************************************)
(* A queue is a record: its pointers, the content of each node (none, when *)
(* the node is not allocated) and its length, which is kept beside the     *)
(* pointers and alone tells whether the queue is empty.  Dequeueing frees  *)
(* the node; the model forgets what is left in a freed node.               *)
(***************************************************************************)
queue_enqueue(queue, head, node, what) ==
  [link |-> list_add_before(list_init(queue.link, node), head, node),
   content |-> [queue.content EXCEPT ![node] = what],
   length |-> queue.length + 1]

Freed(queue, node, nothing) ==
  [link |-> [list_del(queue.link, node)
               EXCEPT ![node] = [next |-> nothing, prev |-> nothing]],
   content |-> [queue.content EXCEPT ![node] = nothing],
   length |-> queue.length - 1]

\* The node that queue_dequeue takes out.
FirstNode(queue, head) == queue.link[head].next
=============================================================================
