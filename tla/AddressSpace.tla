---------------------------- MODULE AddressSpace ----------------------------
(***************************************************************************)
(* What modify_chunk_mapping promises: an address space is a function from *)
(* virtual pages; a request maps its pages in turn, each to the frame and  *)
(* with the flags asked for, and changes no other page.  When no memory is *)
(* left for the tables a request may stop half way.                        *)
(***************************************************************************)
EXTENDS Naturals

CONSTANTS
  Virtual,  \* the pages of the address space
  Chunks,   \* what may be asked for
  Absent,   \* the translation of a page that is not mapped
  Nothing   \* no request

VARIABLES
  map,   \* the translation of each page
  todo   \* the request in hand and how many of its pages are mapped

Request ==
  /\ todo = Nothing
  /\ \E c \in Chunks : todo' = [chunk |-> c, done |-> 0]
  /\ UNCHANGED map

MapPage ==
  /\ todo # Nothing
  /\ LET c == todo.chunk
     IN /\ map' = [map EXCEPT ![c.virt + todo.done] =
                     [frame |-> c.frame + todo.done, flag |-> c.flag]]
        /\ todo' = IF todo.done + 1 < c.pages
                     THEN [todo EXCEPT !.done = @ + 1]
                     ELSE Nothing

RunOut ==
  /\ todo # Nothing
  /\ todo' = Nothing
  /\ UNCHANGED map

Init == map = [v \in Virtual |-> Absent] /\ todo = Nothing
Next == Request \/ MapPage \/ RunOut
Spec == Init /\ [][Next]_<<map, todo>>
=============================================================================
