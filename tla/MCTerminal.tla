----------------------------- MODULE MCTerminal -----------------------------
(***************************************************************************)
(* Display, and with it Terminal, Pipe and Console, for TLC: a pipe of     *)
(* two bytes and writes that wrap around its end, fill it and are cut      *)
(* short; three rows, so that one is neither the first nor the last, of    *)
(* two cells, with a tab stop behind the right edge; a font with a wide    *)
(* glyph, and with all digits in the narrow ones.                          *)
(***************************************************************************)
EXTENDS Display, TLC

CONSTANTS space, ca, cb, cc, cd, wide, nul

MCBytes == {ca, wide, "\n", "\t", nul}
MCData  == {<<ca>>, <<wide, "\t">>, <<"\n", nul, ca>>}

MCCode == space :> 1 @@ ca :> 3 @@ cb :> 4 @@ cc :> 0 @@ cd :> 5 @@ wide :> 2
MCFont ==
  << << <<10, 12>>, <<8, 9>> >>,
     << <<0, 0>>, <<0, 0>> >>,
     << <<8, 0, 0, 1>>, <<3, 9, 12, 2>> >>,
     << <<1, 11>>, <<6, 4>> >>,
     << <<2, 3>>, <<5, 7>> >>,
     << <<13, 14>>, <<15, 0>> >> >>

MCText == FontText
=============================================================================
