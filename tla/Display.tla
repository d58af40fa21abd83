------------------------------ MODULE Display ------------------------------
(***************************************************************************)
(* The pixels behind the cells of the console: how a glyph is found in the *)
(* text of the font (src/display/GlyphBDF.c), how it becomes dots, and     *)
(* where WritePGMData and Scroll_Screen put these in the frame buffer.     *)
(*                                                                         *)
(* A pixel is dark or white; the frame buffer is the set of the offsets    *)
(* of its white pixels, in 32-bit words from its start.                    *)
(***************************************************************************)
EXTENDS Terminal

CONSTANTS
  Height,      \* the rows of a glyph: 16
  Header,      \* the lines of the font before the first glyph: 19
  font_buf,    \* the text of the font, character by character
  Code,        \* a character as a number
  Font         \* what font_buf is the text of

Width == 8     \* the pixels of a row of a glyph: two digits

(***************************************************************************)
(* The text of the font, line by line: after the header, six lines before  *)
(* the rows of each glyph and one behind them, and a last line.  The font  *)
(* has a glyph for each code from 0 on; a row of a glyph is a sequence of  *)
(* digits of four pixels each: two of them, or four in a wide glyph.  Of   *)
(* the lines that are not rows only their number matters.                  *)
(***************************************************************************)
HexDigits == <<"0", "1", "2", "3", "4", "5", "6", "7",
               "8", "9", "A", "B", "C", "D", "E", "F">>

PerGlyph == Height + 7
FontLines == Header + PerGlyph * Len(Font) + 1

DigitsOf(digits) == [j \in 1 .. Len(digits) |-> HexDigits[digits[j] + 1]]

\* Line l, counted from 0.
FontLine(l) ==
  LET glyph == (l - Header) \div PerGlyph
      i == ((l - Header) % PerGlyph) - 5
  IN IF l >= Header /\ glyph < Len(Font) /\ i \in 1 .. Height
       THEN DigitsOf(Font[glyph + 1][i]) \o <<"\n">>
     ELSE <<"words", "\n">>

FontText ==
  LET upto[n \in 0 .. FontLines] ==
        IF n = 0 THEN <<>> ELSE upto[n - 1] \o FontLine(n - 1)
  IN upto[FontLines]

Narrow(ch) == \A i \in 1 .. Height : Len(Font[Code[ch] + 1][i]) = 2

\* The bit of a digit for a pixel, the highest bit to the left.
Bit(digit, k) == (digit \div <<8, 4, 2, 1>>[k + 1]) % 2 = 1

ASSUME DisplayAssumption ==
  /\ Height \in Nat \ {0} /\ Header \in Nat
  /\ Font \in Seq([1 .. Height -> Seq(0 .. 15)])
  /\ font_buf = FontText
  /\ \A ch \in Visible : Code[ch] \in 0 .. Len(Font) - 1
  /\ Narrow(Blank)
  /\ \A i \in 1 .. Height : Font[Code[Blank] + 1][i] = <<0, 0>>

VARIABLE lit  \* the white pixels of the frame buffer

displayVars == <<terminalVars, lit>>
-----------------------------------------------------------------------------
\* The place behind the next newline, and the place behind the n-th one.
NextLine(place) ==
  1 + CHOOSE i \in place .. Len(font_buf) :
        font_buf[i] = "\n" /\ \A j \in place .. i - 1 : font_buf[j] # "\n"

file_seek(place, n) ==
  LET stream[k \in 0 .. n] == IF k = 0 THEN place ELSE NextLine(stream[k - 1])
  IN stream[n]

\* Glyph_BDF->File_offset
FileOffset == <<Header, 7 + Height, 1, 6>>

\* The two characters that are taken for the digits of each row.  The third is
\* passed over, whatever it is.
GetBitmapFromGlyphBDF(glyph) ==
  LET encoding == file_seek(file_seek(1, FileOffset[1] + FileOffset[2] * glyph),
                            FileOffset[3])
      bitmap == file_seek(encoding, FileOffset[4] - FileOffset[3])
  IN [i \in 0 .. Height - 1 |-> [j \in 0 .. 1 |-> font_buf[bitmap + 3 * i + j]]]

\* The digits that light each of four pixels.
Lights ==
  << {"8", "9", "A", "B", "C", "D", "E", "F"}, {"4", "5", "6", "7", "C", "D", "E", "F"},
     {"2", "3", "6", "7", "A", "B", "E", "F"}, {"1", "3", "5", "7", "9", "B", "D", "F"} >>

\* PGM_ASIIC_versionsInit, for every character.
ASIIC_versions ==
  [ch \in Visible |->
    LET bitmap == GetBitmapFromGlyphBDF(Code[ch])
    IN {dot \in (0 .. Height - 1) \X (0 .. Width - 1) :
          bitmap[dot[1]][dot[2] \div 4] \in Lights[(dot[2] % 4) + 1]}]

\* WritePGMData: all pixels of the cell are written, dark or white.
OffsetOf(r, c, i, j) == (r * Height + i) * Width * Max_Column + c * Width + j

WritePGMData(white, r, c, ch) ==
  LET offsets(dots) == {OffsetOf(r, c, dot[1], dot[2]) : dot \in dots}
  IN (white \ offsets((0 .. Height - 1) \X (0 .. Width - 1))) \cup offsets(ASIIC_versions[ch])

\* Scroll_Screen: the pixels move up by the rows of a glyph, and the last ones
\* are cleared.
LineUpM == Width * Max_Column
RowUp == Height * Width * Max_Column

ScrolledUp(white) == {w - RowUp : w \in {v \in white : v >= RowUp}}

\* The turn of the loop of WriteLine that WriteLine(ch) is, in pixels: row' and
\* column' are what it leaves in row and column.
DrawnPixels(ch) ==
  LET below == IF Wraps(ColumnAfter(ch)) THEN RowAfter(ch) + 1 ELSE RowAfter(ch)
      white == IF Scrolls(below) THEN ScrolledUp(lit) ELSE lit
  IN IF ch \in Visible THEN WritePGMData(white, row', column' - 1, ch) ELSE white
-----------------------------------------------------------------------------
\* FrameBufferClear draws the blank into every cell.
FrameBufferClear ==
  {OffsetOf(cell[1], cell[2], dot[1], dot[2]) : cell \in Cells, dot \in ASIIC_versions[Blank]}

DisplayedInit == TerminalInit /\ lit = FrameBufferClear

DisplayedNext ==
  \/ PrintFirst /\ lit' = DrawnPixels(Head(string))
  \/ /\ \/ \E data \in Data : Write(data)
        \/ \E size \in Sizes : Read(size)
        \/ stdio_write
        \/ PrintEnds
     /\ UNCHANGED lit

DisplayedSpec == DisplayedInit /\ [][DisplayedNext]_displayVars
-----------------------------------------------------------------------------
(***************************************************************************)
(* Properties.  LineUpM is a mistaken form of RowUp.                       *)
(***************************************************************************)
Shows(ch, i, j) == Bit(Font[Code[ch] + 1][i + 1][(j \div 4) + 1], j % 4)

Shape ==
  [ch \in Visible |->
    {dot \in (0 .. Height - 1) \X (0 .. Width - 1) : Shows(ch, dot[1], dot[2])}]

NarrowOnes == {ch \in Visible : Narrow(ch)}

\* The screen shows in each cell the glyph that the font has for the character
\* in it, dot by dot, unless it is one of the wide ones, of which GlyphBDF.c
\* reads the wrong digits; no pixel behind the end of the screen is written,
\* and what is drawn in one cell never shows in another.
GlyphsShown ==
  /\ \A ch \in NarrowOnes : ASIIC_versions[ch] = Shape[ch]
  /\ lit \subseteq 0 .. Max_Row * Height * Max_Column * Width - 1
  /\ LET narrow == {cell \in Cells : frame_buffer[cell] \in NarrowOnes}
         PixelRow(w) == w \div (Max_Column * Width)
         CellOf(w) == <<PixelRow(w) \div Height, (w % (Max_Column * Width)) \div Width>>
     IN {w \in lit : CellOf(w) \in narrow} =
          UNION {{((cell[1] * Height + dot[1]) * Max_Column + cell[2]) * Width + dot[2] :
                    dot \in Shape[frame_buffer[cell]]} : cell \in narrow}
=============================================================================
