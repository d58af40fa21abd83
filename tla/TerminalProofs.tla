--------------------------- MODULE TerminalProofs ---------------------------
(***************************************************************************)
(* Proofs about the pipe, about the console, about the terminal that the   *)
(* two make together, and about the pixels on its screen: for pipes,       *)
(* screens, tabs and fonts of any size.                                    *)
(***************************************************************************)
EXTENDS Display, SequenceTheorems, NaturalsInduction, WellFoundedInduction, TLAPS

(***************************************************************************)
(* Part 1, the pipe: the offsets stay inside and agree with the count, and *)
(* what goes in comes out in order.  The induction needs only TypeOK and   *)
(* OffsetsAgree together: the place of a byte is its distance from the     *)
(* write offset for the writer, from the read offset for the reader.       *)
(***************************************************************************)
IInv == TypeOK /\ OffsetsAgree
-----------------------------------------------------------------------------
\* A call transfers no more than there is, or room for.
LEMMA AmountFacts ==
  ASSUME TypeOK, NEW size \in Nat
  PROVE  /\ Writable(size) \in Nat /\ Writable(size) <= size
         /\ length + Writable(size) <= BufferSize
         /\ Readable(size) \in Nat /\ Readable(size) <= length
         /\ BufferSize \in Nat /\ BufferSize > 0 /\ length \in Nat
BY PipeAssumption DEF TypeOK, Writable, Readable

\* An offset moved by at most the buffer size is an offset.
LEMMA MovedFacts ==
  ASSUME NEW o \in Offsets, NEW n \in 0 .. BufferSize
  PROVE  Moved(o, n) \in Offsets
BY PipeAssumption DEF Offsets, Moved

LEMMA InitInv == Init => IInv
<1> SUFFICES ASSUME Init PROVE IInv
  OBVIOUS
<1>1. TypeOK
  BY PipeAssumption DEF Init, TypeOK, Offsets
<1>2. OffsetsAgree
  BY PipeAssumption DEF Init, OffsetsAgree, Moved
<1> QED
  BY <1>1, <1>2 DEF IInv

LEMMA WriteInv ==
  ASSUME IInv, NEW data \in Data, pipe_write(data)
  PROVE  IInv'
<1>1. PICK n : n = Writable(Len(data))
  OBVIOUS
<1>2. /\ buf' = Filled(data, n)
      /\ length' = length + n
      /\ write_offset' = Moved(write_offset, n)
      /\ ret' = n
      /\ UNCHANGED <<read_offset, got>>
  BY <1>1 DEF pipe_write
<1>3. data \in Seq(Bytes) /\ Len(data) \in Nat
  BY PipeAssumption
<1>4. /\ n \in Nat /\ n <= Len(data) /\ length + n <= BufferSize
      /\ BufferSize \in Nat /\ BufferSize > 0 /\ length \in Nat
  BY <1>1, <1>3, AmountFacts DEF IInv
<1>5. buf' \in [Offsets -> Bytes]
  <2> SUFFICES ASSUME NEW k \in Offsets
               PROVE  Filled(data, n)[k] \in Bytes
    BY <1>2 DEF Filled
  <2> DEFINE i == IF k >= write_offset THEN k - write_offset
                                       ELSE k - write_offset + BufferSize
  <2>1. i \in Nat
    BY <1>4 DEF IInv, TypeOK, Offsets
  <2>2. Filled(data, n)[k] = IF i < n THEN data[i + 1] ELSE buf[k]
    BY DEF Filled
  <2> HIDE DEF i
  <2>3. i < n => i + 1 \in 1 .. Len(data)
    BY <1>4, <2>1
  <2> QED
    BY <1>3, <2>2, <2>3 DEF IInv, TypeOK
<1>6. TypeOK'
  BY <1>2, <1>4, <1>5, MovedFacts DEF IInv, TypeOK
<1>7. OffsetsAgree'
  BY <1>2, <1>4 DEF IInv, TypeOK, OffsetsAgree, Moved, Offsets
<1> QED
  BY <1>6, <1>7 DEF IInv

LEMMA ReadInv ==
  ASSUME IInv, NEW size \in Sizes, pipe_read(size)
  PROVE  IInv'
<1>1. PICK n : n = Readable(size)
  OBVIOUS
<1>2. /\ got' = [i \in 1 .. n |-> buf[Moved(read_offset, i - 1)]]
      /\ length' = length - n
      /\ read_offset' = Moved(read_offset, n)
      /\ ret' = n
      /\ UNCHANGED <<buf, write_offset>>
  BY <1>1 DEF pipe_read
<1>3. /\ n \in Nat /\ n <= length /\ length <= BufferSize
      /\ BufferSize \in Nat /\ BufferSize > 0 /\ length \in Nat
  BY <1>1, PipeAssumption, AmountFacts DEF IInv, TypeOK
<1>4. got' \in Seq(Bytes)
  <2>1. ASSUME NEW i \in 1 .. n
        PROVE  buf[Moved(read_offset, i - 1)] \in Bytes
    <3>1. i - 1 \in 0 .. BufferSize
      BY <1>3
    <3> QED
      BY <3>1, MovedFacts DEF IInv, TypeOK
  <2> QED
    BY <1>2, <1>3, <2>1
<1>5. TypeOK'
  BY <1>2, <1>3, <1>4, MovedFacts DEF IInv, TypeOK
<1>6. OffsetsAgree'
  BY <1>2, <1>3 DEF IInv, TypeOK, OffsetsAgree, Moved, Offsets
<1> QED
  BY <1>5, <1>6 DEF IInv

LEMMA NextInv == ASSUME IInv, [Next]_vars PROVE IInv'
<1>1. CASE UNCHANGED vars
  BY <1>1 DEF vars, IInv, TypeOK, OffsetsAgree
<1> QED
  BY <1>1, WriteInv, ReadInv DEF Next

LEMMA Invariance == Spec => []IInv
BY InitInv, NextInv, PTL DEF Spec

\* No offset ever leaves the buffer, whatever its size.
THEOREM TypeCorrect == Spec => []TypeOK
<1>1. IInv => TypeOK
  BY DEF IInv
<1> QED
  BY Invariance, <1>1, PTL

\* The offsets and the count, updated separately, always agree.
THEOREM OffsetsCorrect == Spec => []OffsetsAgree
<1>1. IInv => OffsetsAgree
  BY DEF IInv
<1> QED
  BY Invariance, <1>1, PTL
-----------------------------------------------------------------------------
\* What a buffer b holds in n bytes from an offset on is a sequence of n bytes.
Ring(b, o, n) == [i \in 1 .. n |-> b[Moved(o, i - 1)]]

LEMMA RingFacts ==
  ASSUME NEW b \in [Offsets -> Bytes], NEW o \in Offsets,
         NEW n \in 0 .. BufferSize
  PROVE  /\ Ring(b, o, n) \in Seq(Bytes)
         /\ Len(Ring(b, o, n)) = n
         /\ \A i \in 1 .. n : Ring(b, o, n)[i] = b[Moved(o, i - 1)]
<1>1. n \in Nat /\ n <= BufferSize /\ BufferSize \in Nat
  BY PipeAssumption
<1>2. ASSUME NEW i \in 1 .. n
      PROVE  b[Moved(o, i - 1)] \in Bytes
  <2>1. i - 1 \in 0 .. BufferSize
    BY <1>1
  <2> QED
    BY <2>1, MovedFacts
<1>3. Ring(b, o, n) \in [1 .. n -> Bytes]
  BY <1>2 DEF Ring
<1>4. Ring(b, o, n) \in Seq(Bytes) /\ Len(Ring(b, o, n)) = n
  BY <1>1, <1>3
<1> QED
  BY <1>4 DEF Ring

LEMMA ContentsFacts ==
  ASSUME IInv
  PROVE  /\ Contents \in Seq(Bytes)
         /\ Len(Contents) = length
         /\ length \in Nat
         /\ \A i \in 1 .. length : Contents[i] = buf[Moved(read_offset, i - 1)]
<1>1. Contents = Ring(buf, read_offset, length)
  BY DEF Contents, Ring
<1>2. length \in Nat /\ length \in 0 .. BufferSize
      /\ buf \in [Offsets -> Bytes] /\ read_offset \in Offsets
  BY PipeAssumption DEF IInv, TypeOK
<1> QED
  BY <1>1, <1>2, RingFacts

LEMMA PrimedContents ==
  ASSUME IInv'
  PROVE  /\ Contents' \in Seq(Bytes)
         /\ Len(Contents') = length'
         /\ \A i \in 1 .. length' : Contents'[i] = buf'[Moved(read_offset', i - 1)]
<1>1. Contents' = Ring(buf', read_offset', length')
  BY DEF Contents, Ring, Moved
<1>2. length' \in 0 .. BufferSize /\ buf' \in [Offsets -> Bytes]
        /\ read_offset' \in Offsets
  BY DEF IInv, TypeOK, Offsets
<1> QED
  BY <1>1, <1>2, RingFacts

LEMMA ConcatFacts ==
  ASSUME NEW S, NEW s \in Seq(S), NEW t \in Seq(S)
  PROVE  /\ s \o t \in Seq(S)
         /\ Len(s \o t) = Len(s) + Len(t)
         /\ \A i \in 1 .. Len(s) + Len(t) :
              (s \o t)[i] = IF i <= Len(s) THEN s[i] ELSE t[i - Len(s)]
OBVIOUS

LEMMA SameSequence ==
  ASSUME NEW S, NEW s \in Seq(S), NEW t \in Seq(S), Len(s) = Len(t),
         \A i \in 1 .. Len(s) : s[i] = t[i]
  PROVE  s = t
OBVIOUS

\* A write appends to the contents: the old bytes are out of its reach, and
\* the new ones follow them around the ring.
LEMMA WriteAppends ==
  ASSUME IInv, NEW data \in Data, pipe_write(data)
  PROVE  Fifo!Put(data)
<1>1. PICK n : n = Writable(Len(data))
  OBVIOUS
<1>2. /\ buf' = Filled(data, n)
      /\ length' = length + n
      /\ ret' = n
      /\ read_offset' = read_offset /\ got' = got
  BY <1>1 DEF pipe_write
<1>3. data \in Seq(Bytes) /\ Len(data) \in Nat
  BY PipeAssumption
<1>4. /\ n \in Nat /\ n <= Len(data) /\ length + n <= BufferSize
      /\ BufferSize \in Nat /\ BufferSize > 0 /\ length \in Nat
  BY <1>1, <1>3, AmountFacts DEF IInv
<1>5. n = Fifo!Least(Len(data), BufferSize - Len(Contents))
  BY <1>1, <1>3, <1>4, ContentsFacts DEF Writable, Fifo!Least
<1> DEFINE d == SubSeq(data, 1, n)
<1>6. d \in Seq(Bytes) /\ Len(d) = n /\ \A i \in 1 .. n : d[i] = data[i]
  BY <1>3, <1>4
<1> HIDE DEF d
<1>7. /\ Contents \o d \in Seq(Bytes)
      /\ Len(Contents \o d) = length + n
      /\ \A i \in 1 .. length + n :
           (Contents \o d)[i] = IF i <= length THEN Contents[i] ELSE d[i - length]
  <2>1. Contents \in Seq(Bytes) /\ Len(Contents) = length
    BY ContentsFacts
  <2>2. /\ Contents \o d \in Seq(Bytes)
        /\ Len(Contents \o d) = Len(Contents) + Len(d)
        /\ \A i \in 1 .. Len(Contents) + Len(d) :
             (Contents \o d)[i] = IF i <= Len(Contents) THEN Contents[i]
                                                       ELSE d[i - Len(Contents)]
    BY <1>6, <2>1, ConcatFacts
  <2> QED
    BY <1>6, <2>1, <2>2
<1>8. IInv'
  BY WriteInv
<1>9. /\ Contents' \in Seq(Bytes)
      /\ Len(Contents') = length + n
      /\ \A i \in 1 .. length + n : Contents'[i] = buf'[Moved(read_offset, i - 1)]
  BY <1>2, <1>8, PrimedContents
<1>10. ASSUME NEW i \in 1 .. length + n
       PROVE  Contents'[i] = (Contents \o d)[i]
  <2>1. PICK k : k = Moved(read_offset, i - 1)
    OBVIOUS
  <2>2. k \in Offsets
    <3>1. i - 1 \in 0 .. BufferSize
      BY <1>4
    <3> QED
      BY <2>1, <3>1, MovedFacts DEF IInv, TypeOK
  <2>3. PICK j : j = IF k >= write_offset THEN k - write_offset
                                          ELSE k - write_offset + BufferSize
    OBVIOUS
  <2>4. j = IF i <= length THEN i - 1 - length + BufferSize ELSE i - 1 - length
    BY <1>4, <2>1, <2>2, <2>3 DEF IInv, TypeOK, OffsetsAgree, Moved, Offsets
  <2>5. buf'[k] = IF j < n THEN data[j + 1] ELSE buf[k]
    BY <1>2, <2>2, <2>3 DEF Filled
  <2>6. CASE i <= length
    <3>1. ~ (j < n)
      BY <1>4, <2>4, <2>6
    <3>2. i \in 1 .. length
      BY <1>4, <2>6
    <3> QED
      BY <1>7, <1>9, <2>1, <2>5, <2>6, <3>1, <3>2, ContentsFacts
  <2>7. CASE ~ (i <= length)
    <3>1. j < n /\ j + 1 = i - length /\ i - length \in 1 .. n
      BY <1>4, <2>4, <2>7
    <3> QED
      BY <1>6, <1>7, <1>9, <2>1, <2>5, <2>7, <3>1
  <2> QED
    BY <2>6, <2>7
<1>11. Contents' = Contents \o d
  BY <1>7, <1>9, <1>10, SameSequence
<1> QED
  BY <1>2, <1>5, <1>11 DEF Fifo!Put, d

\* A read takes from the front of the contents.
LEMMA ReadTakes ==
  ASSUME IInv, NEW size \in Sizes, pipe_read(size)
  PROVE  Fifo!Get(size)
<1>1. PICK n : n = Readable(size)
  OBVIOUS
<1>2. /\ got' = [i \in 1 .. n |-> buf[Moved(read_offset, i - 1)]]
      /\ length' = length - n
      /\ read_offset' = Moved(read_offset, n)
      /\ ret' = n
      /\ buf' = buf
  BY <1>1 DEF pipe_read
<1>3. /\ n \in Nat /\ n <= length /\ length <= BufferSize
      /\ BufferSize \in Nat /\ BufferSize > 0 /\ length \in Nat
      /\ size \in Nat
  BY <1>1, PipeAssumption, AmountFacts DEF IInv, TypeOK
<1>4. n = Fifo!Least(size, Len(Contents))
  BY <1>1, <1>3, ContentsFacts DEF Readable, Fifo!Least
<1> DEFINE front == SubSeq(Contents, 1, n)
           rest  == SubSeq(Contents, n + 1, Len(Contents))
<1>5. /\ front \in Seq(Bytes) /\ Len(front) = n
      /\ \A i \in 1 .. n : front[i] = Contents[i]
      /\ rest \in Seq(Bytes) /\ Len(rest) = length - n
      /\ \A i \in 1 .. length - n : rest[i] = Contents[n + i]
  <2>1. PICK c : c = Contents
    OBVIOUS
  <2>2. PICK l : l = length
    OBVIOUS
  <2>3. c \in Seq(Bytes) /\ Len(c) = l /\ n \in Nat /\ n <= l /\ l \in Nat
    BY <1>3, <2>1, <2>2, ContentsFacts
  <2>4. /\ SubSeq(c, 1, n) \in Seq(Bytes) /\ Len(SubSeq(c, 1, n)) = n
        /\ \A i \in 1 .. n : SubSeq(c, 1, n)[i] = c[i]
    BY ONLY <2>3
  <2>5. /\ SubSeq(c, n + 1, l) \in Seq(Bytes) /\ Len(SubSeq(c, n + 1, l)) = l - n
        /\ \A i \in 1 .. l - n : SubSeq(c, n + 1, l)[i] = c[n + i]
    BY ONLY <2>3
  <2> QED
    BY ONLY <2>1, <2>2, <2>3, <2>4, <2>5
<1> HIDE DEF front, rest
<1>6. got' = front
  <2>1. got' \in Seq(Bytes)
    BY ReadInv DEF IInv, TypeOK
  <2>2. Len(got') = n
    BY <1>2, <1>3, <2>1
  <2>3. \A i \in 1 .. n : got'[i] = front[i]
    BY <1>2, <1>3, <1>5, ContentsFacts
  <2> QED
    BY <1>5, <2>1, <2>2, <2>3
<1>7. IInv'
  BY ReadInv
<1>8. /\ Contents' \in Seq(Bytes)
      /\ Len(Contents') = length - n
      /\ \A i \in 1 .. length - n : Contents'[i] = buf[Moved(read_offset', i - 1)]
  BY <1>2, <1>7, PrimedContents
<1>9. ASSUME NEW i \in 1 .. length - n
      PROVE  Contents'[i] = rest[i]
  <2>1. Moved(read_offset', i - 1) = Moved(read_offset, n + i - 1)
    BY <1>2, <1>3 DEF IInv, TypeOK, Moved, Offsets
  <2>2. n + i \in 1 .. length
    BY <1>3
  <2>3. Contents[n + i] = buf[Moved(read_offset, n + i - 1)]
    <3>1. PICK k \in 1 .. length : k = n + i
      BY <2>2
    <3>2. Contents[k] = buf[Moved(read_offset, k - 1)]
      BY ContentsFacts
    <3>3. k - 1 = n + i - 1
      BY <1>3, <3>1
    <3> QED
      BY <3>1, <3>2, <3>3
  <2> QED
    BY <1>5, <1>8, <2>1, <2>3
<1>10. Contents' = rest
  BY <1>5, <1>8, <1>9, SameSequence
<1> QED
  BY <1>2, <1>4, <1>6, <1>10 DEF Fifo!Get, front, rest

\* The ring buffer implements a first-in-first-out pipe, whatever its size.
THEOREM FifoCorrect == Spec => ImplementsFifo
<1>1. Init => Fifo!Init
  <2> SUFFICES ASSUME Init PROVE Contents = <<>>
    BY DEF Init, Fifo!Init
  <2> QED
    BY DEF Init, Contents
<1>2. ASSUME IInv, [Next]_vars
      PROVE  [Fifo!Next]_<<Contents, got, ret>>
  <2>1. CASE UNCHANGED vars
    BY <2>1 DEF vars, Contents
  <2> QED
    BY <1>2, <2>1, WriteAppends, ReadTakes DEF Next, Fifo!Next
<1> QED
  BY <1>1, <1>2, Invariance, PTL DEF Spec, ImplementsFifo, Fifo!Spec
-----------------------------------------------------------------------------
(***************************************************************************)
(* Part 2, the console: it types on a roll of paper whose end it shows.    *)
(***************************************************************************)
\* Behind the cursor's row the screen is blank: that is why a row that the
\* cursor moves to without a scroll is an empty line.
BlankBelow(screen, r) == \A cell \in Cells : cell[1] > r => screen[cell] = Blank

ConsoleInv == ScreenOK /\ BlankBelow(frame_buffer, row)

\* Division with remainder, as the provers know it.
LEMMA Division ==
  ASSUME NEW a \in Nat, NEW f \in Nat, f > 0
  PROVE  /\ a \div f \in Nat
         /\ a % f \in 0 .. f - 1
         /\ a = f * (a \div f) + (a % f)
OBVIOUS

\* A tab goes to a multiple of the tab width, and to the next one.
LEMMA NextStopFacts ==
  ASSUME NEW c \in 0 .. Max_Column
  PROVE  \E n \in 1 .. Max_Column + TabWidth :
           /\ NextStop(c) = n * TabWidth
           /\ c < n * TabWidth /\ n * TabWidth <= c + TabWidth
<1> USE ConsoleAssumption
<1> DEFINE n == (c + TabWidth) \div TabWidth
           rest == (c + TabWidth) % TabWidth
<1>1. n \in Nat /\ rest \in 0 .. TabWidth - 1 /\ c + TabWidth = TabWidth * n + rest
  BY Division
<1>2. NextStop(c) = n * TabWidth
  BY DEF NextStop
<1> HIDE DEF n, rest
<1>3. c < n * TabWidth /\ n * TabWidth <= c + TabWidth
  BY <1>1
<1>4. n > 0 /\ n <= n * TabWidth
  BY <1>1, <1>3
<1> QED
  BY <1>1, <1>2, <1>3, <1>4

\* What is shown is a sequence of lines.
LEMMA ShownFacts ==
  ASSUME NEW screen \in [Cells -> Visible], NEW r \in 0 .. Max_Row - 1
  PROVE  /\ Shown(screen, r) \in Seq([0 .. Max_Column - 1 -> Visible])
         /\ Len(Shown(screen, r)) = r + 1
         /\ \A i \in 1 .. r + 1 : Shown(screen, r)[i] = Line(screen, i - 1)
<1> USE ConsoleAssumption
<1>1. ASSUME NEW i \in 1 .. r + 1
      PROVE  Line(screen, i - 1) \in [0 .. Max_Column - 1 -> Visible]
  <2>1. \A c \in 0 .. Max_Column - 1 : <<i - 1, c>> \in Cells
    BY DEF Cells
  <2> QED
    BY <2>1 DEF Line
<1>2. Shown(screen, r) \in [1 .. r + 1 -> [0 .. Max_Column - 1 -> Visible]]
  BY <1>1 DEF Shown
<1> QED
  BY <1>2 DEF Shown

LEMMA SameLines ==
  ASSUME NEW S, NEW s \in Seq(S), NEW t \in Seq(S), Len(s) = Len(t),
         \A i \in 1 .. Len(s) : s[i] = t[i]
  PROVE  s = t
OBVIOUS

\* A sequence with an element added at its end.
LEMMA Extended ==
  ASSUME NEW S, NEW s \in Seq(S), NEW e \in S, NEW n \in Nat, Len(s) = n
  PROVE  /\ Append(s, e) \in Seq(S)
         /\ Len(Append(s, e)) = n + 1
         /\ \A i \in 1 .. n + 1 : Append(s, e)[i] = IF i <= n THEN s[i] ELSE e
<1>1. /\ Append(s, e) \in Seq(S)
      /\ Len(Append(s, e)) = n + 1
      /\ \A i \in 1 .. n : Append(s, e)[i] = s[i]
      /\ Append(s, e)[n + 1] = e
  BY AppendProperties
<1>2. \A i \in 1 .. n + 1 : IF i <= n THEN i \in 1 .. n ELSE i = n + 1
  OBVIOUS
<1> QED
  BY <1>1, <1>2

\* A sequence with its first element dropped and another added at its end.
LEMMA Shifted ==
  ASSUME NEW S, NEW s \in Seq(S), NEW e \in S, NEW n \in Nat, Len(s) = n + 1
  PROVE  /\ Append(Tail(s), e) \in Seq(S)
         /\ Len(Append(Tail(s), e)) = n + 1
         /\ \A i \in 1 .. n + 1 :
              Append(Tail(s), e)[i] = IF i <= n THEN s[i + 1] ELSE e
<1>1. s # <<>>
  OBVIOUS
<1>2. /\ Tail(s) \in Seq(S)
      /\ Len(Tail(s)) = n
      /\ \A i \in 1 .. n : Tail(s)[i] = s[i + 1]
  BY <1>1, HeadTailProperties
<1>3. /\ Append(Tail(s), e) \in Seq(S)
      /\ Len(Append(Tail(s), e)) = n + 1
      /\ \A i \in 1 .. n + 1 :
           Append(Tail(s), e)[i] = IF i <= n THEN Tail(s)[i] ELSE e
  BY <1>2, Extended
<1>4. \A i \in 1 .. n + 1 : i <= n => i \in 1 .. n
  OBVIOUS
<1> QED
  BY <1>2, <1>3, <1>4

\* A line feed, by moving down or by scrolling.
LEMMA Feeds ==
  ASSUME ConsoleInv, NEW r, NEW screen,
         r = IF Scrolls(row + 1) THEN row ELSE row + 1,
         screen = IF Scrolls(row + 1) THEN Scroll_Screen(frame_buffer) ELSE frame_buffer
  PROVE  /\ r \in 0 .. Max_Row - 1
         /\ screen \in [Cells -> Visible]
         /\ BlankBelow(screen, r)
         /\ Shown(screen, r) = Roll!Fed
<1> USE ConsoleAssumption DEF ConsoleInv, ScreenOK
<1> DEFINE lines == Shown(frame_buffer, row)
           S == [0 .. Max_Column - 1 -> Visible]
<1>1. \A i \in 0 .. Max_Row - 1, c \in 0 .. Max_Column - 1 : <<i, c>> \in Cells
  BY DEF Cells
<1>2. lines \in Seq(S) /\ Len(lines) = row + 1
      /\ \A i \in 1 .. row + 1 : lines[i] = Line(frame_buffer, i - 1)
  BY ShownFacts
<1>3. Roll!EmptyLine \in S
  BY DEF Roll!EmptyLine
<1>0. row \in 0 .. Max_Row - 1
  OBVIOUS
<1> HIDE DEF lines, S
<1>4. CASE row + 1 < Max_Row
  <2>1. r = row + 1 /\ screen = frame_buffer
    BY <1>4 DEF Scrolls
  <2>2. BlankBelow(screen, r)
    BY <2>1 DEF BlankBelow, Cells
  <2>3. Roll!Fed = Append(lines, Roll!EmptyLine)
    BY <1>2, <1>4 DEF Roll!Fed, lines
  <2>4. Line(frame_buffer, row + 1) = Roll!EmptyLine
    <3>1. \A c \in 0 .. Max_Column - 1 : frame_buffer[<<row + 1, c>>] = Blank
      BY <1>1, <1>4 DEF BlankBelow
    <3> QED
      BY <3>1 DEF Line, Roll!EmptyLine
  <2>5. Shown(screen, r) \in Seq(S) /\ Len(Shown(screen, r)) = row + 2
        /\ \A i \in 1 .. row + 2 : Shown(screen, r)[i] = Line(frame_buffer, i - 1)
    BY <1>4, <2>1, ShownFacts DEF S
  <2>6. Append(lines, Roll!EmptyLine) \in Seq(S)
        /\ Len(Append(lines, Roll!EmptyLine)) = row + 2
        /\ \A i \in 1 .. row + 2 : Append(lines, Roll!EmptyLine)[i]
             = IF i <= row + 1 THEN lines[i] ELSE Roll!EmptyLine
    <3>1. row + 1 \in Nat /\ (row + 1) + 1 = row + 2
      BY <1>0
    <3> QED
      BY <1>2, <1>3, <3>1, Extended
  <2>7. \A i \in 1 .. row + 2 :
          Shown(screen, r)[i] = Append(lines, Roll!EmptyLine)[i]
    <3> SUFFICES ASSUME NEW i \in 1 .. row + 2
                 PROVE  Shown(screen, r)[i] = Append(lines, Roll!EmptyLine)[i]
      OBVIOUS
    <3>1. CASE i <= row + 1
      BY <3>1, <1>2, <2>5, <2>6
    <3>2. CASE i = row + 2
      BY <3>2, <2>4, <2>5, <2>6
    <3>3. i <= row + 1 \/ i = row + 2
      BY <1>0
    <3> QED
      BY <1>0, <3>1, <3>2, <3>3
  <2>8. Shown(screen, r) = Roll!Fed
    BY <2>3, <2>5, <2>6, <2>7, SameLines
  <2> QED
    BY <1>4, <2>1, <2>2, <2>8
<1>5. CASE row + 1 = Max_Row
  <2>1. r = row /\ screen = Scroll_Screen(frame_buffer)
    BY <1>5 DEF Scrolls
  <2>2. screen \in [Cells -> Visible]
    <3> SUFFICES ASSUME NEW cell \in Cells
                 PROVE  cell[1] < Max_Row - 1 => frame_buffer[<<cell[1] + 1, cell[2]>>] \in Visible
      BY <2>1 DEF Scroll_Screen
    <3>1. cell[1] \in 0 .. Max_Row - 1 /\ cell[2] \in 0 .. Max_Column - 1
      BY DEF Cells
    <3> QED
      BY <1>1, <3>1
  <2>3. BlankBelow(screen, r)
    BY <1>5, <2>1 DEF BlankBelow, Cells
  <2>4. Roll!Fed = Append(Tail(lines), Roll!EmptyLine)
    BY <1>2, <1>5 DEF Roll!Fed, lines
  <2>5. \A i \in 0 .. row :
          Line(screen, i) = IF i < row THEN Line(frame_buffer, i + 1) ELSE Roll!EmptyLine
    <3> SUFFICES ASSUME NEW i \in 0 .. row
                 PROVE  Line(screen, i)
                          = IF i < row THEN Line(frame_buffer, i + 1) ELSE Roll!EmptyLine
      OBVIOUS
    <3>1. \A c \in 0 .. Max_Column - 1 :
            screen[<<i, c>>] = IF i < row THEN frame_buffer[<<i + 1, c>>] ELSE Blank
      BY <1>1, <1>5, <2>1 DEF Scroll_Screen
    <3> QED
      BY <3>1 DEF Line, Roll!EmptyLine
  <2>6. Shown(screen, r) \in Seq(S) /\ Len(Shown(screen, r)) = row + 1
        /\ \A i \in 1 .. row + 1 : Shown(screen, r)[i] = Line(screen, i - 1)
    BY <2>1, <2>2, ShownFacts DEF S
  <2>7. Append(Tail(lines), Roll!EmptyLine) \in Seq(S)
        /\ Len(Append(Tail(lines), Roll!EmptyLine)) = row + 1
        /\ \A i \in 1 .. row + 1 : Append(Tail(lines), Roll!EmptyLine)[i]
             = IF i <= row THEN lines[i + 1] ELSE Roll!EmptyLine
    <3>1. row \in Nat
      BY <1>0
    <3> QED
      BY <1>2, <1>3, <3>1, Shifted
  <2>8. \A i \in 1 .. row + 1 :
          Shown(screen, r)[i] = Append(Tail(lines), Roll!EmptyLine)[i]
    <3> SUFFICES ASSUME NEW i \in 1 .. row + 1
                 PROVE  Shown(screen, r)[i] = Append(Tail(lines), Roll!EmptyLine)[i]
      OBVIOUS
    <3>1. CASE i <= row
      <4>1. i - 1 \in 0 .. row /\ i - 1 < row /\ (i - 1) + 1 = i
            /\ i + 1 \in 1 .. row + 1 /\ (i + 1) - 1 = i
        BY <1>0, <3>1
      <4>2. Shown(screen, r)[i] = Line(frame_buffer, i)
        BY <4>1, <2>5, <2>6
      <4>3. lines[i + 1] = Line(frame_buffer, i)
        BY <4>1, <1>2
      <4> QED
        BY <3>1, <4>2, <4>3, <2>7
    <3>2. CASE i = row + 1
      <4>1. i - 1 \in 0 .. row /\ ~ (i - 1 < row) /\ ~ (i <= row)
        BY <1>0, <3>2
      <4> QED
        BY <4>1, <2>5, <2>6, <2>7
    <3>3. i <= row \/ i = row + 1
      BY <1>0
    <3> QED
      BY <1>0, <3>1, <3>2, <3>3
  <2>9. Shown(screen, r) = Roll!Fed
    BY <2>4, <2>6, <2>7, <2>8, SameLines
  <2> QED
    BY <2>1, <2>2, <2>3, <2>9
<1> QED
  BY <1>4, <1>5

\* A character in row r replaces one cell of the last line shown.
LEMMA Types ==
  ASSUME NEW screen \in [Cells -> Visible],
         NEW r \in 0 .. Max_Row - 1, NEW c \in 0 .. Max_Column - 1,
         NEW ch \in Visible, BlankBelow(screen, r)
  PROVE  /\ WriteChar(screen, r, c, ch) \in [Cells -> Visible]
         /\ BlankBelow(WriteChar(screen, r, c, ch), r)
         /\ Shown(WriteChar(screen, r, c, ch), r)
              = Roll!Typed(Shown(screen, r), c, ch)
<1> USE ConsoleAssumption
<1> DEFINE new == WriteChar(screen, r, c, ch)
           lines == Shown(screen, r)
           S == [0 .. Max_Column - 1 -> Visible]
<1>1. \A i \in 0 .. Max_Row - 1, d \in 0 .. Max_Column - 1 : <<i, d>> \in Cells
  BY DEF Cells
<1>2. new = [cell \in Cells |-> IF cell = <<r, c>> THEN ch ELSE screen[cell]]
  <2>1. DOMAIN screen = Cells /\ Cells \cup {<<r, c>>} = Cells
    BY <1>1
  <2> QED
    BY <2>1 DEF WriteChar
<1> HIDE DEF new
<1>3. new \in [Cells -> Visible]
  BY <1>2
<1>4. BlankBelow(new, r)
  BY <1>2 DEF BlankBelow
<1>5. lines \in Seq(S) /\ Len(lines) = r + 1
      /\ \A i \in 1 .. r + 1 : lines[i] = Line(screen, i - 1)
  BY ShownFacts
<1>6. Shown(new, r) \in Seq(S) /\ Len(Shown(new, r)) = r + 1
      /\ \A i \in 1 .. r + 1 : Shown(new, r)[i] = Line(new, i - 1)
  BY <1>3, ShownFacts
<1>7. \A i \in 0 .. r, d \in 0 .. Max_Column - 1 :
        new[<<i, d>>] = IF i = r /\ d = c THEN ch ELSE screen[<<i, d>>]
  <2> SUFFICES ASSUME NEW i \in 0 .. r, NEW d \in 0 .. Max_Column - 1
               PROVE  new[<<i, d>>] = IF i = r /\ d = c THEN ch ELSE screen[<<i, d>>]
    OBVIOUS
  <2>1. <<i, d>> \in Cells
    BY <1>1
  <2> QED
    BY <1>2, <2>1
<1>8. \A i \in 0 .. r :
        Line(new, i) = IF i = r THEN [Line(screen, r) EXCEPT ![c] = ch] ELSE Line(screen, i)
  <2> SUFFICES ASSUME NEW i \in 0 .. r
               PROVE  Line(new, i)
                        = IF i = r THEN [Line(screen, r) EXCEPT ![c] = ch] ELSE Line(screen, i)
    OBVIOUS
  <2>1. CASE i = r
    BY <1>7, <2>1 DEF Line
  <2>2. CASE i < r
    BY <1>7, <2>2 DEF Line
  <2> QED
    BY <2>1, <2>2
<1>9. [Line(screen, r) EXCEPT ![c] = ch] \in S
  <2>1. Line(screen, r) \in S
    BY <1>1 DEF Line
  <2> QED
    BY <2>1
<1>10. Roll!Typed(lines, c, ch)
         = [lines EXCEPT ![r + 1] = [Line(screen, r) EXCEPT ![c] = ch]]
  <2>1. lines[r + 1] = Line(screen, r) /\ Len(lines) = r + 1
    <3>1. r + 1 \in 1 .. r + 1 /\ r + 1 - 1 = r
      OBVIOUS
    <3> HIDE DEF lines
    <3> QED
      BY <1>5, <3>1
  <2> HIDE DEF lines
  <2> QED
    BY <2>1 DEF Roll!Typed
<1> HIDE DEF lines, S
<1>11. Roll!Typed(lines, c, ch) \in Seq(S) /\ Len(Roll!Typed(lines, c, ch)) = r + 1
       /\ \A i \in 1 .. r + 1 : Roll!Typed(lines, c, ch)[i]
            = IF i = r + 1 THEN [Line(screen, r) EXCEPT ![c] = ch] ELSE lines[i]
  BY <1>5, <1>9, <1>10
<1>12. \A i \in 1 .. r + 1 : Shown(new, r)[i] = Roll!Typed(lines, c, ch)[i]
  <2> SUFFICES ASSUME NEW i \in 1 .. r + 1
               PROVE  Shown(new, r)[i] = Roll!Typed(lines, c, ch)[i]
    OBVIOUS
  <2>1. i - 1 \in 0 .. r /\ (i - 1 = r <=> i = r + 1)
    OBVIOUS
  <2> QED
    BY <1>5, <1>6, <1>8, <1>11, <2>1
<1>13. Shown(new, r) = Roll!Typed(lines, c, ch)
  BY <1>6, <1>11, <1>12, SameLines
<1> QED
  BY <1>3, <1>4, <1>13 DEF new, lines

\* One turn of the loop keeps the invariant and does what the paper does.
LEMMA Turn ==
  ASSUME ConsoleInv, NEW ch \in Characters, WriteLine(ch)
  PROVE  ConsoleInv' /\ Roll!Next
<1> USE ConsoleAssumption
<1>0. /\ row \in 0 .. Max_Row - 1 /\ column \in 0 .. Max_Column
      /\ frame_buffer \in [Cells -> Visible] /\ BlankBelow(frame_buffer, row)
  BY DEF ConsoleInv, ScreenOK
<1> DEFINE c0 == ColumnAfter(ch)
           c  == IF Wraps(c0) THEN c0 - Max_Column ELSE c0
           r0 == IF Wraps(c0) THEN RowAfter(ch) + 1 ELSE RowAfter(ch)
           r  == IF Scrolls(r0) THEN r0 - 1 ELSE r0
           screen == IF Scrolls(r0) THEN Scroll_Screen(frame_buffer) ELSE frame_buffer
           feeds == ch \in NewLines \/ Wraps(c0)
<1>1. /\ temp' = ch /\ row' = r
      /\ column' = IF ch \in Visible THEN c + 1 ELSE c
      /\ frame_buffer' = IF ch \in Visible THEN WriteChar(screen, r, c, ch) ELSE screen
  BY DEF WriteLine
<1>2. PICK n \in 1 .. Max_Column + TabWidth :
        /\ NextStop(column) = n * TabWidth
        /\ column < n * TabWidth /\ n * TabWidth <= column + TabWidth
  BY <1>0, NextStopFacts
<1>3. /\ ch \in NewLines => ch \notin Visible /\ ch # "\t" /\ c0 = 0
      /\ ch = "\t" => ch \notin Visible /\ ch \notin NewLines /\ c0 = n * TabWidth
      /\ ch \in Visible => ch # "\t" /\ ch \notin NewLines /\ c0 = column
      /\ ch \in NewLines \/ ch = "\t" \/ ch \in Visible
  BY <1>2 DEF Characters, NewLines, ColumnAfter
<1>4. c0 \in Nat /\ c0 <= Max_Column + TabWidth
  BY <1>0, <1>2, <1>3
<1>5. r0 = IF feeds THEN row + 1 ELSE row
  BY <1>0, <1>3 DEF RowAfter, Wraps
<1>6. c \in 0 .. Max_Column /\ (ch \in Visible => c < Max_Column)
  BY <1>0, <1>3, <1>4 DEF Wraps
<1>7. /\ r \in 0 .. Max_Row - 1 /\ screen \in [Cells -> Visible] /\ BlankBelow(screen, r)
      /\ Shown(screen, r) = IF feeds THEN Roll!Fed ELSE Shown(frame_buffer, row)
  <2>1. CASE feeds
    <3>1. r0 = row + 1
      BY <1>5, <2>1
    <3>2. r = IF Scrolls(row + 1) THEN row ELSE row + 1
      BY <1>0, <3>1
    <3>3. screen = IF Scrolls(row + 1) THEN Scroll_Screen(frame_buffer) ELSE frame_buffer
      BY <3>1
    <3> QED
      BY <2>1, <3>2, <3>3, Feeds
  <2>2. CASE ~ feeds
    <3>1. r0 = row /\ ~ Scrolls(row)
      BY <1>0, <1>5, <2>2 DEF Scrolls
    <3>2. r = row /\ screen = frame_buffer
      BY <3>1
    <3> QED
      BY <1>0, <2>2, <3>2
  <2> QED
    BY <2>1, <2>2
<1> HIDE DEF c0, c, r0, r, screen
<1>8. /\ frame_buffer' \in [Cells -> Visible] /\ BlankBelow(frame_buffer', row')
      /\ ch \in Visible => Shown(frame_buffer', row')
                              = Roll!Typed(Shown(screen, r), c, ch)
      /\ ch \notin Visible => Shown(frame_buffer', row') = Shown(screen, r)
  <2>1. CASE ch \in Visible
    <3>1. c \in 0 .. Max_Column - 1
      BY <1>6, <2>1
    <3> QED
      BY <1>1, <1>7, <2>1, <3>1, Types
  <2>2. CASE ch \notin Visible
    BY <1>1, <1>7, <2>2
  <2> QED
    BY <2>1, <2>2
<1>9. ConsoleInv'
  <2>1. column' \in 0 .. Max_Column
    BY <1>1, <1>6
  <2>2. BlankBelow(frame_buffer, row)'
    BY <1>8 DEF BlankBelow, Cells
  <2> QED
    BY <1>1, <1>7, <1>8, <2>1, <2>2 DEF ConsoleInv, ScreenOK
<1>10. Shown(frame_buffer, row)' = Shown(frame_buffer', row')
  BY DEF Shown, Line
<1>11. CASE ch \in NewLines
  <2>1. c = 0 /\ feeds
    BY <1>3, <1>11 DEF c, Wraps
  <2> QED
    BY <1>1, <1>3, <1>7, <1>8, <1>9, <1>10, <1>11, <2>1
       DEF Roll!Next, Roll!LineFeed, NewLines
<1>12. CASE ch = "\t"
  <2>1. c = IF n * TabWidth >= Max_Column THEN n * TabWidth - Max_Column ELSE n * TabWidth
    BY <1>3, <1>12 DEF c, Wraps
  <2>2. feeds <=> n * TabWidth >= Max_Column
    BY <1>3, <1>12 DEF Wraps
  <2>3. column' = c /\ temp' = "\t"
        /\ Shown(frame_buffer, row)' = IF feeds THEN Roll!Fed ELSE Shown(frame_buffer, row)
    BY <1>1, <1>3, <1>7, <1>8, <1>10, <1>12
  <2>4. n * TabWidth \in Int
    OBVIOUS
  <2> HIDE DEF feeds
  <2>5. Roll!Tab
    BY <1>2, <2>1, <2>2, <2>3, <2>4 DEF Roll!Tab
  <2> QED
    BY <1>9, <2>5 DEF Roll!Next
<1>13. CASE ch \in Visible
  <2>1. feeds <=> column = Max_Column
    BY <1>0, <1>3, <1>13 DEF Wraps
  <2>2. c = IF column = Max_Column THEN 0 ELSE column
    BY <1>0, <1>3, <1>13 DEF c, Wraps
  <2>3. column' = c + 1 /\ temp' = ch
        /\ Shown(frame_buffer, row)'
             = Roll!Typed(IF feeds THEN Roll!Fed ELSE Shown(frame_buffer, row), c, ch)
    BY <1>1, <1>7, <1>8, <1>10, <1>13
  <2> HIDE DEF feeds
  <2>4. Roll!Type(ch)
    BY <1>0, <2>1, <2>2, <2>3 DEF Roll!Type
  <2> QED
    BY <1>9, <1>13, <2>4 DEF Roll!Next
<1> QED
  BY <1>3, <1>9, <1>11, <1>12, <1>13

LEMMA ConsoleInitial == DisplayInit => ConsoleInv /\ Roll!Init
<1> SUFFICES ASSUME DisplayInit PROVE ConsoleInv /\ Roll!Init
  OBVIOUS
<1> USE ConsoleAssumption
<1>1. ConsoleInv
  BY DEF DisplayInit, ConsoleInv, ScreenOK, BlankBelow, Characters, NewLines
<1>2. \A c \in 0 .. Max_Column - 1 : <<0, c>> \in Cells
  BY DEF Cells
<1>3. Line(frame_buffer, 0) = Roll!EmptyLine
  BY <1>2 DEF DisplayInit, Line, Roll!EmptyLine
<1>4. row \in 0 .. Max_Row - 1 /\ frame_buffer \in [Cells -> Visible] /\ row = 0
  BY DEF DisplayInit
<1>5. /\ Shown(frame_buffer, row) \in Seq([0 .. Max_Column - 1 -> Visible])
      /\ Len(Shown(frame_buffer, row)) = row + 1
      /\ \A i \in 1 .. row + 1 : Shown(frame_buffer, row)[i] = Line(frame_buffer, i - 1)
  BY <1>4, ShownFacts
<1>6. Shown(frame_buffer, row) = <<Roll!EmptyLine>>
  BY <1>3, <1>4, <1>5
<1> QED
  BY <1>1, <1>6 DEF DisplayInit, Roll!Init

LEMMA ConsoleStep ==
  ASSUME ConsoleInv, [PrintNext]_consoleVars
  PROVE  ConsoleInv' /\ [Roll!Next]_<<Shown(frame_buffer, row), column, temp>>
<1>1. CASE UNCHANGED consoleVars
  BY <1>1 DEF consoleVars, ConsoleInv, ScreenOK, BlankBelow, Shown, Line
<1>2. CASE PrintNext
  BY <1>2, Turn DEF PrintNext
<1> QED
  BY <1>1, <1>2

\* Nothing is drawn outside the frame buffer, whatever is printed.
THEOREM ScreenCorrect == ConsoleSpec => []ScreenOK
<1>1. ConsoleInv => ScreenOK
  BY DEF ConsoleInv
<1> QED
  BY <1>1, ConsoleInitial, ConsoleStep, PTL DEF ConsoleSpec

\* The screen shows the end of what was printed, for screens and tabs of any
\* size.
THEOREM PaperCorrect == ConsoleSpec => ImplementsPaper
BY ConsoleInitial, ConsoleStep, PTL DEF ConsoleSpec, ImplementsPaper, Roll!Spec, Roll!vars
-----------------------------------------------------------------------------
(***************************************************************************)
(* Part 3, the terminal: what is added to the steps of the two parts is    *)
(* where a byte is on its way from the one to the other.                   *)
(***************************************************************************)
\* The string being printed still has its NUL, and nothing is held beside it.
StringOK ==
  /\ holding \in BOOLEAN
  /\ string \in Seq(Bytes)
  /\ string # <<>> => /\ string[Len(string)] = Zero
                      /\ Len(string) <= BufferSize + 1
                      /\ ~ holding
  /\ Len(got) <= BufferSize

TerminalInv == IInv /\ ConsoleInv /\ StringOK

\* The bytes on their way, and the paper.
Sent  == Copied \o Contents
Typed == <<Shown(frame_buffer, row), column, temp>>
-----------------------------------------------------------------------------
LEMMA NotEmpty == ASSUME NEW s, Len(s) # 0 PROVE s # <<>>
<1>1. Len(<<>>) = 0
  OBVIOUS
<1> QED
  BY <1>1, Zenon

\* Two sequences of bytes one behind the other.
LEMMA Joined ==
  ASSUME NEW S, NEW s \in Seq(S), NEW t \in Seq(S), NEW u \in Seq(S)
  PROVE  /\ s \o t \in Seq(S)
         /\ <<>> \o t = t
         /\ (s \o t) \o u = s \o (t \o u)
         /\ s # <<>> => Head(s \o t) = Head(s) /\ Tail(s \o t) = Tail(s) \o t
         /\ SubSeq(s \o t, Len(s) + 1, Len(s \o t)) = t
OBVIOUS

\* The first byte is that of the first part.
LEMMA HeadTailJoined ==
  ASSUME NEW S, NEW s \in Seq(S), NEW t \in Seq(S), s # <<>>
  PROVE  Head(s \o t) = Head(s) /\ Tail(s \o t) = Tail(s) \o t
BY Joined

\* A sequence cut in two and put together again.
LEMMA CutAndJoined ==
  ASSUME NEW S, NEW s \in Seq(S), NEW n \in 0 .. Len(s)
  PROVE  SubSeq(s, 1, n) \o SubSeq(s, n + 1, Len(s)) = s
<1>1. SubSeq(s, 1, n) \o SubSeq(s, n + 1, Len(s)) = SubSeq(s, 1, Len(s))
  <2>1. /\ 1 \in 1 .. Len(s) + 1
        /\ n \in 1 - 1 .. Len(s)
        /\ Len(s) \in n .. Len(s)
    OBVIOUS
  <2> QED
    BY <2>1, ConcatAdjacentSubSeq
<1> QED
  BY <1>1, SubSeqFull

\* Its two parts.
LEMMA Cut ==
  ASSUME NEW S, NEW s \in Seq(S), NEW n \in 0 .. Len(s)
  PROVE  SubSeq(s, 1, n) \in Seq(S) /\ Len(SubSeq(s, 1, n)) = n
OBVIOUS

\* The string without its NUL.
LEMMA WithoutNUL ==
  ASSUME NEW S, NEW s \in Seq(S), NEW z \in S
  PROVE  /\ s \o <<z>> \in Seq(S)
         /\ Len(s \o <<z>>) = Len(s) + 1
         /\ (s \o <<z>>)[Len(s) + 1] = z
         /\ SubSeq(s \o <<z>>, 1, Len(s)) = s
OBVIOUS

\* One byte of the string is printed, and it is not the NUL at its end.
LEMMA FirstPrinted ==
  ASSUME NEW S, NEW s \in Seq(S), s # <<>>, Head(s) # s[Len(s)]
  PROVE  /\ Tail(s) \in Seq(S) /\ Tail(s) # <<>>
         /\ Len(Tail(s)) = Len(s) - 1
         /\ Tail(s)[Len(Tail(s))] = s[Len(s)]
         /\ SubSeq(s, 1, Len(s) - 1) \in Seq(S)
         /\ SubSeq(s, 1, Len(s) - 1) # <<>>
         /\ Head(SubSeq(s, 1, Len(s) - 1)) = Head(s)
         /\ SubSeq(Tail(s), 1, Len(Tail(s)) - 1) = Tail(SubSeq(s, 1, Len(s) - 1))
<1>1. Len(s) \in Nat /\ Len(s) > 1
  OBVIOUS
<1>2. /\ Tail(s) \in Seq(S) /\ Tail(s) # <<>>
      /\ Len(Tail(s)) = Len(s) - 1
      /\ Tail(s)[Len(Tail(s))] = s[Len(s)]
  <2>1. /\ Tail(s) \in Seq(S)
        /\ Len(Tail(s)) = Len(s) - 1
        /\ \A i \in 1 .. Len(Tail(s)) : Tail(s)[i] = s[i + 1]
    BY HeadTailProperties
  <2>2. Len(Tail(s)) \in 1 .. Len(Tail(s)) /\ Len(Tail(s)) + 1 = Len(s)
    BY <1>1, <2>1
  <2>3. Tail(s) # <<>>
    <3>1. Len(Tail(s)) # 0
      BY <2>2
    <3> QED
      BY <3>1, NotEmpty
  <2> QED
    BY <2>1, <2>2, <2>3
<1>3. /\ SubSeq(s, 1, Len(s) - 1) \in Seq(S)
      /\ SubSeq(s, 1, Len(s) - 1) # <<>>
  <2>1. Len(s) - 1 \in 0 .. Len(s)
    BY <1>1
  <2>2. /\ SubSeq(s, 1, Len(s) - 1) \in Seq(S)
        /\ Len(SubSeq(s, 1, Len(s) - 1)) = Len(s) - 1
    BY <2>1, Cut
  <2> QED
    <3>1. Len(SubSeq(s, 1, Len(s) - 1)) # 0
      BY <1>1, <2>2
    <3> QED
      BY <2>2, <3>1, NotEmpty, Zenon
<1>4. /\ Head(SubSeq(s, 1, Len(s) - 1)) = s[1]
      /\ Tail(SubSeq(s, 1, Len(s) - 1)) = SubSeq(s, 2, Len(s) - 1)
  <2>1. 1 \in 1 .. Len(s) /\ Len(s) - 1 \in 1 .. Len(s) /\ 1 + 1 = 2
    BY <1>1
  <2> QED
    BY <2>1, HeadTailOfSubSeq
<1>5. Tail(s) = SubSeq(s, 2, Len(s))
  BY TailIsSubSeq, Zenon
<1>6. SubSeq(Tail(s), 1, Len(Tail(s)) - 1) = SubSeq(s, 2, Len(s) - 1)
  <2>1. CASE Len(s) = 2
    <3>1. SubSeq(Tail(s), 1, 0) = <<>> /\ SubSeq(s, 2, 1) = <<>>
      BY SubSeqEmpty
    <3>2. Len(Tail(s)) - 1 = 0 /\ Len(s) - 1 = 1
      BY <1>2, <2>1
    <3> QED
      BY <3>1, <3>2
  <2>2. CASE Len(s) > 2
    <3>1. SubSeq(SubSeq(s, 2, Len(s)), 1, Len(s) - 2) = SubSeq(s, 2, Len(s) - 1)
      <4>1. /\ 2 \in 1 .. Len(s) /\ Len(s) \in 1 .. Len(s)
            /\ 1 \in 1 .. Len(s) - 2 + 1
            /\ Len(s) - 2 \in 1 .. Len(s) - 2 + 1
            /\ 2 + 1 - 1 = 2 /\ 2 + (Len(s) - 2) - 1 = Len(s) - 1
        BY <1>1, <2>2
      <4> QED
        BY <4>1, SubSeqOfSubSeq
    <3> QED
      BY <1>1, <1>2, <1>5, <3>1
  <2> QED
    BY <1>1, <2>1, <2>2
<1>7. Head(s) = s[1]
  OBVIOUS
<1> QED
  BY <1>2, <1>3, <1>4, <1>6, <1>7

\* What is copied is a sequence of bytes, and so is what is sent.
LEMMA SentFacts ==
  ASSUME TerminalInv
  PROVE  /\ Copied \in Seq(Bytes)
         /\ Contents \in Seq(Bytes)
         /\ got \in Seq(Bytes)
         /\ Zero \in Bytes
<1>1. Contents \in Seq(Bytes)
  BY ContentsFacts DEF TerminalInv
<1>2. got \in Seq(Bytes) /\ string \in Seq(Bytes) /\ Zero \in Bytes
  BY PipeAssumption DEF TerminalInv, IInv, TypeOK, StringOK
<1>3. CASE string # <<>>
  <2>1. SubSeq(string, 1, Len(string) - 1) \in Seq(Bytes)
    BY <1>2, <1>3
  <2> QED
    BY <1>1, <1>2, <1>3, <2>1 DEF Copied
<1>4. CASE string = <<>>
  BY <1>1, <1>2, <1>4 DEF Copied
<1> QED
  BY <1>3, <1>4

\* The paper of the teletype is the paper of the console.
LEMMA SamePaper ==
  /\ Roll!Next => Tty!Next
  /\ Roll!Init => Tty!Init
BY DEF Roll!Next, Tty!Next, Roll!LineFeed, Tty!LineFeed, Roll!Tab, Tty!Tab,
       Roll!Type, Tty!Type, Roll!Fed, Tty!Fed, Roll!Typed, Tty!Typed,
       Roll!EmptyLine, Tty!EmptyLine, Roll!Init, Tty!Init
-----------------------------------------------------------------------------
LEMMA TerminalInitial == TerminalInit => TerminalInv /\ Tty!TeletypeInit
<1> SUFFICES ASSUME TerminalInit PROVE TerminalInv /\ Tty!TeletypeInit
  OBVIOUS
<1>1. IInv /\ ConsoleInv /\ Roll!Init
  BY InitInv, ConsoleInitial DEF TerminalInit
<1>2. got = <<>> /\ length = 0 /\ string = <<>> /\ holding = FALSE
  BY DEF TerminalInit, Init
<1>3. TerminalInv
  <2>1. Len(got) <= BufferSize /\ string \in Seq(Bytes)
    BY <1>2, EmptySeq, PipeAssumption
  <2> QED
    BY <1>1, <1>2, <2>1, Zenon DEF TerminalInv, StringOK
<1>4. Contents \in Seq(Bytes) /\ Len(Contents) = 0
  BY <1>1, <1>2, ContentsFacts
<1>5. Copied \o Contents = <<>>
  BY <1>2, <1>4 DEF Copied
<1> QED
  BY <1>1, <1>3, <1>5, SamePaper DEF Tty!TeletypeInit

LEMMA WriteSends ==
  ASSUME TerminalInv, NEW data \in Data, Write(data)
  PROVE  TerminalInv' /\ Tty!TeletypeNext
<1>1. IInv' /\ Fifo!Put(data)
  BY WriteInv, WriteAppends DEF TerminalInv, Write
<1>2. ConsoleInv' /\ UNCHANGED Typed
  BY ConsoleStep DEF TerminalInv, Write, consoleVars, Typed, Shown, Line
<1>3. UNCHANGED <<got, holding, string>>
  BY DEF Write, pipe_write
<1>4. TerminalInv'
  BY <1>1, <1>2, <1>3 DEF TerminalInv, StringOK
<1>5. Copied' = Copied
  BY <1>3 DEF Copied
<1>6. PICK n \in 0 .. Len(data) : Contents' = Contents \o SubSeq(data, 1, n)
  <2>1. Len(Contents) \in 0 .. BufferSize /\ Len(data) \in Nat /\ BufferSize \in Nat
    BY ContentsFacts, PipeAssumption DEF TerminalInv, IInv, TypeOK
  <2> DEFINE n == Fifo!Least(Len(data), BufferSize - Len(Contents))
  <2>2. Contents' = Contents \o SubSeq(data, 1, n)
    BY <1>1 DEF Fifo!Put
  <2>3. n \in 0 .. Len(data)
    BY <2>1 DEF Fifo!Least
  <2> HIDE DEF n
  <2> QED
    BY <2>2, <2>3
<1>7. SubSeq(data, 1, n) \in Seq(Bytes)
  BY PipeAssumption, Cut
<1>8. Sent' = Sent \o SubSeq(data, 1, n)
  <2>1. Copied \in Seq(Bytes) /\ Contents \in Seq(Bytes)
    BY SentFacts
  <2>2. Copied \o (Contents \o SubSeq(data, 1, n))
          = (Copied \o Contents) \o SubSeq(data, 1, n)
    <3>1. PICK a \in Seq(Bytes) : a = Copied
      BY <2>1
    <3>2. PICK b \in Seq(Bytes) : b = Contents
      BY <2>1
    <3>3. PICK d \in Seq(Bytes) : d = SubSeq(data, 1, n)
      BY <1>7
    <3>4. a \o (b \o d) = (a \o b) \o d
      BY ONLY a \in Seq(Bytes), b \in Seq(Bytes), d \in Seq(Bytes)
    <3> QED
      BY ONLY <3>1, <3>2, <3>3, <3>4, Zenon
  <2> QED
    BY <1>5, <1>6, <2>2 DEF Sent
<1>9. Tty!Send(data)
  BY <1>2, <1>8 DEF Tty!Send, Tty!vars, Sent, Typed
<1> QED
  BY <1>4, <1>9 DEF Tty!TeletypeNext

LEMMA ReadHolds ==
  ASSUME TerminalInv, NEW size \in Sizes, Read(size)
  PROVE  TerminalInv' /\ UNCHANGED <<Typed, Sent>>
<1>1. IInv' /\ Fifo!Get(size)
  BY ReadInv, ReadTakes DEF TerminalInv, Read
<1>2. ConsoleInv' /\ UNCHANGED Typed
  BY ConsoleStep DEF TerminalInv, Read, consoleVars, Typed, Shown, Line
<1>3. string = <<>> /\ string' = <<>> /\ holding = FALSE /\ holding' = TRUE
  BY DEF Read, TerminalInv, StringOK
<1>4. PICK n \in 0 .. Len(Contents) :
        /\ got' = SubSeq(Contents, 1, n)
        /\ Contents' = SubSeq(Contents, n + 1, Len(Contents))
  <2>1. Len(Contents) \in Nat /\ size \in Nat
    BY ContentsFacts, PipeAssumption DEF TerminalInv
  <2> DEFINE n == Fifo!Least(size, Len(Contents))
  <2>2. /\ got' = SubSeq(Contents, 1, n)
        /\ Contents' = SubSeq(Contents, n + 1, Len(Contents))
    BY <1>1 DEF Fifo!Get
  <2>3. n \in 0 .. Len(Contents)
    BY <2>1 DEF Fifo!Least
  <2> HIDE DEF n
  <2> QED
    BY <2>2, <2>3
<1>5. Contents \in Seq(Bytes) /\ Len(Contents) <= BufferSize /\ BufferSize \in Nat
  BY ContentsFacts, PipeAssumption DEF TerminalInv, IInv, TypeOK
<1>6. got' \o Contents' = Contents
  BY <1>4, <1>5, CutAndJoined
<1>7. Len(got') <= BufferSize
  BY <1>4, <1>5, Cut
<1>8. TerminalInv'
  BY <1>1, <1>2, <1>3, <1>7 DEF TerminalInv, StringOK
<1>9. Sent' = Sent
  BY <1>3, <1>5, <1>6, Joined DEF Sent, Copied
<1> QED
  BY <1>2, <1>8, <1>9

LEMMA StdioCopies ==
  ASSUME TerminalInv, stdio_write
  PROVE  TerminalInv' /\ UNCHANGED <<Typed, Sent>>
<1>1. IInv' /\ UNCHANGED <<got, Contents>>
  BY NextInv DEF TerminalInv, stdio_write, vars, Contents
<1>2. ConsoleInv' /\ UNCHANGED Typed
  BY ConsoleStep DEF TerminalInv, stdio_write, consoleVars, Typed, Shown, Line
<1>3. /\ string = <<>> /\ string' = got \o <<Zero>>
      /\ holding = TRUE /\ holding' = FALSE
  BY DEF stdio_write, Terminated, TerminalInv, StringOK
<1>4. /\ string' \in Seq(Bytes)
      /\ Len(string') = Len(got) + 1
      /\ string'[Len(got) + 1] = Zero
      /\ SubSeq(string', 1, Len(got)) = got
  BY <1>3, SentFacts, WithoutNUL
<1>5. Len(got) \in Nat /\ Len(got) <= BufferSize /\ BufferSize \in Nat
  BY SentFacts, PipeAssumption DEF TerminalInv, StringOK
<1>6. TerminalInv'
  <2>1. /\ string'[Len(string')] = Zero
        /\ Len(string') <= BufferSize + 1
        /\ Len(got') <= BufferSize
    BY <1>1, <1>4, <1>5
  <2> QED
    BY <1>1, <1>2, <1>3, <1>4, <2>1 DEF TerminalInv, StringOK
<1>7. string' # <<>> /\ Len(string') - 1 = Len(got)
  BY <1>4, <1>5
<1>8. Copied = got /\ Copied' = got
  BY <1>3, <1>4, <1>7 DEF Copied
<1> QED
  BY <1>1, <1>2, <1>6, <1>8 DEF Sent

LEMMA PrintTypes ==
  ASSUME TerminalInv, PrintFirst
  PROVE  TerminalInv' /\ Tty!TeletypeNext
<1>1. IInv' /\ UNCHANGED <<got, Contents, holding>>
  BY NextInv DEF TerminalInv, PrintFirst, vars, Contents
<1>2. /\ string # <<>> /\ string \in Seq(Bytes)
      /\ string[Len(string)] = Zero /\ Head(string) # Zero
      /\ Len(string) <= BufferSize + 1
      /\ string' = Tail(string)
      /\ WriteLine(Head(string))
  BY DEF PrintFirst, TerminalInv, StringOK
<1>3. Head(string) \in Characters
  BY <1>2, TerminalAssumption
<1>4. ConsoleInv' /\ Roll!Next
  BY <1>2, <1>3, Turn DEF TerminalInv
<1>5. /\ string' \in Seq(Bytes) /\ string' # <<>>
      /\ Len(string') = Len(string) - 1
      /\ string'[Len(string')] = Zero
      /\ Copied \in Seq(Bytes) /\ Copied # <<>>
      /\ Head(Copied) = Head(string)
      /\ Copied' = Tail(Copied)
  BY <1>2, FirstPrinted DEF Copied
<1>6. TerminalInv'
  <2>1. Len(string) \in Nat /\ BufferSize \in Nat
    BY <1>2, PipeAssumption
  <2> QED
    BY <1>1, <1>2, <1>4, <1>5, <2>1 DEF TerminalInv, StringOK
<1>7. Head(Sent) = Head(string) /\ Sent' = Tail(Sent)
  <2>1. Contents \in Seq(Bytes)
    BY SentFacts
  <2>2. /\ Head(Copied \o Contents) = Head(Copied)
        /\ Tail(Copied \o Contents) = Tail(Copied) \o Contents
    BY <1>5, <2>1, HeadTailJoined
  <2> QED
    BY <1>1, <1>5, <2>2 DEF Sent
<1>8. Sent # <<>>
  BY <1>5, SentFacts DEF Sent
<1>9. temp' = Head(string)
  BY <1>2 DEF WriteLine
<1>10. Tty!TypeFirst
  BY <1>4, <1>7, <1>8, <1>9, SamePaper DEF Tty!TypeFirst, Sent
<1> QED
  BY <1>6, <1>10 DEF Tty!TeletypeNext

LEMMA PrintEndsSwallows ==
  ASSUME TerminalInv, PrintEnds
  PROVE  TerminalInv' /\ (Tty!TeletypeNext \/ UNCHANGED <<Typed, Sent>>)
<1>1. IInv' /\ UNCHANGED <<got, Contents>>
  BY NextInv DEF TerminalInv, PrintEnds, vars, Contents
<1>2. ConsoleInv' /\ UNCHANGED Typed
  BY ConsoleStep DEF TerminalInv, PrintEnds, consoleVars, Typed, Shown, Line
<1>3. /\ string # <<>> /\ string \in Seq(Bytes) /\ Head(string) = Zero
      /\ Len(string) <= BufferSize + 1 /\ holding = FALSE
      /\ string' = <<>> /\ holding' = FALSE
  BY DEF PrintEnds, TerminalInv, StringOK
<1>4. TerminalInv'
  <2>1. string' \in Seq(Bytes)
    BY <1>3, EmptySeq
  <2> QED
    BY <1>1, <1>2, <1>3, <2>1 DEF TerminalInv, StringOK
<1>5. Copied' = <<>> /\ Sent' = Contents
  BY <1>1, <1>3, SentFacts, Joined DEF Copied, Sent
<1>6. /\ Copied \in Seq(Bytes) /\ Len(Copied) = Len(string) - 1
      /\ Copied # <<>> => Head(Copied) = Zero
      /\ Len(string) \in Nat /\ Len(string) > 0 /\ BufferSize \in Nat
  <2>1. Len(string) \in Nat /\ Len(string) > 0 /\ Head(string) = string[1]
    BY <1>3
  <2>2. /\ SubSeq(string, 1, Len(string) - 1) \in Seq(Bytes)
        /\ Len(SubSeq(string, 1, Len(string) - 1)) = Len(string) - 1
    <3>1. Len(string) - 1 \in 0 .. Len(string)
      BY <2>1
    <3> QED
      BY <1>3, <3>1, Cut
  <2>3. Len(string) > 1 => Head(SubSeq(string, 1, Len(string) - 1)) = string[1]
    BY <1>3, <2>1, HeadTailOfSubSeq
  <2>4. Copied = SubSeq(string, 1, Len(string) - 1)
    BY <1>3 DEF Copied
  <2>5. Copied # <<>> => Len(string) > 1
    BY <2>1, <2>2, <2>4, EmptySeq
  <2> QED
    BY <1>3, <2>1, <2>2, <2>3, <2>4, <2>5, PipeAssumption
<1>7. CASE Copied = <<>>
  BY <1>2, <1>4, <1>5, <1>7, SentFacts, Joined DEF Sent
<1>8. CASE Copied # <<>>
  <2>1. Sent # <<>> /\ Head(Sent) = Zero /\ Len(Copied) <= Len(Sent)
    BY <1>6, <1>8, SentFacts, Joined DEF Sent
  <2>2. Len(Copied) \in 1 .. BufferSize
    BY <1>3, <1>6, <1>8
  <2>3. Sent' = SubSeq(Sent, Len(Copied) + 1, Len(Sent))
    BY <1>5, SentFacts, Joined DEF Sent
  <2>4. Tty!Swallow
    BY <1>2, <2>1, <2>2, <2>3 DEF Tty!Swallow, Tty!vars, Sent, Typed
  <2> QED
    BY <1>4, <2>4 DEF Tty!TeletypeNext
<1> QED
  BY <1>7, <1>8

LEMMA TerminalStep ==
  ASSUME TerminalInv, [TerminalNext]_terminalVars
  PROVE  TerminalInv' /\ [Tty!TeletypeNext]_<<Typed, Sent>>
<1>1. CASE UNCHANGED terminalVars
  <2>1. IInv' /\ ConsoleInv'
    BY <1>1, NextInv, ConsoleStep DEF terminalVars, TerminalInv
  <2>2. UNCHANGED <<Copied, Contents, Typed, got, holding, string>>
    BY <1>1 DEF terminalVars, vars, consoleVars, Copied, Contents, Typed, Shown, Line
  <2> QED
    BY <2>1, <2>2 DEF TerminalInv, StringOK, Sent
<1>2. CASE TerminalNext
  BY <1>2, WriteSends, ReadHolds, StdioCopies, PrintTypes, PrintEndsSwallows
     DEF TerminalNext
<1> QED
  BY <1>1, <1>2

\* Whatever is written to the pipe is on the screen later, once and in order.
THEOREM TeletypeCorrect == TerminalSpec => ImplementsTeletype
<1>1. TerminalInv /\ [TerminalNext]_terminalVars
        => TerminalInv' /\ [Tty!TeletypeNext]_<<Tty!vars, Copied \o Contents>>
  BY TerminalStep DEF Typed, Sent, Tty!vars
<1> QED
  BY <1>1, TerminalInitial, PTL DEF TerminalSpec, ImplementsTeletype, Tty!TeletypeSpec
-----------------------------------------------------------------------------
(***************************************************************************)
(* Part 4, the pixels: first how the text of the font is read, line by     *)
(* line; then where the dots of a cell are in the frame buffer, and that   *)
(* what is done to the pixels is what is done to the characters.           *)
(***************************************************************************)
\* A set of numbers has a least one.
LEMMA LeastNatural ==
  ASSUME NEW T, T \subseteq Nat, T # {}
  PROVE  \E n \in T : \A m \in T : n <= m
<1> DEFINE R == OpToRel(<, Nat)
<1>1. PICK n \in T : \A m \in T : ~ (<<m, n>> \in R)
  <2>1. IsWellFoundedOn(R, Nat)
    BY NatLessThanWellFounded
  <2> HIDE DEF R
  <2> QED
    BY <2>1, WFMin
<1>2. \A m \in T : ~ (m < n)
  BY <1>1 DEF OpToRel
<1> QED
  BY <1>2

\* A statement, given as the set of the numbers for which it holds, holds for
\* 0 .. N when it holds for 0 and never stops holding.
LEMMA Stepwise ==
  ASSUME NEW N \in Nat, NEW H,
         0 \in H,
         \A n \in 1 .. N : n - 1 \in H => n \in H
  PROVE  \A n \in 0 .. N : n \in H
<1> DEFINE T == {n \in 0 .. N : n \notin H}
<1> SUFFICES ASSUME T # {} PROVE FALSE
  OBVIOUS
<1>1. T \subseteq Nat
  OBVIOUS
<1>2. PICK n \in T : \A m \in T : n <= m
  BY <1>1, LeastNatural
<1>3. n \in 1 .. N
  BY <1>2
<1>4. n - 1 \notin T
  BY <1>2, <1>3
<1> QED
  BY <1>2, <1>3, <1>4

\* Pieces put one behind the other.
Joins(pieces, n, F) == F[0] = <<>> /\ \A k \in 1 .. n : F[k] = F[k - 1] \o pieces[k]

LEMMA JoinsExist == ASSUME NEW pieces, NEW N \in Nat PROVE \E F : Joins(pieces, N, F)
<1> DEFINE H == {n \in 0 .. N : \E F : Joins(pieces, n, F)}
<1>1. 0 \in H
  <2>1. PICK F : F = [m \in 0 .. 0 |-> <<>>]
    OBVIOUS
  <2>2. Joins(pieces, 0, F)
    BY ONLY <2>1 DEF Joins
  <2> QED
    BY <2>2
<1>2. ASSUME NEW n \in 1 .. N, n - 1 \in H PROVE n \in H
  <2>1. PICK F : Joins(pieces, n - 1, F)
    BY <1>2
  <2>2. PICK y : y = F[n - 1] \o pieces[n]
    OBVIOUS
  <2>3. PICK G : G = [m \in 0 .. n |-> IF m = n THEN y ELSE F[m]]
    OBVIOUS
  <2>4. n \in Nat /\ n # 0
    BY <1>2
  <2>5. G[n] = y /\ \A m \in 0 .. n - 1 : G[m] = F[m]
    BY ONLY <2>3, <2>4
  <2>6. G[0] = <<>>
    BY ONLY <2>1, <2>4, <2>5 DEF Joins
  <2>7. ASSUME NEW m \in 1 .. n PROVE G[m] = G[m - 1] \o pieces[m]
    <3>1. CASE m = n
      <4>1. n - 1 \in 0 .. n - 1
        BY ONLY <2>4
      <4>2. G[n - 1] = F[n - 1]
        BY ONLY <2>5, <4>1
      <4> QED
        BY ONLY <2>2, <2>5, <3>1, <4>2
    <3>2. CASE m # n
      <4>1. m \in 1 .. n - 1 /\ m \in 0 .. n - 1 /\ m - 1 \in 0 .. n - 1
        BY ONLY <2>4, <2>7, <3>2
      <4>2. G[m] = F[m] /\ G[m - 1] = F[m - 1]
        BY ONLY <2>5, <4>1
      <4>3. F[m] = F[m - 1] \o pieces[m]
        BY ONLY <2>1, <4>1 DEF Joins
      <4> QED
        BY ONLY <4>2, <4>3
    <3> QED
      BY ONLY <3>1, <3>2
  <2>8. Joins(pieces, n, G)
    BY ONLY <2>6, <2>7 DEF Joins
  <2> QED
    BY <2>8
<1>3. \A n \in 0 .. N : n \in H
  <2> HIDE DEF H
  <2> QED
    BY <1>1, <1>2, Stepwise
<1> QED
  BY <1>3

\* Each piece is found in the whole, from a place on that is one behind the
\* pieces before.
Found(C, N, pieces, F) ==
  /\ \A n \in 0 .. N : F[n] \in Seq(C) /\ Len(F[n]) <= Len(F[N])
  /\ \A n \in 1 .. N : /\ Len(F[n]) = Len(F[n - 1]) + Len(pieces[n])
                       /\ \A j \in 1 .. Len(pieces[n]) :
                            F[N][Len(F[n - 1]) + j] = pieces[n][j]

LEMMA PiecesFound ==
  ASSUME NEW C, NEW N \in Nat, NEW pieces \in [1 .. N -> Seq(C)], NEW F, Joins(pieces, N, F)
  PROVE  Found(C, N, pieces, F)
<1>1. F[0] = <<>> /\ \A k \in 1 .. N : F[k] = F[k - 1] \o pieces[k]
  BY DEF Joins
<1> DEFINE Good == {n \in 0 .. N : F[n] \in Seq(C)}
<1>2. \A n \in 0 .. N : n \in Good
  <2>1. 0 \in Good
    <3>1. <<>> \in Seq(C)
      OBVIOUS
    <3>2. F[0] = <<>>
      BY ONLY <1>1
    <3>3. F[0] \in Seq(C) /\ 0 \in 0 .. N
      BY ONLY <3>1, <3>2, N \in Nat
    <3> QED
      BY ONLY <3>3
  <2>2. ASSUME NEW n \in 1 .. N, n - 1 \in Good PROVE n \in Good
    <3>1. PICK f : f = F[n - 1]
      OBVIOUS
    <3>2. PICK g : g = pieces[n]
      OBVIOUS
    <3>3. f \in Seq(C) /\ g \in Seq(C) /\ n \in 0 .. N /\ F[n] = f \o g
      <4>1. f \in Seq(C)
        BY ONLY <2>2, <3>1
      <4>2. g \in Seq(C)
        BY ONLY <3>2, n \in 1 .. N, pieces \in [1 .. N -> Seq(C)]
      <4>3. F[n] = f \o g
        BY ONLY <1>1, <3>1, <3>2, n \in 1 .. N
      <4>4. n \in 0 .. N
        OBVIOUS
      <4> QED
        BY ONLY <4>1, <4>2, <4>3, <4>4
    <3>4. f \o g \in Seq(C)
      BY ONLY <3>3
    <3> QED
      BY <3>3, <3>4
  <2> HIDE DEF Good
  <2> QED
    BY <2>1, <2>2, Stepwise
<1>3. ASSUME NEW n \in 1 .. N
      PROVE  /\ F[n - 1] \in Seq(C) /\ F[n] \in Seq(C) /\ pieces[n] \in Seq(C)
             /\ Len(F[n - 1]) \in Nat /\ Len(F[n]) \in Nat
             /\ Len(F[n]) = Len(F[n - 1]) + Len(pieces[n])
             /\ \A i \in 1 .. Len(F[n - 1]) : F[n][i] = F[n - 1][i]
             /\ \A j \in 1 .. Len(pieces[n]) : F[n][Len(F[n - 1]) + j] = pieces[n][j]
  <2>1. PICK f : f = F[n - 1]
    OBVIOUS
  <2>2. PICK g : g = pieces[n]
    OBVIOUS
  <2>3. n - 1 \in 0 .. N
    OBVIOUS
  <2>4. f \in Seq(C) /\ g \in Seq(C) /\ F[n] = f \o g
    BY <1>1, <1>2, <2>1, <2>2, <2>3
  <2>5. /\ f \o g \in Seq(C) /\ Len(f \o g) = Len(f) + Len(g) /\ Len(f) \in Nat /\ Len(g) \in Nat
        /\ \A i \in 1 .. Len(f) : (f \o g)[i] = f[i]
        /\ \A j \in 1 .. Len(g) : (f \o g)[Len(f) + j] = g[j]
    BY ONLY <2>4
  <2> QED
    BY <2>1, <2>2, <2>4, <2>5
<1> DEFINE Kept == {m \in 0 .. N : \A n \in 0 .. m :
                      /\ Len(F[n]) <= Len(F[m])
                      /\ \A i \in 1 .. Len(F[n]) : F[m][i] = F[n][i]}
<1>4. \A m \in 0 .. N : m \in Kept
  <2>0. \A n \in 0 .. N : Len(F[n]) \in Nat
    BY <1>2
  <2>1. 0 \in Kept
    BY <2>0
  <2>2. ASSUME NEW m \in 1 .. N, m - 1 \in Kept PROVE m \in Kept
    <3>1. SUFFICES ASSUME NEW n \in 0 .. m
                   PROVE  /\ Len(F[n]) <= Len(F[m])
                          /\ \A i \in 1 .. Len(F[n]) : F[m][i] = F[n][i]
      OBVIOUS
    <3>2. CASE n = m
      BY <2>0, <3>2
    <3>3. CASE n # m
      <4>1. n \in 0 .. m - 1 /\ n \in 0 .. N
        BY <3>3
      <4>2. PICK p : p = Len(F[n])
        OBVIOUS
      <4>3. PICK q : q = Len(F[m - 1])
        OBVIOUS
      <4>4. /\ p \in Nat /\ q \in Nat /\ p <= q
            /\ \A i \in 1 .. p : F[m - 1][i] = F[n][i]
            /\ \A i \in 1 .. q : F[m][i] = F[m - 1][i]
            /\ q <= Len(F[m])
        <5>1. PICK g : g = pieces[m]
          OBVIOUS
        <5>2. /\ q \in Nat /\ g \in Seq(C) /\ Len(F[m]) = q + Len(g)
              /\ \A i \in 1 .. q : F[m][i] = F[m - 1][i]
          BY ONLY <1>3, <4>3, <5>1, m \in 1 .. N
        <5>3. Len(g) \in Nat
          BY ONLY <5>2
        <5>4. /\ p \in Nat /\ p <= q
              /\ \A i \in 1 .. p : F[m - 1][i] = F[n][i]
          BY ONLY <2>0, <2>2, <4>1, <4>2, <4>3 DEF Kept
        <5>5. q <= Len(F[m])
          BY ONLY <5>2, <5>3
        <5> QED
          BY ONLY <5>2, <5>4, <5>5
      <4>5. p <= Len(F[m]) /\ \A i \in 1 .. p : F[m][i] = F[n][i]
        <5>1. Len(F[m]) \in Nat
          BY <1>3
        <5> QED
          BY ONLY <4>4, <5>1
      <4> QED
        BY <4>2, <4>5
    <3> QED
      BY <3>2, <3>3
  <2> HIDE DEF Kept
  <2> QED
    BY <2>1, <2>2, Stepwise
<1>5. ASSUME NEW n \in 0 .. N
      PROVE  Len(F[n]) <= Len(F[N]) /\ \A i \in 1 .. Len(F[n]) : F[N][i] = F[n][i]
  <2>1. N \in 0 .. N
    OBVIOUS
  <2> QED
    BY <1>4, <2>1
<1>6. ASSUME NEW n \in 1 .. N, NEW j \in 1 .. Len(pieces[n])
      PROVE  F[N][Len(F[n - 1]) + j] = pieces[n][j]
  <2>1. n \in 0 .. N /\ Len(F[n - 1]) \in Nat /\ Len(pieces[n]) \in Nat
    BY <1>3
  <2>2. Len(F[n - 1]) + j \in 1 .. Len(F[n])
    BY <1>3, <2>1
  <2> QED
    BY <1>3, <1>5, <2>1, <2>2
<1> QED
  BY <1>2, <1>3, <1>5, <1>6 DEF Found
-----------------------------------------------------------------------------
Digits == {HexDigits[d + 1] : d \in 0 .. 15}
Chars == Digits \cup {"words", "\n"}

\* A line ends in its only newline.
IsLine(x) ==
  \E n \in Nat : /\ x \in Seq(Chars) /\ Len(x) = n + 1
                 /\ x[n + 1] = "\n" /\ \A j \in 1 .. n : x[j] # "\n"

LEMMA DigitFacts ==
  \A d \in 0 .. 15 : HexDigits[d + 1] \in Digits /\ HexDigits[d + 1] # "\n"
<1>1. \A d \in 0 .. 15 : HexDigits[d + 1] # "\n"
  BY DEF HexDigits
<1> QED
  BY <1>1 DEF Digits

LEMMA LightsFacts ==
  \A d \in 0 .. 15, k \in 0 .. 3 : HexDigits[d + 1] \in Lights[k + 1] <=> Bit(d, k)
<1> SUFFICES ASSUME NEW d \in 0 .. 15, NEW k \in 0 .. 3
             PROVE  HexDigits[d + 1] \in Lights[k + 1] <=> Bit(d, k)
  OBVIOUS
<1>1. CASE k = 0
  BY <1>1 DEF HexDigits, Lights, Bit
<1>2. CASE k = 1
  BY <1>2 DEF HexDigits, Lights, Bit
<1>3. CASE k = 2
  BY <1>3 DEF HexDigits, Lights, Bit
<1>4. CASE k = 3
  BY <1>4 DEF HexDigits, Lights, Bit
<1> QED
  BY <1>1, <1>2, <1>3, <1>4

\* A row of a glyph, and a line of another kind.
LEMMA RowLine ==
  ASSUME NEW digits \in Seq(0 .. 15)
  PROVE  LET x == DigitsOf(digits) \o <<"\n">>
         IN /\ IsLine(x) /\ Len(x) = Len(digits) + 1
            /\ \A j \in 1 .. Len(digits) : x[j] = HexDigits[digits[j] + 1]
<1>1. PICK n \in Nat : n = Len(digits)
  OBVIOUS
<1>2. PICK f : f = DigitsOf(digits)
  OBVIOUS
<1>3. /\ f = [j \in 1 .. n |-> HexDigits[digits[j] + 1]]
      /\ \A j \in 1 .. n : digits[j] \in 0 .. 15
  BY <1>1, <1>2 DEF DigitsOf
<1>4. \A j \in 1 .. n : /\ HexDigits[digits[j] + 1] \in Chars
                        /\ HexDigits[digits[j] + 1] # "\n"
  BY <1>3, DigitFacts DEF Chars
<1>5. /\ f \in Seq(Chars) /\ Len(f) = n
      /\ \A j \in 1 .. n : f[j] = HexDigits[digits[j] + 1]
  BY <1>1, <1>3, <1>4
<1>6. "\n" \in Chars
  BY DEF Chars
<1>7. PICK C : C = Chars
  OBVIOUS
<1>8. PICK e : e = "\n"
  OBVIOUS
<1>9. PICK x : x = f \o <<e>>
  OBVIOUS
<1>10. /\ x \in Seq(C) /\ Len(x) = n + 1 /\ x[n + 1] = e
       /\ \A j \in 1 .. n : x[j] = f[j]
  BY ONLY <1>5, <1>6, <1>7, <1>8, <1>9, n \in Nat
<1>11. IsLine(x)
  BY <1>4, <1>5, <1>7, <1>8, <1>10 DEF IsLine
<1> QED
  BY <1>1, <1>2, <1>5, <1>8, <1>9, <1>10, <1>11

LEMMA OtherLine == IsLine(<<"words", "\n">>) /\ Len(<<"words", "\n">>) = 2
<1>1. "words" \in Chars /\ "\n" \in Chars /\ "words" # "\n"
  BY DEF Chars
<1>2. PICK w : w = "words"
  OBVIOUS
<1>3. PICK e : e = "\n"
  OBVIOUS
<1>4. PICK C : C = Chars
  OBVIOUS
<1>5. /\ <<w, e>> \in Seq(C) /\ Len(<<w, e>>) = 1 + 1 /\ <<w, e>>[1 + 1] = e
      /\ \A j \in 1 .. 1 : <<w, e>>[j] # e
  BY ONLY <1>1, <1>2, <1>3, <1>4
<1>6. 1 \in Nat
  OBVIOUS
<1>7. IsLine(<<w, e>>)
  BY ONLY <1>3, <1>4, <1>5, <1>6 DEF IsLine
<1> QED
  BY <1>2, <1>3, <1>5, <1>7

LEMMA LineFacts == \A l \in Nat : IsLine(FontLine(l))
<1> SUFFICES ASSUME NEW l \in Nat PROVE IsLine(FontLine(l))
  OBVIOUS
<1> DEFINE glyph == (l - Header) \div PerGlyph
           i == ((l - Header) % PerGlyph) - 5
<1>1. FontLine(l) = IF l >= Header /\ glyph < Len(Font) /\ i \in 1 .. Height
                      THEN DigitsOf(Font[glyph + 1][i]) \o <<"\n">>
                    ELSE <<"words", "\n">>
  BY DEF FontLine
<1>2. CASE l >= Header /\ glyph < Len(Font) /\ i \in 1 .. Height
  <2>1. l - Header \in Nat /\ PerGlyph \in Nat /\ PerGlyph > 0
    BY <1>2, DisplayAssumption DEF PerGlyph
  <2>2. glyph \in Nat
    BY <2>1, Division
  <2> HIDE DEF glyph, i
  <2>3. glyph + 1 \in 1 .. Len(Font)
    BY <1>2, <2>2, DisplayAssumption
  <2>4. Font[glyph + 1] \in [1 .. Height -> Seq(0 .. 15)]
    BY <2>3, DisplayAssumption
  <2>5. PICK digits : digits = Font[glyph + 1][i]
    OBVIOUS
  <2>6. digits \in Seq(0 .. 15)
    BY <1>2, <2>4, <2>5
  <2> QED
    BY <1>1, <1>2, <2>5, <2>6, RowLine
<1>3. CASE ~ (l >= Header /\ glyph < Len(Font) /\ i \in 1 .. Height)
  BY <1>1, <1>3, OtherLine
<1> QED
  BY <1>2, <1>3

\* S[n] is the place where line n begins.
Begin(S) ==
  /\ S \in [0 .. FontLines -> Nat \ {0}] /\ S[0] = 1
  /\ S[FontLines] = Len(font_buf) + 1
  /\ \A n \in 0 .. FontLines : S[n] <= S[FontLines]
  /\ \A n \in 0 .. FontLines - 1 :
       /\ S[n + 1] = S[n] + Len(FontLine(n))
       /\ \A j \in 1 .. Len(FontLine(n)) : font_buf[S[n] + j - 1] = FontLine(n)[j]

LEMMA LinesFound == FontLines \in Nat /\ \E S : Begin(S)
<1>1. FontLines \in Nat
  <2>1. PerGlyph \in Nat /\ Header \in Nat /\ Len(Font) \in Nat
    BY DisplayAssumption DEF PerGlyph
  <2>2. PerGlyph * Len(Font) \in Nat
    BY <2>1
  <2> QED
    BY <2>1, <2>2 DEF FontLines
<1>2. PICK N : N \in Nat /\ N = FontLines
  BY <1>1
<1>3. PICK pieces : pieces = [n \in 1 .. N |-> FontLine(n - 1)]
  OBVIOUS
<1>4. PICK F : Joins(pieces, N, F)
  BY <1>2, JoinsExist
<1>5. \A n \in 1 .. N : n - 1 \in Nat /\ pieces[n] = FontLine(n - 1)
  BY <1>2, <1>3
<1>6. pieces \in [1 .. N -> Seq(Chars)]
  <2>1. \A n \in 1 .. N : FontLine(n - 1) \in Seq(Chars)
    BY <1>5, LineFacts DEF IsLine
  <2> QED
    BY <1>3, <2>1
\* The recursion that defines FontText is that of the pieces.
<1>7. font_buf = F[N]
  <2> DEFINE Step(f) == [n \in 0 .. N |-> IF n = 0 THEN <<>> ELSE f[n - 1] \o FontLine(n - 1)]
             upto == CHOOSE f : f = Step(f)
  <2>1. PICK E : E = [n \in 0 .. N |-> F[n]]
    OBVIOUS
  <2>2. \A n \in 0 .. N : n # 0 => n \in 1 .. N /\ n - 1 \in 0 .. N
    BY <1>2
  <2>3. \A n \in 0 .. N : E[n] = IF n = 0 THEN <<>> ELSE E[n - 1] \o FontLine(n - 1)
    <3>1. SUFFICES ASSUME NEW n \in 0 .. N
                   PROVE  E[n] = IF n = 0 THEN <<>> ELSE E[n - 1] \o FontLine(n - 1)
      OBVIOUS
    <3>2. CASE n = 0
      BY ONLY <1>4, <2>1, <3>1, <3>2 DEF Joins
    <3>3. CASE n # 0
      <4>1. E[n] = F[n] /\ E[n - 1] = F[n - 1] /\ n \in 1 .. N
        BY ONLY <2>1, <2>2, <3>1, <3>3
      <4>2. F[n] = F[n - 1] \o pieces[n]
        BY ONLY <1>4, <4>1 DEF Joins
      <4>3. pieces[n] = FontLine(n - 1)
        BY ONLY <1>5, <4>1
      <4>4. E[n] = E[n - 1] \o FontLine(n - 1)
        BY ONLY <4>1, <4>2, <4>3, Zenon
      <4> QED
        BY ONLY <3>3, <4>4, Zenon
    <3> QED
      BY ONLY <3>2, <3>3
  <2>4. E = Step(E)
    <3>1. PICK G : G = Step(E)
      OBVIOUS
    <3>2. \A n \in 0 .. N : G[n] = IF n = 0 THEN <<>> ELSE E[n - 1] \o FontLine(n - 1)
      BY ONLY <3>1, Zenon
    <3>3. \A n \in 0 .. N : E[n] = G[n]
      BY ONLY <2>3, <3>2, Zenon
    <3>4. E = [n \in 0 .. N |-> E[n]]
      BY ONLY <2>1
    <3>5. G = [n \in 0 .. N |-> G[n]]
      BY ONLY <3>1, Zenon
    <3>6. E = G
      BY ONLY <3>3, <3>4, <3>5
    <3> QED
      BY ONLY <3>1, <3>6, Zenon
  <2>5. upto = Step(upto)
    BY ONLY <2>4
  <2>6. FontText = upto[N]
    BY ONLY <1>2 DEF FontText
  <2> HIDE DEF upto
  <2>7. \A n \in 0 .. N : upto[n] = IF n = 0 THEN <<>> ELSE upto[n - 1] \o FontLine(n - 1)
    BY ONLY <2>5, Zenon
  <2> DEFINE H == {n \in 0 .. N : upto[n] = E[n]}
  <2>8. 0 \in 0 .. N
    BY <1>2
  <2>9. 0 \in H
    BY ONLY <2>3, <2>7, <2>8
  <2>10. ASSUME NEW n \in 1 .. N, n - 1 \in H PROVE n \in H
    <3>1. n \in 0 .. N /\ n # 0
      BY <1>2
    <3>2. upto[n - 1] = E[n - 1]
      BY <2>10
    <3>3. upto[n] = upto[n - 1] \o FontLine(n - 1) /\ E[n] = E[n - 1] \o FontLine(n - 1)
      BY ONLY <2>3, <2>7, <3>1, Zenon
    <3>4. upto[n] = E[n]
      BY ONLY <3>2, <3>3, Zenon
    <3> QED
      BY <3>1, <3>4
  <2>11. \A n \in 0 .. N : n \in H
    <3> HIDE DEF H
    <3> QED
      BY <1>2, <2>9, <2>10, Stepwise
  <2>12. N \in 0 .. N
    BY <1>2
  <2>13. font_buf = FontText
    BY DisplayAssumption
  <2> QED
    BY <2>1, <2>6, <2>11, <2>12, <2>13
<1>8. /\ \A n \in 0 .. N : F[n] \in Seq(Chars) /\ Len(F[n]) <= Len(F[N])
      /\ \A n \in 1 .. N : /\ Len(F[n]) = Len(F[n - 1]) + Len(pieces[n])
                           /\ \A j \in 1 .. Len(pieces[n]) :
                                F[N][Len(F[n - 1]) + j] = pieces[n][j]
  <2>1. PICK C : C = Chars
    OBVIOUS
  <2>2. pieces \in [1 .. N -> Seq(C)]
    BY <1>6, <2>1
  <2>3. N \in Nat
    BY <1>2
  <2>4. Found(C, N, pieces, F)
    BY ONLY <1>4, <2>2, <2>3, PiecesFound
  <2> QED
    BY ONLY <2>1, <2>4 DEF Found
<1>9. PICK S : S = [n \in 0 .. N |-> Len(F[n]) + 1]
  OBVIOUS
<1>10. \A n \in 0 .. N : Len(F[n]) \in Nat
  BY <1>8
<1>11. N \in 0 .. N /\ 0 \in 0 .. N
  BY <1>2
<1>12. /\ S \in [0 .. N -> Nat \ {0}] /\ S[N] = Len(font_buf) + 1
       /\ \A n \in 0 .. N : S[n] <= S[N]
  BY <1>7, <1>8, <1>9, <1>10, <1>11
<1>13. S[0] = 1
  <2>1. F[0] = <<>>
    BY <1>4 DEF Joins
  <2> QED
    BY <1>9, <1>11, <2>1
<1>14. ASSUME NEW n \in 0 .. N - 1
       PROVE  /\ S[n + 1] = S[n] + Len(FontLine(n))
              /\ \A j \in 1 .. Len(FontLine(n)) : font_buf[S[n] + j - 1] = FontLine(n)[j]
  <2>1. n + 1 \in 1 .. N /\ n + 1 \in 0 .. N /\ n \in 0 .. N /\ (n + 1) - 1 = n
    BY <1>2
  <2>2. PICK x : x = FontLine(n)
    OBVIOUS
  <2>3. pieces[n + 1] = x /\ Len(x) \in Nat
    <3>1. x \in Seq(Chars) /\ pieces[n + 1] = x
      BY <1>5, <1>6, <2>1, <2>2
    <3> QED
      BY <3>1
  <2>4. PICK p : p = Len(F[n])
    OBVIOUS
  <2>5. p \in Nat /\ S[n] = p + 1 /\ S[n + 1] = Len(F[n + 1]) + 1
    BY <1>9, <1>10, <2>1, <2>4
  <2>6. Len(F[n + 1]) = p + Len(x) /\ \A j \in 1 .. Len(x) : font_buf[p + j] = x[j]
    BY <1>7, <1>8, <2>1, <2>3, <2>4
  <2>7. \A j \in 1 .. Len(x) : S[n] + j - 1 = p + j
    BY <2>3, <2>5
  <2>8. S[n + 1] = S[n] + Len(x)
    BY <2>3, <2>5, <2>6
  <2> QED
    BY <2>2, <2>6, <2>7, <2>8
<1> QED
  BY <1>1, <1>2, <1>12, <1>13, <1>14 DEF Begin

LEMMA NextLineIs ==
  ASSUME NEW S, Begin(S), NEW n \in 0 .. FontLines - 1
  PROVE  NextLine(S[n]) = S[n + 1]
<1>1. FontLines \in Nat
  BY LinesFound
<1>2. n \in Nat /\ n \in 0 .. FontLines /\ n + 1 \in 0 .. FontLines
  BY <1>1
<1>3. PICK x : x = FontLine(n)
  OBVIOUS
<1>4. PICK k \in Nat : /\ Len(x) = k + 1 /\ x[k + 1] = "\n"
                      /\ \A j \in 1 .. k : x[j] # "\n"
  BY <1>2, <1>3, LineFacts DEF IsLine
<1>5. PICK p \in Nat \ {0} : p = S[n]
  BY <1>2 DEF Begin
<1>6. PICK L : L = Len(font_buf)
  OBVIOUS
<1>7. PICK q \in Nat \ {0} : q = S[n + 1] /\ q = p + k + 1
  <2>1. S[n + 1] = p + (k + 1)
    BY <1>3, <1>4, <1>5 DEF Begin
  <2>2. S[n + 1] \in Nat \ {0}
    BY <1>2 DEF Begin
  <2> QED
    BY <1>5, <2>1, <2>2
<1>8. q <= L + 1 /\ L + 1 \in Nat
  <2>1. S[FontLines] = L + 1 /\ S[n + 1] <= S[FontLines]
    BY <1>2, <1>6 DEF Begin
  <2>2. S[FontLines] \in Nat
    BY <1>1 DEF Begin
  <2> QED
    BY <1>7, <2>1, <2>2
<1>9. L \in Int
  BY <1>6, DisplayAssumption, <1>8, <1>7
<1>10. font_buf[p + k] = "\n" /\ \A j \in p .. p + k - 1 : font_buf[j] # "\n"
  <2>1. \A j \in 1 .. k + 1 : font_buf[p + j - 1] = x[j]
    BY <1>3, <1>4, <1>5 DEF Begin
  <2>2. k + 1 \in 1 .. k + 1 /\ p + (k + 1) - 1 = p + k
    OBVIOUS
  <2>3. font_buf[p + k] = "\n"
    BY <1>4, <2>1, <2>2
  <2>4. ASSUME NEW j \in p .. p + k - 1 PROVE font_buf[j] # "\n"
    <3>1. j - p + 1 \in 1 .. k /\ j - p + 1 \in 1 .. k + 1 /\ p + (j - p + 1) - 1 = j
      OBVIOUS
    <3> QED
      BY <1>4, <2>1, <3>1
  <2> QED
    BY <2>3, <2>4
<1> DEFINE IsEnd(i) == font_buf[i] = "\n" /\ \A j \in p .. i - 1 : font_buf[j] # "\n"
<1>11. IsEnd(p + k) /\ p + k \in p .. L
  BY <1>7, <1>8, <1>9, <1>10
<1>12. ASSUME NEW i \in p .. L, IsEnd(i) PROVE i = p + k
  <2>1. ~ (i < p + k)
    <3>1. i < p + k => i \in p .. p + k - 1
      BY <1>9
    <3> QED
      BY <1>10, <1>12, <3>1
  <2>2. ~ (p + k < i)
    <3>1. p + k < i => p + k \in p .. i - 1
      BY <1>9
    <3> QED
      BY <1>10, <1>12, <3>1
  <2> QED
    BY <1>9, <2>1, <2>2
<1>13. (CHOOSE i \in p .. L : IsEnd(i)) = p + k
  <2> HIDE DEF IsEnd
  <2> QED
    BY <1>11, <1>12
<1>14. NextLine(p) = 1 + CHOOSE i \in p .. L : IsEnd(i)
  BY ONLY <1>6 DEF NextLine
<1> HIDE DEF IsEnd
<1>15. NextLine(p) = 1 + (p + k)
  BY ONLY <1>13, <1>14, Zenon
<1>16. 1 + (p + k) = q
  BY ONLY <1>7, k \in Nat, p \in Nat
<1>17. NextLine(p) = q
  BY ONLY <1>15, <1>16
<1> QED
  BY ONLY <1>5, <1>7, <1>17, Zenon

\* file_seek goes on by as many lines as it is told.
LEMMA Seeks ==
  ASSUME NEW S, Begin(S), NEW a \in Nat, NEW n \in Nat, a + n <= FontLines
  PROVE  file_seek(S[a], n) = S[a + n]
<1>1. FontLines \in Nat
  BY LinesFound
<1>2. PICK place : place = S[a]
  OBVIOUS
<1> DEFINE Step(f) == [k \in 0 .. n |-> IF k = 0 THEN place ELSE NextLine(f[k - 1])]
           stream == CHOOSE f : f = Step(f)
<1>3. PICK E : E = [k \in 0 .. n |-> S[a + k]]
  OBVIOUS
<1>4. \A k \in 0 .. n : E[k] = IF k = 0 THEN place ELSE NextLine(E[k - 1])
  <2>1. SUFFICES ASSUME NEW k \in 0 .. n
                 PROVE  E[k] = IF k = 0 THEN place ELSE NextLine(E[k - 1])
    OBVIOUS
  <2>2. CASE k = 0
    BY <1>2, <1>3, <2>2
  <2>3. CASE k # 0
    <3>1. /\ a + (k - 1) \in 0 .. FontLines - 1 /\ (a + (k - 1)) + 1 = a + k
          /\ k - 1 \in 0 .. n
      BY <1>1, <2>3
    <3>2. NextLine(S[a + (k - 1)]) = S[a + k]
      <4>1. PICK m : m = a + (k - 1)
        OBVIOUS
      <4>2. m \in 0 .. FontLines - 1 /\ m + 1 = a + k
        BY <3>1, <4>1
      <4>3. NextLine(S[m]) = S[m + 1]
        BY <4>2, NextLineIs
      <4> QED
        BY <4>1, <4>2, <4>3
    <3> QED
      BY <1>3, <2>3, <3>1, <3>2
  <2> QED
    BY <2>2, <2>3
<1>5. E = Step(E)
  <2>1. PICK G : G = Step(E)
    OBVIOUS
  <2>2. \A k \in 0 .. n : G[k] = IF k = 0 THEN place ELSE NextLine(E[k - 1])
    BY ONLY <2>1, Zenon
  <2>3. \A k \in 0 .. n : E[k] = G[k]
    BY ONLY <1>4, <2>2, Zenon
  <2>4. E = [k \in 0 .. n |-> E[k]]
    BY ONLY <1>3
  <2>5. G = [k \in 0 .. n |-> G[k]]
    BY ONLY <2>1, Zenon
  <2>6. E = G
    BY ONLY <2>3, <2>4, <2>5
  <2> QED
    BY ONLY <2>1, <2>6, Zenon
<1>6. stream = Step(stream)
  BY ONLY <1>5
<1>7. file_seek(S[a], n) = stream[n]
  BY ONLY <1>2 DEF file_seek
<1> HIDE DEF stream
<1>8. \A k \in 0 .. n : stream[k] = IF k = 0 THEN place ELSE NextLine(stream[k - 1])
  BY ONLY <1>6, Zenon
<1> DEFINE H == {k \in 0 .. n : stream[k] = E[k]}
<1>9. 0 \in H
  <2>1. 0 \in 0 .. n
    OBVIOUS
  <2> QED
    BY ONLY <1>4, <1>8, <2>1
<1>10. ASSUME NEW k \in 1 .. n, k - 1 \in H PROVE k \in H
  <2>1. k \in 0 .. n /\ k # 0
    OBVIOUS
  <2>2. stream[k - 1] = E[k - 1]
    BY <1>10
  <2>3. stream[k] = NextLine(stream[k - 1]) /\ E[k] = NextLine(E[k - 1])
    BY ONLY <1>4, <1>8, <2>1, Zenon
  <2>4. stream[k] = E[k]
    BY ONLY <2>2, <2>3, Zenon
  <2> QED
    BY <2>1, <2>4
<1>11. \A k \in 0 .. n : k \in H
  <2> HIDE DEF H
  <2> QED
    BY <1>9, <1>10, Stepwise
<1>12. n \in 0 .. n
  OBVIOUS
<1> QED
  BY <1>3, <1>7, <1>11, <1>12

\* A number in terms of a quotient and a remainder has these.
LEMMA QuotientAndRest ==
  ASSUME NEW f \in Nat, f > 0, NEW q \in Nat, NEW r \in 0 .. f - 1
  PROVE  f * q + r \in Nat /\ (f * q + r) \div f = q /\ (f * q + r) % f = r
<1>1. PICK a : a = f * q + r
  OBVIOUS
<1>2. f * q \in Nat
  OBVIOUS
<1>3. a \in Nat
  BY <1>1, <1>2
<1>4. PICK d : d = a \div f
  OBVIOUS
<1>5. PICK m : m = a % f
  OBVIOUS
<1>6. d \in Nat /\ m \in 0 .. f - 1 /\ a = f * d + m
  BY <1>3, <1>4, <1>5, Division
<1>7. f * (q - d) = m - r
  BY <1>1, <1>6
<1>8. q = d
  <2>1. ~ (q - d >= 1)
    <3>1. q - d >= 1 => f * (q - d) >= f
      BY <1>6
    <3> QED
      BY <1>6, <1>7, <3>1
  <2>2. ~ (d - q >= 1)
    <3>1. f * (d - q) = r - m
      BY <1>6, <1>7
    <3>2. d - q >= 1 => f * (d - q) >= f
      BY <1>6
    <3> QED
      BY <1>6, <3>1, <3>2
  <2> QED
    BY <1>6, <2>1, <2>2
<1> QED
  BY <1>1, <1>3, <1>4, <1>5, <1>6, <1>8

\* The rows of a narrow glyph are where GetBitmapFromGlyphBDF looks for them.
LEMMA BitmapRead ==
  ASSUME NEW g \in 0 .. Len(Font) - 1, \A i \in 1 .. Height : Len(Font[g + 1][i]) = 2
  PROVE  \A i \in 0 .. Height - 1, j \in 0 .. 1 :
           /\ Font[g + 1][i + 1][j + 1] \in 0 .. 15
           /\ GetBitmapFromGlyphBDF(g)[i][j] = HexDigits[Font[g + 1][i + 1][j + 1] + 1]
<1>1. PICK S : Begin(S)
  BY LinesFound
<1>2. /\ Header \in Nat /\ Height \in Nat /\ Height > 0 /\ PerGlyph = Height + 7
      /\ Len(Font) \in Nat /\ g \in Nat /\ FontLines \in Nat
  BY DisplayAssumption, LinesFound DEF PerGlyph
<1>3. PICK P \in Nat : P = PerGlyph
  BY <1>2
<1>4. PICK c \in Nat : c = P * g
  BY <1>2, <1>3
<1>5. c + P <= P * Len(Font) /\ FontLines = Header + P * Len(Font) + 1
  <2>1. P * (g + 1) <= P * Len(Font)
    BY <1>2
  <2>2. P * (g + 1) = c + P
    BY <1>2, <1>4
  <2> QED
    BY <1>3, <2>1, <2>2 DEF FontLines
<1>6. PICK b \in Nat : b = Header + c + 6
  BY <1>2
<1>7. b + Height + 1 <= FontLines
  <2>1. P * Len(Font) \in Nat /\ P = Height + 7
    BY <1>2, <1>3
  <2> QED
    BY <1>2, <1>5, <1>6, <2>1
\* The rows of the glyph are the lines from b on.
<1>8. ASSUME NEW i \in 0 .. Height - 1
      PROVE  /\ FontLine(b + i) = DigitsOf(Font[g + 1][i + 1]) \o <<"\n">>
             /\ Font[g + 1][i + 1] \in Seq(0 .. 15) /\ Len(Font[g + 1][i + 1]) = 2
  <2>1. (b + i) - Header = P * g + (6 + i) /\ 6 + i \in 0 .. P - 1
    BY <1>2, <1>3, <1>4, <1>6
  <2>2. ((b + i) - Header) \div P = g /\ ((b + i) - Header) % P = 6 + i
    BY <1>2, <1>3, <2>1, QuotientAndRest
  <2>3. b + i >= Header /\ g < Len(Font) /\ (6 + i) - 5 = i + 1 /\ i + 1 \in 1 .. Height
    BY <1>2, <1>4, <1>6
  <2>4. FontLine(b + i) = DigitsOf(Font[g + 1][i + 1]) \o <<"\n">>
    BY ONLY <1>3, <2>2, <2>3 DEF FontLine
  <2>5. Font[g + 1] \in [1 .. Height -> Seq(0 .. 15)]
    <3>1. g + 1 \in 1 .. Len(Font)
      BY <1>2
    <3> QED
      BY <3>1, DisplayAssumption
  <2> QED
    BY <2>3, <2>4, <2>5
<1>9. ASSUME NEW i \in 0 .. Height - 1
      PROVE  /\ Len(FontLine(b + i)) = 3
             /\ \A j \in 0 .. 1 : /\ Font[g + 1][i + 1][j + 1] \in 0 .. 15
                                  /\ FontLine(b + i)[j + 1]
                                       = HexDigits[Font[g + 1][i + 1][j + 1] + 1]
  <2>1. PICK d : d = Font[g + 1][i + 1]
    OBVIOUS
  <2>2. d \in Seq(0 .. 15) /\ Len(d) = 2
    BY <1>8, <2>1
  <2>3. PICK x : x = DigitsOf(d) \o <<"\n">>
    OBVIOUS
  <2>4. Len(x) = Len(d) + 1 /\ \A j \in 1 .. Len(d) : x[j] = HexDigits[d[j] + 1]
    BY <2>2, <2>3, RowLine
  <2>5. \A j \in 0 .. 1 : j + 1 \in 1 .. 2
    OBVIOUS
  <2>6. \A j \in 1 .. 2 : d[j] \in 0 .. 15
    <3>1. PICK D : D = 0 .. 15
      OBVIOUS
    <3>2. d \in Seq(D) /\ Len(d) = 2
      BY ONLY <2>2, <3>1
    <3>3. \A j \in 1 .. Len(d) : d[j] \in D
      BY ONLY <3>2, ElementOfSeq
    <3>4. \A j \in 1 .. 2 : d[j] \in D
      BY ONLY <3>2, <3>3, Zenon
    <3> QED
      BY ONLY <3>1, <3>4
  <2>7. FontLine(b + i) = x
    BY <1>8, <2>1, <2>3
  <2>8. Len(x) = 3 /\ \A j \in 0 .. 1 : d[j + 1] \in 0 .. 15 /\ x[j + 1] = HexDigits[d[j + 1] + 1]
    BY ONLY <2>2, <2>4, <2>5, <2>6
  <2> QED
    BY ONLY <2>1, <2>7, <2>8
<1>10. PICK p \in Nat : p = S[b]
  <2>1. b \in 0 .. FontLines
    BY <1>2, <1>7
  <2>2. S[b] \in Nat
    BY <1>1, <2>1 DEF Begin
  <2> QED
    BY <2>2
<1> DEFINE H == {i \in 0 .. Height - 1 : S[b + i] = p + 3 * i}
<1>11. \A i \in 0 .. Height - 1 : i \in H
  <2>1. 0 \in H
    BY <1>2, <1>10
  <2>2. ASSUME NEW i \in 1 .. Height - 1, i - 1 \in H PROVE i \in H
    <3>1. i - 1 \in 0 .. Height - 1 /\ i \in 0 .. Height - 1
      BY <1>2
    <3>2. PICK m \in 0 .. FontLines - 1 : m = b + (i - 1) /\ m + 1 = b + i
      <4>1. b + (i - 1) \in 0 .. FontLines - 1 /\ (b + (i - 1)) + 1 = b + i
        BY <1>2, <1>7
      <4> QED
        BY <4>1
    <3>3. S[m] = p + 3 * (i - 1) /\ Len(FontLine(m)) = 3
      BY <1>9, <2>2, <3>1, <3>2
    <3>4. S[m + 1] = S[m] + Len(FontLine(m))
      BY <1>1 DEF Begin
    <3>5. S[b + i] = p + 3 * i
      <4>1. S[m + 1] = (p + 3 * (i - 1)) + 3
        BY ONLY <3>3, <3>4
      <4>2. (p + 3 * (i - 1)) + 3 = p + 3 * i
        BY ONLY i \in 1 .. Height - 1, p \in Nat
      <4> QED
        BY ONLY <3>2, <4>1, <4>2
    <3> QED
      BY <3>1, <3>5
  <2>3. Height - 1 \in Nat
    BY <1>2
  <2> HIDE DEF H
  <2> QED
    BY <2>1, <2>2, <2>3, Stepwise
<1>12. GetBitmapFromGlyphBDF(g) =
         [i \in 0 .. Height - 1 |-> [j \in 0 .. 1 |-> font_buf[p + 3 * i + j]]]
  <2>1. /\ FileOffset[1] = Header /\ FileOffset[2] = 7 + Height
        /\ FileOffset[3] = 1 /\ FileOffset[4] = 6
    BY DEF FileOffset
  <2>2. PICK m \in Nat : m = Header + c
    BY <1>2
  <2>3. FileOffset[1] + FileOffset[2] * g = m
    BY <1>2, <1>3, <1>4, <2>1, <2>2
  <2>4. file_seek(1, m) = S[m]
    <3>1. S[0] = 1
      BY <1>1 DEF Begin
    <3>2. 0 + m <= FontLines /\ 0 + m = m /\ 0 \in Nat
      BY <1>2, <1>6, <1>7, <2>2
    <3>3. file_seek(S[0], m) = S[0 + m]
      BY <1>1, <3>2, Seeks
    <3> QED
      BY <3>1, <3>2, <3>3
  <2>5. file_seek(S[m], 1) = S[m + 1]
    <3>1. m + 1 <= FontLines
      BY <1>2, <1>6, <1>7, <2>2
    <3> QED
      BY <1>1, <3>1, Seeks
  <2>6. file_seek(S[m + 1], 6 - 1) = S[b]
    <3>1. m + 1 \in Nat /\ 6 - 1 \in Nat /\ (m + 1) + (6 - 1) <= FontLines /\ (m + 1) + (6 - 1) = b
      BY <1>2, <1>6, <1>7, <2>2
    <3>2. file_seek(S[m + 1], 6 - 1) = S[(m + 1) + (6 - 1)]
      BY <1>1, <3>1, Seeks
    <3> QED
      BY <3>1, <3>2
  <2>7. file_seek(file_seek(file_seek(1, FileOffset[1] + FileOffset[2] * g), FileOffset[3]),
                  FileOffset[4] - FileOffset[3]) = p
    BY ONLY <1>10, <2>1, <2>3, <2>4, <2>5, <2>6
  <2> QED
    BY ONLY <2>7 DEF GetBitmapFromGlyphBDF
<1>13. ASSUME NEW i \in 0 .. Height - 1, NEW j \in 0 .. 1
       PROVE  font_buf[p + 3 * i + j] = HexDigits[Font[g + 1][i + 1][j + 1] + 1]
  <2>1. b + i \in 0 .. FontLines - 1
    BY <1>2, <1>7
  <2>2. PICK m \in 0 .. FontLines - 1 : m = b + i
    BY <2>1
  <2>3. S[m] = p + 3 * i /\ Len(FontLine(m)) = 3
    BY <1>9, <1>11, <2>2
  <2>4. j + 1 \in 1 .. 3 /\ (p + 3 * i) + (j + 1) - 1 = p + 3 * i + j
    OBVIOUS
  <2>5. font_buf[S[m] + (j + 1) - 1] = FontLine(m)[j + 1]
    BY <1>1, <2>3, <2>4 DEF Begin
  <2> QED
    BY <1>9, <2>2, <2>3, <2>4, <2>5
<1> QED
  BY <1>9, <1>12, <1>13
-----------------------------------------------------------------------------
DotPlaces == (0 .. Height - 1) \X (0 .. Width - 1)

\* A narrow glyph is read from the text as the font has it.
THEOREM GlyphsRead == \A ch \in NarrowOnes : ASIIC_versions[ch] = Shape[ch]
<1> SUFFICES ASSUME NEW ch \in NarrowOnes PROVE ASIIC_versions[ch] = Shape[ch]
  OBVIOUS
<1>1. ch \in Visible /\ Narrow(ch)
  BY DEF NarrowOnes
<1>2. PICK g \in 0 .. Len(Font) - 1 : g = Code[ch]
  BY <1>1, DisplayAssumption
<1>3. \A i \in 1 .. Height : Len(Font[g + 1][i]) = 2
  BY <1>1, <1>2 DEF Narrow
<1>4. \A i \in 0 .. Height - 1, j \in 0 .. 1 :
        /\ Font[g + 1][i + 1][j + 1] \in 0 .. 15
        /\ GetBitmapFromGlyphBDF(g)[i][j] = HexDigits[Font[g + 1][i + 1][j + 1] + 1]
  BY <1>3, BitmapRead
<1>5. ASSUME NEW dot \in DotPlaces
      PROVE  GetBitmapFromGlyphBDF(g)[dot[1]][dot[2] \div 4] \in Lights[(dot[2] % 4) + 1]
               <=> Shows(ch, dot[1], dot[2])
  <2>1. PICK i \in 0 .. Height - 1 : i = dot[1]
    BY DEF DotPlaces
  <2>2. PICK j \in 0 .. 7 : j = dot[2]
    BY DEF DotPlaces, Width
  <2>3. PICK q \in 0 .. 1 : q = j \div 4
    OBVIOUS
  <2>4. PICK k \in 0 .. 3 : k = j % 4
    OBVIOUS
  <2>5. PICK d : d = Font[g + 1][i + 1][q + 1]
    OBVIOUS
  <2>6. d \in 0 .. 15 /\ GetBitmapFromGlyphBDF(g)[i][q] = HexDigits[d + 1]
    BY <1>4, <2>5
  <2>7. HexDigits[d + 1] \in Lights[k + 1] <=> Bit(d, k)
    BY <2>6, LightsFacts
  <2>8. Shows(ch, i, j) <=> Bit(d, k)
    BY ONLY <1>2, <2>3, <2>4, <2>5 DEF Shows
  <2> QED
    BY ONLY <2>1, <2>2, <2>3, <2>4, <2>6, <2>7, <2>8
<1>6. ASIIC_versions[ch] =
        {dot \in DotPlaces :
           GetBitmapFromGlyphBDF(g)[dot[1]][dot[2] \div 4] \in Lights[(dot[2] % 4) + 1]}
  BY ONLY <1>1, <1>2, Zenon DEF ASIIC_versions, DotPlaces
<1>7. Shape[ch] = {dot \in DotPlaces : Shows(ch, dot[1], dot[2])}
  BY ONLY <1>1, Zenon DEF Shape, DotPlaces
<1> QED
  BY ONLY <1>5, <1>6, <1>7, Zenon

\* The dots of a glyph are in its cell, and a blank has none.
LEMMA DotFacts ==
  /\ \A ch \in Visible : ASIIC_versions[ch] \subseteq DotPlaces
  /\ ASIIC_versions[Blank] = {}
  /\ Blank \in Visible
<1>1. \A ch \in Visible : ASIIC_versions[ch] \subseteq DotPlaces
  BY DEF ASIIC_versions, DotPlaces
<1>2. Blank \in NarrowOnes /\ Blank \in Visible
  BY ConsoleAssumption, DisplayAssumption DEF NarrowOnes
<1>3. ASSUME NEW i \in 0 .. Height - 1, NEW j \in 0 .. Width - 1
      PROVE  ~ Shows(Blank, i, j)
  <2>1. Font[Code[Blank] + 1][i + 1] = <<0, 0>>
    <3>1. i + 1 \in 1 .. Height
      BY DisplayAssumption
    <3> QED
      BY <3>1, DisplayAssumption
  <2>2. PICK q \in 0 .. 1 : q = j \div 4
    BY DEF Width
  <2>3. PICK k \in 0 .. 3 : k = j % 4
    BY DEF Width
  <2>4. <<0, 0>>[q + 1] = 0
    OBVIOUS
  <2>5. ~ Bit(0, k)
    BY DEF Bit
  <2> QED
    BY ONLY <2>1, <2>2, <2>3, <2>4, <2>5 DEF Shows
<1>4. Shape[Blank] = {}
  BY ONLY <1>2, <1>3 DEF Shape
<1> QED
  BY <1>1, <1>2, <1>4, GlyphsRead
-----------------------------------------------------------------------------
\* Where a pixel is: its row of pixels, and its place in that row.
LineUp == Max_Column * Width

LEMMA OffsetFacts ==
  ASSUME NEW r \in Nat, NEW c \in 0 .. Max_Column - 1,
         NEW i \in 0 .. Height - 1, NEW j \in 0 .. Width - 1
  PROVE  /\ OffsetOf(r, c, i, j) \in Nat
         /\ (OffsetOf(r, c, i, j) \div LineUp) \div Height = r
         /\ (OffsetOf(r, c, i, j) \div LineUp) % Height = i
         /\ (OffsetOf(r, c, i, j) % LineUp) \div Width = c
         /\ (OffsetOf(r, c, i, j) % LineUp) % Width = j
         /\ OffsetOf(r, c, i, j) = ((r * Height + i) * Max_Column + c) * Width + j
         /\ OffsetOf(r + 1, c, i, j) = OffsetOf(r, c, i, j) + RowUp
         /\ r = 0 => OffsetOf(r, c, i, j) < RowUp
         /\ r < Max_Row => OffsetOf(r, c, i, j) < Max_Row * Height * Max_Column * Width
<1>1. PICK H \in Nat : H = Height /\ H > 0
  BY DisplayAssumption
<1>2. PICK M \in Nat : M = Max_Column /\ M > 0
  BY ConsoleAssumption
<1>3. PICK R \in Nat : R = Max_Row
  BY ConsoleAssumption
<1>4. c \in 0 .. M - 1 /\ i \in 0 .. H - 1 /\ j \in 0 .. 7
  BY <1>1, <1>2 DEF Width
<1>5. PICK L \in Nat : L = LineUp /\ L = M * 8 /\ L > 0
  BY <1>2 DEF LineUp, Width
<1>6. PICK m : m = 8 * c + j
  OBVIOUS
<1>7. m \in 0 .. L - 1 /\ m \div 8 = c /\ m % 8 = j
  <2>1. c \in Nat /\ j \in 0 .. 8 - 1
    BY <1>4
  <2>2. m \in Nat /\ m \div 8 = c /\ m % 8 = j
    BY <1>6, <2>1, QuotientAndRest
  <2> QED
    BY <1>4, <1>5, <1>6, <2>2
<1>8. PICK q : q = H * r + i
  OBVIOUS
<1>9. q \in Nat /\ q \div H = r /\ q % H = i
  BY <1>1, <1>4, <1>8, QuotientAndRest
<1>10. PICK o : o = L * q + m
  OBVIOUS
<1>11. o \in Nat /\ o \div L = q /\ o % L = m
  BY <1>5, <1>7, <1>9, <1>10, QuotientAndRest
<1>12. r * H + i = q /\ (r + 1) * H + i = q + H
  BY ONLY <1>8, H \in Nat, r \in Nat, <1>4
<1>13. OffsetOf(r, c, i, j) = o
  <2>1. q * 8 * M + c * 8 + j = o
    BY ONLY <1>4, <1>5, <1>6, <1>9, <1>10, M \in Nat
  <2> QED
    BY ONLY <1>1, <1>2, <1>12, <2>1 DEF OffsetOf, Width
<1>14. PICK U \in Nat : U = RowUp /\ U = L * H
  <2>1. RowUp = H * 8 * M
    BY <1>1, <1>2 DEF RowUp, Width
  <2>2. H * 8 * M = L * H /\ L * H \in Nat
    BY ONLY <1>5, M \in Nat, H \in Nat, L \in Nat
  <2> QED
    BY <2>1, <2>2
<1>15. OffsetOf(r + 1, c, i, j) = o + U
  <2>1. (q + H) * 8 * M + c * 8 + j = (L * q + m) + L * H
    BY ONLY <1>4, <1>5, <1>6, <1>9, M \in Nat, H \in Nat
  <2> QED
    BY ONLY <1>1, <1>2, <1>10, <1>12, <1>14, <2>1 DEF OffsetOf, Width
<1>16. r = 0 => o < U
  <2>1. SUFFICES ASSUME r = 0 PROVE o < U
    OBVIOUS
  <2>2. q = i
    BY ONLY <1>4, <1>8, <2>1, H \in Nat
  <2>3. q + 1 <= H
    BY ONLY <1>4, <2>2, H \in Nat
  <2>4. L * (q + 1) <= L * H
    BY ONLY <1>9, <2>3, H \in Nat, L \in Nat
  <2>5. L * (q + 1) = L * q + L
    BY ONLY <1>9, L \in Nat
  <2> QED
    BY ONLY <1>7, <1>9, <1>10, <1>14, <2>4, <2>5, L \in Nat
<1>17. r < Max_Row => o < Max_Row * Height * Max_Column * Width
  <2>1. SUFFICES ASSUME r < R PROVE o < Max_Row * Height * Max_Column * Width
    BY <1>3
  <2>2. PICK T \in Nat : T = R * H
    OBVIOUS
  <2>3. q + 1 <= T
    <3>1. H * (r + 1) <= H * R
      BY ONLY <2>1, H \in Nat, R \in Nat, r \in Nat
    <3>2. H * (r + 1) = H * r + H /\ H * R = R * H
      BY ONLY H \in Nat, R \in Nat, r \in Nat
    <3> QED
      BY ONLY <1>4, <1>8, <2>2, <3>1, <3>2, H \in Nat, r \in Nat
  <2>4. L * (q + 1) <= L * T
    BY ONLY <1>9, <2>2, <2>3, L \in Nat
  <2>5. L * (q + 1) = L * q + L
    BY ONLY <1>9, L \in Nat
  <2>6. Max_Row * Height * Max_Column * Width = L * T
    <3>1. R * H * M * 8 = T * M * 8
      BY ONLY <2>2
    <3>2. T * M * 8 = L * T
      BY ONLY <1>5, <2>2, M \in Nat
    <3> QED
      BY ONLY <1>1, <1>2, <1>3, <3>1, <3>2 DEF Width
  <2>7. o < L * T
    <3>1. L * T \in Nat /\ L * q \in Nat
      BY ONLY <1>9, <2>2, L \in Nat
    <3> QED
      BY ONLY <1>7, <1>9, <1>10, <2>4, <2>5, <3>1, L \in Nat
  <2> QED
    BY ONLY <2>6, <2>7
<1>18. OffsetOf(r, c, i, j) = ((r * Height + i) * Max_Column + c) * Width + j
  <2>1. (q * M + c) * 8 + j = o
    BY ONLY <1>4, <1>5, <1>6, <1>9, <1>10, M \in Nat
  <2> QED
    BY ONLY <1>1, <1>2, <1>12, <1>13, <2>1 DEF Width
<1> QED
  BY ONLY <1>1, <1>5, <1>7, <1>9, <1>11, <1>13, <1>14, <1>15, <1>16, <1>17, <1>18 DEF Width

\* Two pixels never have one offset.
LEMMA OffsetsDiffer ==
  ASSUME NEW r \in Nat, NEW c \in 0 .. Max_Column - 1,
         NEW i \in 0 .. Height - 1, NEW j \in 0 .. Width - 1,
         NEW s \in Nat, NEW d \in 0 .. Max_Column - 1,
         NEW k \in 0 .. Height - 1, NEW l \in 0 .. Width - 1,
         OffsetOf(r, c, i, j) = OffsetOf(s, d, k, l)
  PROVE  r = s /\ c = d /\ i = k /\ j = l
<1>1. PICK o : o = OffsetOf(r, c, i, j)
  OBVIOUS
<1>2. /\ (o \div LineUp) \div Height = r /\ (o \div LineUp) % Height = i
      /\ (o % LineUp) \div Width = c /\ (o % LineUp) % Width = j
  BY <1>1, OffsetFacts
<1>3. /\ (o \div LineUp) \div Height = s /\ (o \div LineUp) % Height = k
      /\ (o % LineUp) \div Width = d /\ (o % LineUp) % Width = l
  BY <1>1, OffsetFacts
<1> QED
  BY ONLY <1>2, <1>3
-----------------------------------------------------------------------------
(***************************************************************************)
(* The invariant: the white pixels are, offset by offset, the dots of what *)
(* stands in the cells, and every white pixel is one of a cell.            *)
(***************************************************************************)
IsPixel(w) ==
  \E r \in 0 .. Max_Row - 1, c \in 0 .. Max_Column - 1,
     i \in 0 .. Height - 1, j \in 0 .. Width - 1 : w = OffsetOf(r, c, i, j)

LitIs(white, screen) ==
  /\ \A w \in white : IsPixel(w)
  /\ \A r \in 0 .. Max_Row - 1, c \in 0 .. Max_Column - 1,
        i \in 0 .. Height - 1, j \in 0 .. Width - 1 :
       OffsetOf(r, c, i, j) \in white <=> <<i, j>> \in ASIIC_versions[screen[<<r, c>>]]

\* A scroll moves the pixels as it moves the characters.
LEMMA ScrollLights ==
  ASSUME NEW white, NEW screen \in [Cells -> Visible], LitIs(white, screen)
  PROVE  LitIs(ScrolledUp(white), Scroll_Screen(screen))
<1> USE ConsoleAssumption
<1>0. RowUp \in Int
  <2>1. Height \in Nat
    BY DisplayAssumption
  <2> QED
    BY <2>1 DEF RowUp, Width
<1>1. ASSUME NEW w \in ScrolledUp(white) PROVE IsPixel(w)
  <2>1. PICK v \in white : v >= RowUp /\ w = v - RowUp
    BY <1>1 DEF ScrolledUp
  <2>2. PICK r \in 0 .. Max_Row - 1, c \in 0 .. Max_Column - 1,
             i \in 0 .. Height - 1, j \in 0 .. Width - 1 : v = OffsetOf(r, c, i, j)
    BY DEF LitIs, IsPixel
  <2>3. r # 0
    <3>1. r \in Nat /\ v \in Nat /\ (r = 0 => v < RowUp)
      BY <2>2, OffsetFacts
    <3> QED
      BY <1>0, <2>1, <3>1
  <2>4. PICK s \in 0 .. Max_Row - 1 : r = s + 1
    <3>1. r - 1 \in 0 .. Max_Row - 1 /\ r = (r - 1) + 1
      BY <2>3
    <3> QED
      BY <3>1
  <2>5. OffsetOf(s, c, i, j) \in Nat /\ v = OffsetOf(s, c, i, j) + RowUp
    BY <2>2, <2>4, OffsetFacts
  <2>6. w = OffsetOf(s, c, i, j)
    BY <1>0, <2>1, <2>5
  <2> QED
    BY <2>6 DEF IsPixel
<1>2. ASSUME NEW r \in 0 .. Max_Row - 1, NEW c \in 0 .. Max_Column - 1,
             NEW i \in 0 .. Height - 1, NEW j \in 0 .. Width - 1
      PROVE  OffsetOf(r, c, i, j) \in ScrolledUp(white)
               <=> <<i, j>> \in ASIIC_versions[Scroll_Screen(screen)[<<r, c>>]]
  <2>1. PICK o \in Nat : o = OffsetOf(r, c, i, j)
    BY OffsetFacts
  <2>2. OffsetOf(r + 1, c, i, j) = o + RowUp /\ r + 1 \in Nat
    BY <2>1, OffsetFacts
  <2>3. RowUp \in Nat
    <3>1. Height \in Nat
      BY DisplayAssumption
    <3>2. Height * 8 * Max_Column \in Nat
      BY <3>1
    <3> QED
      BY <3>2 DEF RowUp, Width
  <2>4. o \in ScrolledUp(white) <=> o + RowUp \in white
    <3>1. ASSUME o \in ScrolledUp(white) PROVE o + RowUp \in white
      <4>1. PICK v \in white : v >= RowUp /\ o = v - RowUp
        BY <3>1 DEF ScrolledUp
      <4>2. v \in Nat
        <5>1. PICK s \in 0 .. Max_Row - 1, d \in 0 .. Max_Column - 1,
                   k \in 0 .. Height - 1, l \in 0 .. Width - 1 : v = OffsetOf(s, d, k, l)
          BY DEF LitIs, IsPixel
        <5> QED
          BY <5>1, OffsetFacts
      <4>3. v = o + RowUp
        BY <2>3, <4>1, <4>2
      <4> QED
        BY <4>3
    <3>2. ASSUME o + RowUp \in white PROVE o \in ScrolledUp(white)
      <4>1. o + RowUp >= RowUp /\ o = (o + RowUp) - RowUp
        BY <2>3
      <4> QED
        BY <3>2, <4>1 DEF ScrolledUp
    <3> QED
      BY <3>1, <3>2
  <2>5. <<r, c>> \in Cells
    BY DEF Cells
  <2>6. CASE r + 1 < Max_Row
    <3>1. r + 1 \in 0 .. Max_Row - 1
      BY <2>6
    <3>2. o + RowUp \in white <=> <<i, j>> \in ASIIC_versions[screen[<<r + 1, c>>]]
      BY <2>2, <3>1 DEF LitIs
    <3>3. Scroll_Screen(screen)[<<r, c>>] = screen[<<r + 1, c>>]
      <4>1. <<r, c>>[1] = r /\ <<r, c>>[2] = c /\ r < Max_Row - 1
        BY <2>6
      <4> QED
        BY ONLY <2>5, <4>1 DEF Scroll_Screen
    <3> QED
      BY ONLY <2>1, <2>4, <3>2, <3>3
  <2>7. CASE ~ (r + 1 < Max_Row)
    <3>1. Scroll_Screen(screen)[<<r, c>>] = Blank
      <4>1. <<r, c>>[1] = r /\ ~ (r < Max_Row - 1)
        BY <2>7
      <4> QED
        BY ONLY <2>5, <4>1 DEF Scroll_Screen
    <3>2. <<i, j>> \notin ASIIC_versions[Blank]
      BY DotFacts
    <3>3. o + RowUp \notin white
      <4>1. SUFFICES ASSUME o + RowUp \in white PROVE FALSE
        OBVIOUS
      <4>2. PICK s \in 0 .. Max_Row - 1, d \in 0 .. Max_Column - 1,
                 k \in 0 .. Height - 1, l \in 0 .. Width - 1 :
                   o + RowUp = OffsetOf(s, d, k, l)
        BY <4>1 DEF LitIs, IsPixel
      <4>3. r + 1 = s
        BY <2>2, <4>2, OffsetsDiffer
      <4> QED
        BY <2>7, <4>3
    <3> QED
      BY ONLY <2>1, <2>4, <3>1, <3>2, <3>3
  <2> QED
    BY <2>6, <2>7
<1> QED
  BY <1>1, <1>2 DEF LitIs

\* A character drawn changes the pixels of its cell, and no others.
LEMMA CharLights ==
  ASSUME NEW white, NEW screen \in [Cells -> Visible], LitIs(white, screen),
         NEW r \in 0 .. Max_Row - 1, NEW c \in 0 .. Max_Column - 1, NEW ch \in Visible
  PROVE  LitIs(WritePGMData(white, r, c, ch), WriteChar(screen, r, c, ch))
<1>1. PICK before : before = {OffsetOf(r, c, dot[1], dot[2]) : dot \in DotPlaces}
  OBVIOUS
<1>2. PICK after : after = {OffsetOf(r, c, dot[1], dot[2]) : dot \in ASIIC_versions[ch]}
  OBVIOUS
<1>3. PICK new : new = WritePGMData(white, r, c, ch)
  OBVIOUS
<1>4. new = (white \ before) \cup after
  BY ONLY <1>1, <1>2, <1>3 DEF WritePGMData, DotPlaces
<1>5. \A k \in 0 .. Height - 1, l \in 0 .. Width - 1 :
        /\ <<k, l>> \in DotPlaces /\ <<k, l>>[1] = k /\ <<k, l>>[2] = l
        /\ OffsetOf(r, c, k, l) \in before
        /\ <<k, l>> \in ASIIC_versions[ch] => OffsetOf(r, c, k, l) \in after
  <2>1. \A k \in 0 .. Height - 1, l \in 0 .. Width - 1 :
          <<k, l>> \in DotPlaces /\ <<k, l>>[1] = k /\ <<k, l>>[2] = l
    BY DEF DotPlaces
  <2>2. ASSUME NEW k \in 0 .. Height - 1, NEW l \in 0 .. Width - 1
        PROVE  /\ OffsetOf(r, c, k, l) \in before
               /\ <<k, l>> \in ASIIC_versions[ch] => OffsetOf(r, c, k, l) \in after
    <3>1. PICK dot \in DotPlaces : dot = <<k, l>> /\ dot[1] = k /\ dot[2] = l
      BY <2>1
    <3>2. /\ OffsetOf(r, c, dot[1], dot[2]) \in before
          /\ dot \in ASIIC_versions[ch] => OffsetOf(r, c, dot[1], dot[2]) \in after
      BY ONLY <1>1, <1>2
    <3> QED
      BY ONLY <3>1, <3>2
  <2> QED
    BY ONLY <2>1, <2>2
<1>6. ASSUME NEW w \in before
      PROVE  \E k \in 0 .. Height - 1, l \in 0 .. Width - 1 : w = OffsetOf(r, c, k, l)
  <2>1. PICK dot \in DotPlaces : w = OffsetOf(r, c, dot[1], dot[2])
    BY <1>1
  <2> QED
    BY <2>1 DEF DotPlaces
<1>7. ASSUME NEW w \in after
      PROVE  \E k \in 0 .. Height - 1, l \in 0 .. Width - 1 :
               <<k, l>> \in ASIIC_versions[ch] /\ w = OffsetOf(r, c, k, l)
  <2>1. PICK dot \in ASIIC_versions[ch] : w = OffsetOf(r, c, dot[1], dot[2])
    BY <1>2
  <2>2. PICK k \in 0 .. Height - 1, l \in 0 .. Width - 1 : dot = <<k, l>>
    <3>1. dot \in DotPlaces
      BY DotFacts
    <3> QED
      BY <3>1 DEF DotPlaces
  <2>3. w = OffsetOf(r, c, k, l)
    BY ONLY <1>5, <2>1, <2>2
  <2> QED
    BY <2>1, <2>2, <2>3
<1>8. ASSUME NEW w \in new PROVE IsPixel(w)
  <2>1. CASE w \in white
    BY <2>1 DEF LitIs
  <2>2. CASE w \in after
    <3>1. PICK k \in 0 .. Height - 1, l \in 0 .. Width - 1 : w = OffsetOf(r, c, k, l)
      BY <1>7, <2>2
    <3> QED
      BY <3>1 DEF IsPixel
  <2> QED
    BY <1>4, <1>8, <2>1, <2>2
<1>9. ASSUME NEW s \in 0 .. Max_Row - 1, NEW d \in 0 .. Max_Column - 1,
             NEW i \in 0 .. Height - 1, NEW j \in 0 .. Width - 1
      PROVE  OffsetOf(s, d, i, j) \in new
               <=> <<i, j>> \in ASIIC_versions[WriteChar(screen, r, c, ch)[<<s, d>>]]
  <2>0. s \in Nat /\ r \in Nat
    OBVIOUS
  <2>1. PICK o : o = OffsetOf(s, d, i, j)
    OBVIOUS
  <2>2. <<s, d>> \in DOMAIN screen
    BY DEF Cells
  <2>3. o \in white <=> <<i, j>> \in ASIIC_versions[screen[<<s, d>>]]
    BY <2>1 DEF LitIs
  <2>4. CASE s = r /\ d = c
    <3>1. WriteChar(screen, r, c, ch)[<<s, d>>] = ch
      BY ONLY <2>2, <2>4 DEF WriteChar
    <3>2. o \in before
      BY ONLY <1>5, <1>9, <2>1, <2>4
    <3>3. o \in after => <<i, j>> \in ASIIC_versions[ch]
      <4>1. SUFFICES ASSUME o \in after PROVE <<i, j>> \in ASIIC_versions[ch]
        OBVIOUS
      <4>2. PICK k \in 0 .. Height - 1, l \in 0 .. Width - 1 :
              <<k, l>> \in ASIIC_versions[ch] /\ o = OffsetOf(r, c, k, l)
        BY <1>7, <4>1
      <4>3. i = k /\ j = l
        <5>1. OffsetOf(s, d, i, j) = OffsetOf(r, c, k, l)
          BY <2>1, <4>2
        <5> QED
          BY <2>0, <5>1, OffsetsDiffer
      <4> QED
        BY <4>2, <4>3
    <3>4. <<i, j>> \in ASIIC_versions[ch] => o \in after
      BY ONLY <1>5, <1>9, <2>1, <2>4
    <3> QED
      BY ONLY <1>4, <2>1, <3>1, <3>2, <3>3, <3>4
  <2>5. CASE ~ (s = r /\ d = c)
    <3>1. WriteChar(screen, r, c, ch)[<<s, d>>] = screen[<<s, d>>]
      <4>1. <<s, d>> # <<r, c>>
        BY <2>5
      <4> QED
        BY ONLY <2>2, <4>1 DEF WriteChar
    <3>2. \A k \in 0 .. Height - 1, l \in 0 .. Width - 1 : o # OffsetOf(r, c, k, l)
      <4>1. SUFFICES ASSUME NEW k \in 0 .. Height - 1, NEW l \in 0 .. Width - 1,
                            o = OffsetOf(r, c, k, l)
                     PROVE  FALSE
        OBVIOUS
      <4>2. OffsetOf(s, d, i, j) = OffsetOf(r, c, k, l)
        BY <2>1, <4>1
      <4>3. s = r /\ d = c
        BY <2>0, <4>2, OffsetsDiffer
      <4> QED
        BY <2>5, <4>3
    <3>3. o \notin before /\ o \notin after
      BY ONLY <1>6, <1>7, <3>2
    <3> QED
      BY ONLY <1>4, <2>1, <2>3, <3>1, <3>3
  <2> QED
    BY <2>4, <2>5
<1>10. LitIs(new, WriteChar(screen, r, c, ch))
  BY ONLY <1>8, <1>9 DEF LitIs
<1> QED
  BY <1>3, <1>10

\* A turn of the loop of WriteLine does to the pixels what it does to the cells.
LEMMA TurnLights ==
  ASSUME ConsoleInv, LitIs(lit, frame_buffer), NEW ch \in Characters, WriteLine(ch)
  PROVE  LitIs(DrawnPixels(ch), frame_buffer')
<1> DEFINE c0 == ColumnAfter(ch)
           c  == IF Wraps(c0) THEN c0 - Max_Column ELSE c0
           r0 == IF Wraps(c0) THEN RowAfter(ch) + 1 ELSE RowAfter(ch)
           r  == IF Scrolls(r0) THEN r0 - 1 ELSE r0
           screen == IF Scrolls(r0) THEN Scroll_Screen(frame_buffer) ELSE frame_buffer
           white  == IF Scrolls(r0) THEN ScrolledUp(lit) ELSE lit
<1>1. /\ row' = r
      /\ column' = IF ch \in Visible THEN c + 1 ELSE c
      /\ frame_buffer' = IF ch \in Visible THEN WriteChar(screen, r, c, ch) ELSE screen
  BY DEF WriteLine
<1>2. DrawnPixels(ch) = IF ch \in Visible THEN WritePGMData(white, row', column' - 1, ch)
                                           ELSE white
  BY DEF DrawnPixels
<1>3. frame_buffer \in [Cells -> Visible] /\ column \in 0 .. Max_Column
  BY DEF ConsoleInv, ScreenOK
<1>4. row' \in 0 .. Max_Row - 1
  BY Turn DEF ConsoleInv, ScreenOK
<1>5. ch \in Visible => c0 = column
  BY ConsoleAssumption DEF ColumnAfter, NewLines
<1>6. ch \in Visible => c \in 0 .. Max_Column - 1
  BY <1>3, <1>5, ConsoleAssumption DEF Wraps
<1>7. screen \in [Cells -> Visible] /\ LitIs(white, screen)
  <2>1. CASE Scrolls(r0)
    <3>1. Scroll_Screen(frame_buffer) \in [Cells -> Visible]
      <4>1. SUFFICES ASSUME NEW cell \in Cells
                     PROVE  cell[1] < Max_Row - 1
                              => frame_buffer[<<cell[1] + 1, cell[2]>>] \in Visible
        BY DotFacts DEF Scroll_Screen
      <4>2. cell[1] < Max_Row - 1 => <<cell[1] + 1, cell[2]>> \in Cells
        BY ConsoleAssumption DEF Cells
      <4> QED
        BY <1>3, <4>2
    <3>2. LitIs(ScrolledUp(lit), Scroll_Screen(frame_buffer))
      BY <1>3, ScrollLights
    <3> HIDE DEF r0
    <3> QED
      BY <2>1, <3>1, <3>2
  <2>2. CASE ~ Scrolls(r0)
    <3> HIDE DEF r0
    <3> QED
      BY <1>3, <2>2
  <2> QED
    BY <2>1, <2>2
<1> HIDE DEF c0, c, r0, r, screen, white
<1>8. CASE ch \in Visible
  <2>1. column' - 1 = c /\ c \in 0 .. Max_Column - 1
    BY <1>1, <1>6, <1>8, ConsoleAssumption
  <2>2. LitIs(WritePGMData(white, row', c, ch), WriteChar(screen, row', c, ch))
    BY <1>4, <1>7, <1>8, <2>1, CharLights
  <2> QED
    BY ONLY <1>1, <1>2, <1>8, <2>1, <2>2
<1>9. CASE ch \notin Visible
  BY ONLY <1>1, <1>2, <1>7, <1>9
<1> QED
  BY <1>8, <1>9
-----------------------------------------------------------------------------
DisplayedInv == TerminalInv /\ LitIs(lit, frame_buffer)

LEMMA DisplayedInitial == DisplayedInit => DisplayedInv
<1> SUFFICES ASSUME DisplayedInit PROVE DisplayedInv
  OBVIOUS
<1>1. TerminalInv
  BY TerminalInitial DEF DisplayedInit
<1>2. lit = {}
  BY DotFacts DEF DisplayedInit, FrameBufferClear
<1>3. \A r \in 0 .. Max_Row - 1, c \in 0 .. Max_Column - 1 : frame_buffer[<<r, c>>] = Blank
  BY DEF DisplayedInit, TerminalInit, DisplayInit, Cells
<1> QED
  BY <1>1, <1>2, <1>3, DotFacts DEF DisplayedInv, LitIs

LEMMA DisplayedStep == DisplayedInv /\ [DisplayedNext]_displayVars => DisplayedInv'
<1> SUFFICES ASSUME DisplayedInv, [DisplayedNext]_displayVars PROVE DisplayedInv'
  OBVIOUS
<1>1. TerminalInv /\ LitIs(lit, frame_buffer)
  BY DEF DisplayedInv
<1>2. TerminalInv'
  <2>1. [TerminalNext]_terminalVars
    BY DEF DisplayedNext, displayVars, TerminalNext
  <2> QED
    BY <1>1, <2>1, TerminalStep
<1>3. CASE PrintFirst /\ lit' = DrawnPixels(Head(string))
  <2>1. Head(string) \in Characters
    <3>1. string # <<>> /\ string \in Seq(Bytes) /\ Head(string) # Zero
      BY <1>1, <1>3 DEF PrintFirst, TerminalInv, StringOK
    <3> QED
      BY <3>1, TerminalAssumption
  <2>2. LitIs(DrawnPixels(Head(string)), frame_buffer')
    BY <1>1, <1>3, <2>1, TurnLights DEF PrintFirst, TerminalInv
  <2>3. LitIs(lit', frame_buffer')
    BY ONLY <1>3, <2>2
  <2> QED
    BY <1>2, <2>3 DEF DisplayedInv, LitIs, IsPixel, OffsetOf
<1>4. CASE UNCHANGED <<lit, frame_buffer>>
  BY <1>1, <1>2, <1>4 DEF DisplayedInv, LitIs
<1>5. \/ PrintFirst /\ lit' = DrawnPixels(Head(string))
      \/ UNCHANGED <<lit, frame_buffer>>
  BY DEF DisplayedNext, displayVars, terminalVars, consoleVars, Write, Read,
         stdio_write, PrintEnds
<1> QED
  BY <1>3, <1>4, <1>5

\* What the invariant says of the screen as a whole.
LEMMA LitShows == DisplayedInv => GlyphsShown
<1> SUFFICES ASSUME DisplayedInv PROVE GlyphsShown
  OBVIOUS
<1>1. frame_buffer \in [Cells -> Visible] /\ LitIs(lit, frame_buffer)
  BY DEF DisplayedInv, TerminalInv, ConsoleInv, ScreenOK
<1> DEFINE narrow == {cell \in Cells : frame_buffer[cell] \in NarrowOnes}
           PixelRow(w) == w \div (Max_Column * Width)
           CellOf(w) == <<PixelRow(w) \div Height, (w % (Max_Column * Width)) \div Width>>
           Place(cell, dot) == ((cell[1] * Height + dot[1]) * Max_Column + cell[2]) * Width + dot[2]
           Drawn(cell) == {Place(cell, dot) : dot \in Shape[frame_buffer[cell]]}
<1>2. ASSUME NEW r \in 0 .. Max_Row - 1, NEW c \in 0 .. Max_Column - 1,
             NEW i \in 0 .. Height - 1, NEW j \in 0 .. Width - 1
      PROVE  /\ CellOf(OffsetOf(r, c, i, j)) = <<r, c>>
             /\ Place(<<r, c>>, <<i, j>>) = OffsetOf(r, c, i, j)
             /\ OffsetOf(r, c, i, j) \in 0 .. Max_Row * Height * Max_Column * Width - 1
  <2>1. PICK o : o = OffsetOf(r, c, i, j)
    OBVIOUS
  <2>2. r \in Nat /\ r < Max_Row
    BY ConsoleAssumption
  <2>3. /\ o \in Nat
        /\ (o \div LineUp) \div Height = r
        /\ (o % LineUp) \div Width = c
        /\ o = ((r * Height + i) * Max_Column + c) * Width + j
        /\ o < Max_Row * Height * Max_Column * Width
    BY <2>1, <2>2, OffsetFacts
  <2>4. CellOf(o) = <<r, c>>
    BY ONLY <2>3 DEF LineUp
  <2>5. Place(<<r, c>>, <<i, j>>) = o
    <3>1. <<r, c>>[1] = r /\ <<r, c>>[2] = c /\ <<i, j>>[1] = i /\ <<i, j>>[2] = j
      OBVIOUS
    <3> QED
      BY ONLY <2>3, <3>1
  <2>6. o \in 0 .. Max_Row * Height * Max_Column * Width - 1
    <3>1. PICK n : n = Max_Row * Height * Max_Column * Width
      OBVIOUS
    <3>2. n \in Int
      BY <3>1, ConsoleAssumption, DisplayAssumption DEF Width
    <3> QED
      BY ONLY <2>3, <3>1, <3>2
  <2> QED
    BY ONLY <2>1, <2>4, <2>5, <2>6
<1>3. \A w \in lit : IsPixel(w)
  BY <1>1 DEF LitIs
<1>4. lit \subseteq 0 .. Max_Row * Height * Max_Column * Width - 1
  BY <1>2, <1>3 DEF IsPixel
<1>5. \A ch \in NarrowOnes : ASIIC_versions[ch] = Shape[ch] /\ Shape[ch] \subseteq DotPlaces
  BY GlyphsRead, DotFacts DEF NarrowOnes
<1>6. ASSUME NEW r \in 0 .. Max_Row - 1, NEW c \in 0 .. Max_Column - 1,
             NEW i \in 0 .. Height - 1, NEW j \in 0 .. Width - 1, <<r, c>> \in narrow
      PROVE  OffsetOf(r, c, i, j) \in lit <=> <<i, j>> \in Shape[frame_buffer[<<r, c>>]]
  <2>1. OffsetOf(r, c, i, j) \in lit <=> <<i, j>> \in ASIIC_versions[frame_buffer[<<r, c>>]]
    BY <1>1 DEF LitIs
  <2> QED
    BY <1>5, <1>6, <2>1
<1>7. ASSUME NEW w \in lit, CellOf(w) \in narrow
      PROVE  \E cell \in narrow : w \in Drawn(cell)
  <2>1. PICK r \in 0 .. Max_Row - 1, c \in 0 .. Max_Column - 1,
             i \in 0 .. Height - 1, j \in 0 .. Width - 1 : w = OffsetOf(r, c, i, j)
    BY <1>3 DEF IsPixel
  <2>2. CellOf(w) = <<r, c>> /\ Place(<<r, c>>, <<i, j>>) = w
    BY <1>2, <2>1
  <2> HIDE DEF CellOf, narrow, Place
  <2>3. <<r, c>> \in narrow
    BY ONLY <1>7, <2>2
  <2>4. <<i, j>> \in Shape[frame_buffer[<<r, c>>]]
    BY <1>6, <2>1, <2>3
  <2>5. w \in Drawn(<<r, c>>)
    BY ONLY <2>2, <2>4
  <2> HIDE DEF Drawn
  <2> QED
    BY <2>3, <2>5
<1>8. ASSUME NEW cell \in narrow, NEW w \in Drawn(cell)
      PROVE  w \in lit /\ CellOf(w) \in narrow
  <2>1. PICK dot \in Shape[frame_buffer[cell]] : w = Place(cell, dot)
    BY <1>8
  <2>2. PICK r \in 0 .. Max_Row - 1, c \in 0 .. Max_Column - 1 : cell = <<r, c>>
    BY DEF Cells
  <2>3. PICK i \in 0 .. Height - 1, j \in 0 .. Width - 1 : dot = <<i, j>>
    <3>1. frame_buffer[cell] \in NarrowOnes
      OBVIOUS
    <3>2. dot \in DotPlaces
      BY <1>5, <2>1, <3>1
    <3> QED
      BY <3>2 DEF DotPlaces
  <2> HIDE DEF CellOf, narrow, Place
  <2>4. w = OffsetOf(r, c, i, j)
    BY <1>2, <2>1, <2>2, <2>3
  <2>5. CellOf(w) = <<r, c>>
    BY <1>2, <2>4
  <2> QED
    BY <1>6, <2>1, <2>2, <2>3, <2>4, <2>5
<1>9. {w \in lit : CellOf(w) \in narrow} = UNION {Drawn(cell) : cell \in narrow}
  <2> HIDE DEF CellOf, narrow, Drawn
  <2> QED
    BY <1>7, <1>8
<1> QED
  BY ONLY <1>4, <1>9, GlyphsRead, Zenon DEF GlyphsShown

\* The screen shows what the font has, for fonts, glyphs and screens of any
\* size: the text of the font is read at the right lines, and a cell's pixels
\* are never another's.
THEOREM GlyphsCorrect == DisplayedSpec => []GlyphsShown
BY DisplayedInitial, DisplayedStep, LitShows, PTL DEF DisplayedSpec
=============================================================================
