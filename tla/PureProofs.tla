------------------------------- MODULE PureProofs -------------------------------
(* Proofs about the pure functions: SourceWindow, for every width of size_t,    *)
(* every file, range and padding; UriCodec, for every path and spelling;        *)
(* SymbolSearch, for every forest of symbols.  Recursive functions are reasoned *)
(* about by a least counterexample (Least).                                   *)
EXTENDS SourceWindow, UriCodec, SymbolSearch,
        FiniteSetTheorems, SequenceTheorems, WellFoundedInduction, TLAPS

\* The arguments of a call stay what they were.
InputOK ==
    /\ lines \in 0 .. MaxLines
    /\ from \in RangeLines /\ to \in RangeLines
    /\ before \in Paddings /\ after \in Paddings

\* A conversion to size_t yields a natural number, and a number that fits itself.
LEMMA SizeIsNat == ASSUME NEW v \in Int PROVE Size(v) \in 0 .. Modulus - 1
  BY WidthAssumption DEF Size

LEMMA SizeIsExact == ASSUME NEW v \in 0 .. Modulus - 1 PROVE Size(v) = v
  BY WidthAssumption DEF Size

\* The clamped ends of the anchor lie in the file.
LEMMA ClampInFile ==
  ASSUME NEW v \in Int, lines \in Nat \ {0}
  PROVE  Clamp(v) \in 1 .. lines
  BY DEF Clamp

LEMMA AnchorsAreInts ==
  ASSUME InputOK
  PROVE  AnchorStart \in Nat \ {0} /\ AnchorEnd \in Nat \ {0} /\ AnchorStart <= AnchorEnd
<1>1. from \in Int /\ to \in Int
  BY RangeAssumption DEF InputOK
<1>2. Size(from) \in Nat /\ Size(to) \in Nat
  BY <1>1, SizeIsNat, WidthAssumption
<1> QED
  BY <1>1, <1>2 DEF AnchorStart, AnchorEnd

\* The window of a file with lines lies in the file.
LEMMA WindowInFile ==
  ASSUME InputOK, lines # 0
  PROVE  /\ StartLine \in Nat \ {0}
         /\ EndLine \in Nat /\ EndLine <= lines
<1>1. before \in Int /\ after \in Int /\ lines \in Nat \ {0}
  BY PaddingAssumption, WidthAssumption DEF InputOK
<1>2. Clamp(AnchorStart) \in 1 .. lines /\ Clamp(AnchorEnd) \in 1 .. lines
  BY <1>1, ClampInFile, AnchorsAreInts
<1>3. Size(before) \in Nat /\ Size(after) \in Nat
  BY <1>1, SizeIsNat, WidthAssumption
<1>4. StartLine \in Nat \ {0}
  BY <1>1, <1>2, <1>3 DEF StartLine
<1>5. Size(Clamp(AnchorEnd) + Size(after)) \in Nat
  BY <1>1, <1>2, <1>3, SizeIsNat, WidthAssumption
<1> QED
  BY <1>1, <1>4, <1>5 DEF EndLine

WindowInv == InputOK /\ InBounds

\* build_text never reads a line outside the file, although the end of the
\* window is a sum that wraps around (extract_source_window, lines 77-86).
THEOREM WindowInBounds == Spec => []InBounds
<1>1. Init => WindowInv
  <2> SUFFICES ASSUME Init PROVE WindowInv
    OBVIOUS
  <2>1. window.text = <<>>
    BY DEF Init, NotYet, Nothing
  <2>2. InputOK
    BY DEF Init, InputOK
  <2> QED
    BY <2>1, <2>2 DEF WindowInv, InBounds
<1>2. WindowInv /\ [Next]_vars => WindowInv'
  <2> SUFFICES ASSUME WindowInv, [Next]_vars PROVE WindowInv'
    OBVIOUS
  <2>1. CASE extract_source_window
    <3>1. InputOK'
      BY <2>1 DEF extract_source_window, input, InputOK, WindowInv
    <3>2. CASE window'.text = <<>>
      BY <3>1, <3>2 DEF WindowInv, InBounds
    <3>3. CASE readable /\ lines # 0
      <4>1. /\ StartLine \in Nat \ {0} /\ EndLine \in Nat /\ EndLine <= lines
            /\ lines \in Nat
        BY <3>3, WindowInFile, WidthAssumption DEF WindowInv, InputOK
      <4>2. window'.start = StartLine /\ window'.text = Text(StartLine, EndLine)
        BY <2>1, <3>3 DEF extract_source_window
      <4>3. ASSUME NEW k \in DOMAIN window'.text
            PROVE  window'.text[k] \in 1 .. lines /\ window'.text[k] = window'.start + k - 1
        BY <4>1, <4>2, <4>3 DEF Text
      <4>4. lines' = lines
        BY <2>1 DEF extract_source_window, input
      <4> QED
        BY <3>1, <4>3, <4>4 DEF WindowInv, InBounds
    <3>4. ~readable \/ lines = 0 => window'.text = <<>>
      BY <2>1 DEF extract_source_window, Nothing
    <3> QED
      BY <3>2, <3>3, <3>4
  <2>2. CASE UNCHANGED vars
    BY <2>2 DEF vars, input, WindowInv, InputOK, InBounds
  <2> QED
    BY <2>1, <2>2 DEF Next, Over
<1>3. WindowInv => InBounds
  BY DEF WindowInv
<1> QED
  BY <1>1, <1>2, <1>3, PTL DEF Spec

\* For paddings that are no negative numbers nothing wraps around.
LEMMA WindowOfRange ==
  ASSUME InputOK, from \in 0 .. lines - 1, before >= 0, after >= 0
  PROVE  LET last == IF to < from THEN from ELSE to
         IN  /\ lines \in Nat \ {0} /\ last \in Int /\ last >= from
             /\ before \in Nat /\ after \in Nat
             /\ StartLine = IF from + 1 > before THEN from + 1 - before ELSE 1
             /\ EndLine = IF last + 1 + after < lines THEN last + 1 + after ELSE lines
<1> DEFINE last == IF to < from THEN from ELSE to
           Least(end) == IF end < lines THEN end ELSE lines
<1>1. /\ lines \in Nat \ {0} /\ lines <= MaxLines /\ MaxLines \in Nat
      /\ Modulus \in Nat \ {0} /\ MaxLines + 1 < Modulus
      /\ from \in Nat /\ from < lines /\ from + 1 < Modulus
      /\ to \in Int /\ to + 1 < Modulus
      /\ before \in Nat /\ before + MaxLines < Modulus
      /\ after \in Nat /\ after + MaxLines < Modulus
  BY WidthAssumption, RangeAssumption, PaddingAssumption DEF InputOK
<1>2. /\ Size(from) = from /\ Size(before) = before /\ Size(after) = after
      /\ to >= 0 => Size(to) = to
  BY <1>1, SizeIsExact
<1>3. AnchorStart = from + 1 /\ AnchorEnd = last + 1
  BY <1>1, <1>2 DEF AnchorStart, AnchorEnd
<1>4. Clamp(AnchorStart) = from + 1 /\ Clamp(AnchorEnd) = Least(last + 1)
  BY <1>1, <1>3 DEF Clamp
<1>5. Size(Clamp(AnchorEnd) + Size(after)) = Least(last + 1) + after
  <2>1. Least(last + 1) \in 1 .. lines
    BY <1>1
  <2>2. Least(last + 1) + after \in 0 .. Modulus - 1
    BY <1>1, <2>1
  <2> HIDE DEF Least
  <2> QED
    BY <1>2, <1>4, <2>2, SizeIsExact
<1>6. StartLine = IF from + 1 > before THEN from + 1 - before ELSE 1
  BY <1>1, <1>2, <1>4 DEF StartLine
<1>7. EndLine = Least(Least(last + 1) + after)
  BY <1>5 DEF EndLine
<1>8. Least(Least(last + 1) + after) = Least(last + 1 + after)
  <2>1. last \in Int
    BY <1>1
  <2>2. CASE last + 1 < lines
    BY <1>1, <2>1, <2>2
  <2>3. CASE ~(last + 1 < lines)
    BY <1>1, <2>1, <2>3
  <2> QED
    BY <2>2, <2>3
<1> QED
  BY <1>1, <1>6, <1>7, <1>8

RangeInv == InputOK /\ ShowsTheRange

\* The lines shown are those of the range and its paddings, as far as the file
\* has them, for every file, range and padding that is no negative number.
THEOREM RangeShown == Spec => []ShowsTheRange
<1>1. Init => RangeInv
  <2> SUFFICES ASSUME Init PROVE RangeInv
    OBVIOUS
  <2>1. window.state # "returned"
    BY DEF Init, NotYet, Nothing
  <2>2. InputOK
    BY DEF Init, InputOK
  <2> QED
    BY <2>1, <2>2 DEF RangeInv, ShowsTheRange
<1>2. RangeInv /\ [Next]_vars => RangeInv'
  <2> SUFFICES ASSUME RangeInv, [Next]_vars PROVE RangeInv'
    OBVIOUS
  <2>1. CASE extract_source_window
    <3>1. UNCHANGED input /\ InputOK'
      BY <2>1 DEF extract_source_window, input, InputOK, RangeInv
    <3>2. CASE window'.state = "returned" /\ from \in 0 .. lines - 1 /\ before >= 0 /\ after >= 0
      <4> DEFINE last == IF to < from THEN from ELSE to
      <4>1. /\ lines \in Nat \ {0} /\ last \in Int /\ last >= from
            /\ before \in Nat /\ after \in Nat
            /\ StartLine = IF from + 1 > before THEN from + 1 - before ELSE 1
            /\ EndLine = IF last + 1 + after < lines THEN last + 1 + after ELSE lines
        BY <3>2, WindowOfRange DEF RangeInv
      <4>2. window'.text = Text(StartLine, EndLine)
        <5>1. readable /\ lines # 0
          BY <2>1, <3>2, <4>1 DEF extract_source_window, Nothing
        <5> QED
          BY <2>1, <5>1 DEF extract_source_window
      <4>3. StartLine \in Nat \ {0} /\ EndLine \in Nat
        BY <3>2, <4>1
      <4>4. {window'.text[k] : k \in DOMAIN window'.text} = StartLine .. EndLine
        <5>1. ASSUME NEW l \in StartLine .. EndLine
              PROVE  /\ l - StartLine + 1 \in DOMAIN Text(StartLine, EndLine)
                     /\ Text(StartLine, EndLine)[l - StartLine + 1] = l
          BY <4>3, <5>1 DEF Text
        <5>2. ASSUME NEW k \in DOMAIN Text(StartLine, EndLine)
              PROVE  Text(StartLine, EndLine)[k] \in StartLine .. EndLine
          BY <4>3, <5>2 DEF Text
        <5> QED
          BY <4>2, <5>1, <5>2
      <4>5. StartLine .. EndLine
              = {l \in 1 .. lines : from + 1 - before <= l /\ l <= last + 1 + after}
        BY <3>2, <4>1
      <4> QED
        BY <3>1, <4>4, <4>5 DEF RangeInv, ShowsTheRange, input
    <3>3. CASE ~(window'.state = "returned" /\ from \in 0 .. lines - 1
                 /\ before >= 0 /\ after >= 0)
      BY <3>1, <3>3 DEF RangeInv, ShowsTheRange, input
    <3> QED
      BY <3>2, <3>3
  <2>2. CASE UNCHANGED vars
    BY <2>2 DEF vars, input, RangeInv, InputOK, ShowsTheRange
  <2> QED
    BY <2>1, <2>2 DEF Next, Over
<1>3. RangeInv => ShowsTheRange
  BY DEF RangeInv
<1> QED
  BY <1>1, <1>2, <1>3, PTL DEF Spec

\* With a padding that is no negative number the window has a line.
LEMMA WindowHasALine ==
  ASSUME InputOK, lines # 0, after >= 0
  PROVE  StartLine \in Nat \ {0} /\ EndLine \in Nat /\ StartLine <= EndLine
<1>1. /\ lines \in Nat \ {0} /\ lines <= MaxLines /\ MaxLines \in Nat
      /\ Modulus \in Nat \ {0} /\ after \in Nat /\ after + MaxLines < Modulus
      /\ before \in Int
  BY WidthAssumption, PaddingAssumption DEF InputOK
<1>2. /\ Clamp(AnchorStart) \in 1 .. lines /\ Clamp(AnchorEnd) \in 1 .. lines
      /\ Clamp(AnchorStart) <= Clamp(AnchorEnd)
  <2>1. /\ AnchorStart \in Nat \ {0} /\ AnchorEnd \in Nat \ {0} /\ AnchorStart <= AnchorEnd
    BY AnchorsAreInts
  <2> QED
    BY <1>1, <2>1 DEF Clamp
<1>3. StartLine <= Clamp(AnchorStart)
  <2>1. Size(before) \in Nat
    BY <1>1, SizeIsNat
  <2> QED
    BY <1>2, <2>1 DEF StartLine
<1>4. Size(Clamp(AnchorEnd) + Size(after)) = Clamp(AnchorEnd) + after
  <2>1. Size(after) = after /\ Clamp(AnchorEnd) + after \in 0 .. Modulus - 1
    BY <1>1, <1>2, SizeIsExact
  <2> QED
    BY <2>1, SizeIsExact
<1>5. Clamp(AnchorEnd) <= EndLine
  BY <1>1, <1>2, <1>4 DEF EndLine
<1>6. StartLine \in Nat \ {0} /\ EndLine \in Nat
  BY WindowInFile
<1> QED
  BY <1>2, <1>3, <1>5, <1>6

SomeInv == InputOK /\ NeverEmpty

\* Of a file that has lines at least one is shown, wherever the range lies and
\* whatever the padding before it is cast to (extract_source_window, lines 77-86).
THEOREM SomethingShown == Spec => []NeverEmpty
<1>1. Init => SomeInv
  <2> SUFFICES ASSUME Init PROVE SomeInv
    OBVIOUS
  <2>1. window.state # "returned"
    BY DEF Init, NotYet, Nothing
  <2> QED
    BY <2>1 DEF Init, InputOK, SomeInv, NeverEmpty
<1>2. SomeInv /\ [Next]_vars => SomeInv'
  <2> SUFFICES ASSUME SomeInv, [Next]_vars PROVE SomeInv'
    OBVIOUS
  <2>1. CASE extract_source_window
    <3>1. UNCHANGED input /\ InputOK'
      BY <2>1 DEF extract_source_window, input, InputOK, SomeInv
    <3>2. CASE window'.state = "returned" /\ lines > 0 /\ after >= 0
      <4>1. readable /\ lines # 0
        BY <2>1, <3>2 DEF extract_source_window, Nothing, SomeInv, InputOK
      <4>2. StartLine \in Nat \ {0} /\ EndLine \in Nat /\ StartLine <= EndLine
        BY <3>2, <4>1, WindowHasALine DEF SomeInv
      <4>3. window'.text = Text(StartLine, EndLine)
        BY <2>1, <4>1 DEF extract_source_window
      <4>4. 1 \in DOMAIN window'.text
        BY <4>2, <4>3 DEF Text
      <4>5. window'.text # <<>>
        BY <4>4
      <4> QED
        BY <3>1, <4>5 DEF SomeInv, NeverEmpty
    <3>3. CASE ~(window'.state = "returned" /\ lines > 0 /\ after >= 0)
      BY <3>1, <3>3 DEF SomeInv, NeverEmpty, input
    <3> QED
      BY <3>2, <3>3
  <2>2. CASE UNCHANGED vars
    BY <2>2 DEF vars, input, SomeInv, InputOK, NeverEmpty
  <2> QED
    BY <2>1, <2>2 DEF Next, Over
<1>3. SomeInv => NeverEmpty
  BY DEF SomeInv
<1> QED
  BY <1>1, <1>2, <1>3, PTL DEF Spec

-----------------------------------------------------------------------------
\* A set of natural numbers has a least one: how the recursions are reasoned about.
LEMMA Least ==
    ASSUME NEW S \in SUBSET Nat, S # {}
    PROVE  \E m \in S : \A k \in S : m <= k
<1> DEFINE T == {1 .. k : k \in S}
<1>1. \A k \in S : 1 .. k \in SUBSET Nat /\ IsFiniteSet(1 .. k)
  BY FS_Interval
<1>2. T \subseteq FiniteSubsetsOf(Nat) /\ T # {}
  BY <1>1 DEF FiniteSubsetsOf
<1>3. PICK x \in T : \A y \in T : ~(<<y, x>> \in StrictSubsetOrdering(Nat))
  <2> HIDE DEF T
  <2> QED
    BY <1>2, FS_StrictSubsetOrderingWellFounded, WFMin
<1>4. PICK m \in S : x = 1 .. m
  OBVIOUS
<1>5. ASSUME NEW k \in S, k < m PROVE FALSE
  <2>1. 1 .. k \subseteq 1 .. m /\ 1 .. k # 1 .. m
    BY <1>5
  <2>2. <<1 .. k, 1 .. m>> \in StrictSubsetOrdering(Nat)
    BY <1>1, <2>1 DEF StrictSubsetOrdering
  <2>3. 1 .. k \in T
    OBVIOUS
  <2> QED
    BY <1>3, <1>4, <2>2, <2>3
<1> QED
  BY <1>5

-----------------------------------------------------------------------------
(* Pieces laid end to end (FlattenSeq).                                     *)

Lay(text, piece) == text \o piece

LEMMA LayIs ==
    ASSUME NEW S, NEW a \in Seq(S), NEW b \in Seq(S)
    PROVE  /\ Lay(a, b) \in Seq(S) /\ Len(Lay(a, b)) = Len(a) + Len(b)
           /\ Len(a) \in Nat /\ Len(b) \in Nat
           /\ \A i \in 1 .. Len(a) : Lay(a, b)[i] = a[i]
           /\ \A j \in 1 .. Len(b) : Lay(a, b)[Len(a) + j] = b[j]
<1>1. Len(a) \in Nat /\ Len(b) \in Nat
  BY LenProperties
<1>2. /\ Lay(a, b) \in Seq(S) /\ Len(Lay(a, b)) = Len(a) + Len(b)
      /\ \A i \in 1 .. Len(a) + Len(b) :
           Lay(a, b)[i] = IF i <= Len(a) THEN a[i] ELSE b[i - Len(a)]
  BY ConcatProperties DEF Lay
<1>3. ASSUME NEW i \in 1 .. Len(a) PROVE Lay(a, b)[i] = a[i]
  BY <1>1, <1>2
<1>4. ASSUME NEW j \in 1 .. Len(b) PROVE Lay(a, b)[Len(a) + j] = b[j]
  <2>1. /\ Len(a) + j \in 1 .. Len(a) + Len(b) /\ ~(Len(a) + j <= Len(a))
        /\ (Len(a) + j) - Len(a) = j
    BY <1>1
  <2> QED
    BY <1>2, <2>1
<1> QED
  BY <1>1, <1>2, <1>3, <1>4

\* ends[n] is the first n pieces laid end to end.
Laid(ends, pieces) ==
    ends = [n \in 0 .. Len(pieces) |-> IF n = 0 THEN <<>> ELSE Lay(ends[n - 1], pieces[n])]
LaidUpTo(ends, pieces, m) ==
    ends = [n \in 0 .. m |-> IF n = 0 THEN <<>> ELSE Lay(ends[n - 1], pieces[n])]

LEMMA LaidExists ==
    ASSUME NEW pieces, NEW n \in Nat PROVE \E ends : LaidUpTo(ends, pieces, n)
<1> DEFINE Missing == {k \in Nat : ~ \E ends : LaidUpTo(ends, pieces, k)}
<1> SUFFICES ASSUME Missing # {} PROVE FALSE
  OBVIOUS
<1>1. PICK m \in Missing : \A k \in Missing : m <= k
  <2>1. Missing \in SUBSET Nat
    OBVIOUS
  <2> HIDE DEF Missing
  <2> QED
    BY <2>1, Least
<1>2. m \in Nat /\ ~ \E ends : LaidUpTo(ends, pieces, m)
  OBVIOUS
<1>3. CASE m = 0
  <2> DEFINE g == [k \in 0 .. 0 |-> <<>>]
  <2>1. LaidUpTo(g, pieces, 0)
    BY DEF LaidUpTo
  <2> QED
    BY <1>2, <1>3, <2>1
<1>4. CASE m # 0
  <2>1. m - 1 \in Nat /\ m - 1 \notin Missing
    BY <1>1, <1>2, <1>4
  <2>2. PICK h : LaidUpTo(h, pieces, m - 1)
    BY <2>1
  <2> DEFINE g == [k \in 0 .. m |-> IF k < m THEN h[k] ELSE Lay(h[m - 1], pieces[m])]
  <2>3. ASSUME NEW k \in 0 .. m
        PROVE  g[k] = IF k = 0 THEN <<>> ELSE Lay(g[k - 1], pieces[k])
    <3>1. CASE k = 0
      <4>1. 0 \in 0 .. m - 1 /\ k < m
        BY <1>2, <1>4, <3>1
      <4>2. g[k] = h[0] /\ h[0] = <<>>
        BY <2>2, <3>1, <4>1 DEF LaidUpTo
      <4> QED
        BY <3>1, <4>2
    <3>2. CASE k # 0
      <4>1. k - 1 \in 0 .. m /\ k - 1 < m /\ k - 1 \in 0 .. m - 1
        BY <1>2, <3>2
      <4>2. g[k - 1] = h[k - 1]
        BY <4>1
      <4>3. CASE k < m
        <5>1. k \in 0 .. m - 1
          BY <1>2, <4>3
        <5>2. h[k] = Lay(h[k - 1], pieces[k])
          BY <2>2, <3>2, <5>1 DEF LaidUpTo
        <5> QED
          BY <3>2, <4>2, <4>3, <5>2
      <4>4. CASE k = m
        BY <3>2, <4>2, <4>4
      <4> QED
        BY <1>2, <4>3, <4>4
    <3> QED
      BY <3>1, <3>2
  <2>4. LaidUpTo(g, pieces, m)
    BY <2>3 DEF LaidUpTo
  <2> QED
    BY <1>2, <2>4
<1> QED
  BY <1>3, <1>4

\* FlattenSeq lays all the pieces.
LEMMA FlattenLays ==
    ASSUME NEW S, NEW pieces \in Seq(Seq(S))
    PROVE  \E ends : Laid(ends, pieces) /\ FlattenSeq(pieces) = ends[Len(pieces)]
<1>1. PICK n \in Nat : n = Len(pieces) /\ DOMAIN pieces = 1 .. n
  OBVIOUS
<1>2. CASE n = 0
  <2>1. FlattenSeq(pieces) = <<>>
    BY <1>1, <1>2, EmptySeq DEF FlattenSeq
  <2>2. PICK ends : LaidUpTo(ends, pieces, n)
    BY LaidExists
  <2>3. ends[n] = <<>>
    BY <1>2, <2>2 DEF LaidUpTo
  <2> QED
    BY <1>1, <2>1, <2>2, <2>3 DEF Laid, LaidUpTo
<1>3. CASE n # 0
  <2> DEFINE whole == CHOOSE f : f = [i \in 1 .. Len(pieces) |->
                                      IF i = 1 THEN pieces[i] ELSE Lay(f[i - 1], pieces[i])]
  <2>1. FlattenSeq(pieces) = whole[n]
    BY <1>1, <1>3 DEF FlattenSeq, Lay
  <2>2. PICK g : LaidUpTo(g, pieces, n)
    BY LaidExists
  <2> DEFINE f == [i \in 1 .. n |-> g[i]]
  <2>3. ASSUME NEW i \in 1 .. n
        PROVE  f[i] = IF i = 1 THEN pieces[i] ELSE Lay(f[i - 1], pieces[i])
    <3>1. i \in 0 .. n /\ i # 0 /\ i - 1 \in 0 .. n
      BY <1>1
    <3>2. g[i] = Lay(g[i - 1], pieces[i])
      BY <2>2, <3>1 DEF LaidUpTo
    <3>3. CASE i = 1
      <4>1. g[0] = <<>>
        BY <2>2 DEF LaidUpTo
      <4>2. pieces[1] \in Seq(S)
        BY <1>1, <1>3
      <4>3. Lay(<<>>, pieces[1]) = pieces[1]
        BY <4>2, ConcatEmptySeq DEF Lay
      <4> QED
        BY <3>2, <3>3, <4>1, <4>3
    <3>4. CASE i # 1
      <4>1. i - 1 \in 1 .. n
        BY <1>1, <3>4
      <4> QED
        BY <3>2, <3>4, <4>1
    <3> QED
      BY <3>3, <3>4
  <2>4. f = [i \in 1 .. Len(pieces) |->
               IF i = 1 THEN pieces[i] ELSE Lay(f[i - 1], pieces[i])]
    BY <1>1, <2>3
  <2>5. whole = [i \in 1 .. Len(pieces) |->
                   IF i = 1 THEN pieces[i] ELSE Lay(whole[i - 1], pieces[i])]
    <3> HIDE DEF f
    <3> QED
      BY <2>4
  <2> HIDE DEF whole, f
  <2> DEFINE ends == [k \in 0 .. n |-> IF k = 0 THEN <<>> ELSE whole[k]]
  <2>6. ASSUME NEW k \in 0 .. n
        PROVE  ends[k] = IF k = 0 THEN <<>> ELSE Lay(ends[k - 1], pieces[k])
    <3>1. CASE k = 0
      BY <3>1
    <3>2. CASE k = 1
      <4>1. whole[1] = pieces[1] /\ pieces[1] \in Seq(S)
        BY <1>1, <1>3, <2>5
      <4>2. Lay(<<>>, pieces[1]) = pieces[1]
        BY <4>1, ConcatEmptySeq DEF Lay
      <4>3. ends[1] = whole[1] /\ ends[0] = <<>>
        BY <1>1, <1>3
      <4> QED
        BY <3>2, <4>1, <4>2, <4>3
    <3>3. CASE k # 0 /\ k # 1
      <4>1. k \in 1 .. n /\ k - 1 \in 0 .. n /\ k - 1 # 0
        BY <1>1, <3>3
      <4>2. whole[k] = Lay(whole[k - 1], pieces[k])
        BY <1>1, <2>5, <3>3, <4>1
      <4> QED
        BY <3>3, <4>1, <4>2
    <3> QED
      BY <3>1, <3>2, <3>3
  <2>7. Laid(ends, pieces)
    BY <1>1, <2>6 DEF Laid
  <2>8. ends[n] = whole[n]
    BY <1>1, <1>3
  <2> QED
    BY <1>1, <2>1, <2>7, <2>8
<1> QED
  BY <1>2, <1>3

\* The text after n pieces begins the text after more, and the n-th piece ends it.
LEMMA LaidPrefix ==
    ASSUME NEW S, NEW pieces \in Seq(Seq(S)), NEW ends, Laid(ends, pieces)
    PROVE  \A n \in 0 .. Len(pieces) :
              /\ ends[n] \in Seq(S) /\ Len(ends[n]) \in Nat
              /\ Len(ends[n]) <= Len(ends[Len(pieces)])
              /\ \A i \in 1 .. Len(ends[n]) : ends[Len(pieces)][i] = ends[n][i]
<1>1. PICK N \in Nat : N = Len(pieces) /\ DOMAIN pieces = 1 .. N
  OBVIOUS
<1>2. /\ ends[0] = <<>>
      /\ \A n \in 1 .. N : ends[n] = Lay(ends[n - 1], pieces[n]) /\ pieces[n] \in Seq(S)
  <2>1. ends = [n \in 0 .. N |-> IF n = 0 THEN <<>> ELSE Lay(ends[n - 1], pieces[n])]
    BY <1>1 DEF Laid
  <2>2. ASSUME NEW n \in 1 .. N PROVE pieces[n] \in Seq(S)
    BY <1>1
  <2> QED
    BY <2>1, <2>2
<1> DEFINE Untyped == {n \in Nat : n <= N /\ ends[n] \notin Seq(S)}
<1>3. Untyped = {}
  <2> SUFFICES ASSUME Untyped # {} PROVE FALSE
    OBVIOUS
  <2>1. PICK m \in Untyped : \A k \in Untyped : m <= k
    <3>1. Untyped \in SUBSET Nat
      OBVIOUS
    <3> HIDE DEF Untyped
    <3> QED
      BY <3>1, Least
  <2>2. m # 0
    BY <1>2, <2>1, EmptySeq
  <2>3. m - 1 \in Nat /\ m - 1 <= N /\ m \in 1 .. N /\ m - 1 < m
    BY <1>1, <2>1, <2>2
  <2>4. ends[m - 1] \in Seq(S)
    <3>1. m - 1 \notin Untyped
      BY <2>1, <2>3
    <3> QED
      BY <2>3, <3>1
  <2>5. ends[m] \in Seq(S)
    BY <1>2, <2>3, <2>4, ConcatProperties DEF Lay
  <2> QED
    BY <2>1, <2>5
<1>4. \A n \in 0 .. N : ends[n] \in Seq(S)
  BY <1>1, <1>3
<1> HIDE DEF Untyped
\* Downwards: the text after N - d pieces begins the last one.
<1> DEFINE Begins(n) == /\ Len(ends[n]) <= Len(ends[N])
                        /\ \A i \in 1 .. Len(ends[n]) : ends[N][i] = ends[n][i]
           Bad == {d \in Nat : d <= N /\ ~Begins(N - d)}
<1>5. Bad = {}
  <2> SUFFICES ASSUME Bad # {} PROVE FALSE
    OBVIOUS
  <2>1. PICK d \in Bad : \A k \in Bad : d <= k
    <3>1. Bad \in SUBSET Nat
      OBVIOUS
    <3> HIDE DEF Bad
    <3> QED
      BY <3>1, Least
  <2>2. d \in Nat /\ d <= N /\ ~Begins(N - d)
    OBVIOUS
  <2>3. CASE d = 0
    <3>1. N - d = N /\ ends[N] \in Seq(S)
      BY <1>1, <1>4, <2>3
    <3>2. Begins(N)
      BY <3>1
    <3> QED
      BY <2>2, <3>1, <3>2
  <2>4. CASE d # 0
    <3>1. PICK n \in 1 .. N : N - d = n - 1 /\ N - (d - 1) = n
      <4>1. N - d + 1 \in 1 .. N /\ N - d = (N - d + 1) - 1 /\ N - (d - 1) = N - d + 1
        BY <1>1, <2>2, <2>4
      <4> QED
        BY <4>1
    <3>2. Begins(n)
      <4>1. d - 1 \in Nat /\ d - 1 <= N /\ d - 1 < d
        BY <1>1, <2>2, <2>4
      <4>2. d - 1 \notin Bad
        <5> HIDE DEF Bad
        <5> QED
          BY <2>1, <2>2, <4>1
      <4>3. Begins(N - (d - 1))
        BY <4>1, <4>2
      <4> QED
        BY <3>1, <4>3
    <3>3. /\ ends[n] = Lay(ends[n - 1], pieces[n]) /\ pieces[n] \in Seq(S)
          /\ ends[n - 1] \in Seq(S) /\ ends[N] \in Seq(S)
      <4>1. n - 1 \in 0 .. N /\ N \in 0 .. N
        BY <1>1, <3>1
      <4> QED
        BY <1>2, <1>4, <4>1
    <3> DEFINE a == ends[n - 1]
               p == pieces[n]
    <3>4. /\ Len(ends[n]) = Len(a) + Len(p) /\ Len(a) \in Nat /\ Len(p) \in Nat
          /\ \A i \in 1 .. Len(a) : ends[n][i] = a[i]
      <4>1. a \in Seq(S) /\ p \in Seq(S) /\ ends[n] = Lay(a, p)
        BY <3>3
      <4> HIDE DEF a, p
      <4>2. /\ Len(Lay(a, p)) = Len(a) + Len(p) /\ Len(a) \in Nat /\ Len(p) \in Nat
            /\ \A i \in 1 .. Len(a) : Lay(a, p)[i] = a[i]
        BY <4>1, LayIs
      <4> QED
        BY <4>1, <4>2
    <3>5. Begins(n - 1)
      <4> HIDE DEF a, p
      <4>1. PICK x \in Nat, y \in Nat, z \in Nat :
               x = Len(a) /\ y = Len(p) /\ z = Len(ends[N])
        BY <3>3, <3>4, LenProperties
      <4>2. Len(ends[n]) = x + y /\ x + y <= z
        BY <3>2, <3>4, <4>1
      <4>3. Len(a) <= Len(ends[N])
        BY <4>1, <4>2
      <4>4. ASSUME NEW i \in 1 .. Len(a) PROVE ends[N][i] = a[i]
        <5>1. i \in 1 .. x + y
          BY <4>1
        <5> QED
          BY <3>2, <3>4, <4>2, <5>1
      <4> QED
        BY <4>3, <4>4 DEF a
    <3> QED
      BY <2>2, <3>1, <3>5
  <2> QED
    BY <2>3, <2>4
<1>6. ASSUME NEW n \in 0 .. N PROVE Begins(n)
  <2>1. N - n \in Nat /\ N - n <= N /\ N - (N - n) = n
    BY <1>1
  <2>2. N - n \notin Bad
    BY <1>5
  <2>3. Begins(N - (N - n))
    BY <2>1, <2>2
  <2> QED
    BY <2>1, <2>3
<1> QED
  BY <1>1, <1>4, <1>6, LenProperties

\* Where the n-th piece lies in the whole text.
PieceLies(ends, pieces, n) ==
    /\ Len(ends[n]) = Len(ends[n - 1]) + Len(pieces[n])
    /\ Len(ends[n - 1]) \in Nat /\ Len(pieces[n]) \in Nat
    /\ Len(ends[n]) <= Len(ends[Len(pieces)])
    /\ \A j \in 1 .. Len(pieces[n]) :
         ends[Len(pieces)][Len(ends[n - 1]) + j] = pieces[n][j]

LEMMA PieceAt ==
    ASSUME NEW S, NEW pieces \in Seq(Seq(S)), NEW ends, Laid(ends, pieces),
           NEW n \in 1 .. Len(pieces)
    PROVE  PieceLies(ends, pieces, n)
<1>1. PICK N \in Nat : N = Len(pieces) /\ DOMAIN pieces = 1 .. N
  OBVIOUS
<1>2. n \in 0 .. N /\ n # 0 /\ n - 1 \in 0 .. N /\ n \in 1 .. N
  BY <1>1
<1>3. ends = [k \in 0 .. N |-> IF k = 0 THEN <<>> ELSE Lay(ends[k - 1], pieces[k])]
  BY <1>1 DEF Laid
<1>4. ends[n] = Lay(ends[n - 1], pieces[n])
  BY <1>2, <1>3
<1>5. pieces[n] \in Seq(S)
  BY <1>1, <1>2
<1>6. /\ ends[n - 1] \in Seq(S) /\ Len(ends[n]) \in Nat
      /\ Len(ends[n]) <= Len(ends[N])
      /\ \A i \in 1 .. Len(ends[n]) : ends[N][i] = ends[n][i]
  BY <1>1, <1>2, LaidPrefix
<1> DEFINE a == ends[n - 1]
           p == pieces[n]
<1>7. /\ Len(ends[n]) = Len(a) + Len(p) /\ Len(a) \in Nat /\ Len(p) \in Nat
      /\ \A j \in 1 .. Len(p) : ends[n][Len(a) + j] = p[j]
  <2>1. a \in Seq(S) /\ p \in Seq(S) /\ ends[n] = Lay(a, p)
    BY <1>4, <1>5, <1>6
  <2> HIDE DEF a, p
  <2>2. /\ Len(Lay(a, p)) = Len(a) + Len(p) /\ Len(a) \in Nat /\ Len(p) \in Nat
        /\ \A j \in 1 .. Len(p) : Lay(a, p)[Len(a) + j] = p[j]
    BY <2>1, LayIs
  <2> QED
    BY <2>1, <2>2
<1> HIDE DEF a, p
<1>8. ASSUME NEW j \in 1 .. Len(p) PROVE ends[N][Len(a) + j] = p[j]
  <2>1. Len(a) + j \in 1 .. Len(a) + Len(p)
    BY <1>7
  <2> QED
    BY <1>6, <1>7, <2>1
<1> QED
  BY <1>1, <1>6, <1>7, <1>8 DEF a, p, PieceLies

-----------------------------------------------------------------------------
(* The percent codec.                                                       *)

\* One round of the loop in percent_decode, given what comes of the later ones.
EscapeAt(s, i) ==
    /\ s[i] = Percent /\ i + 2 <= Len(s)
    /\ hex_value(s[i + 1]) >= 0 /\ hex_value(s[i + 2]) >= 0
Decode(tail, s, i) ==
    IF i > Len(s) THEN <<>>
    ELSE IF EscapeAt(s, i)
         THEN Lay(<<16 * hex_value(s[i + 1]) + hex_value(s[i + 2])>>, tail[i + 3])
         ELSE Lay(<<s[i]>>, tail[i + 1])
DecodedFrom(tail, s, low) == tail = [i \in low .. Len(s) + 1 |-> Decode(tail, s, i)]

LEMMA DecodingExists ==
    ASSUME NEW s, Len(s) \in Nat, NEW n \in 0 .. Len(s)
    PROVE  \E tail : DecodedFrom(tail, s, Len(s) + 1 - n)
<1> PICK N \in Nat : N = Len(s)
  OBVIOUS
<1> DEFINE Missing == {k \in Nat : k <= N /\ ~ \E tail : DecodedFrom(tail, s, N + 1 - k)}
<1> SUFFICES ASSUME Missing # {} PROVE FALSE
  OBVIOUS
<1>1. PICK m \in Missing : \A k \in Missing : m <= k
  <2>1. Missing \in SUBSET Nat
    OBVIOUS
  <2> HIDE DEF Missing
  <2> QED
    BY <2>1, Least
<1>2. m \in Nat /\ m <= N /\ ~ \E tail : DecodedFrom(tail, s, N + 1 - m)
  OBVIOUS
<1>3. CASE m = 0
  <2> DEFINE g == [i \in N + 1 .. N + 1 |-> <<>>]
  <2>1. \A i \in N + 1 .. N + 1 : Decode(g, s, i) = <<>>
    BY DEF Decode
  <2>2. DecodedFrom(g, s, N + 1)
    BY <2>1 DEF DecodedFrom
  <2> QED
    BY <1>2, <1>3, <2>2
<1>4. CASE m # 0
  <2>1. m - 1 \in Nat /\ m - 1 <= N /\ m - 1 < m
    BY <1>2, <1>4
  <2>2. m - 1 \notin Missing
    <3> HIDE DEF Missing
    <3> QED
      BY <1>1, <1>2, <2>1
  <2>3. PICK h : DecodedFrom(h, s, N + 1 - (m - 1))
    BY <2>1, <2>2
  <2> DEFINE low == N + 1 - m
  <2>4. low \in Nat /\ low + 1 = N + 1 - (m - 1) /\ low <= N
    BY <1>2, <1>4
  <2> HIDE DEF low
  <2> DEFINE g == [i \in low .. N + 1 |-> IF i = low THEN Decode(h, s, low) ELSE h[i]]
  <2>5. ASSUME NEW i \in low .. N + 1 PROVE g[i] = Decode(g, s, i)
    <3>1. ASSUME NEW j \in low + 1 .. N + 1 PROVE g[j] = h[j]
      BY <2>4
    <3>2. Decode(g, s, i) = Decode(h, s, i)
      <4>1. i > N \/ (i <= N /\ i + 1 \in low + 1 .. N + 1)
        BY <2>4
      <4>2. i + 2 <= N => i + 3 \in low + 1 .. N + 1
        BY <2>4
      <4> HIDE DEF g
      <4> QED
        BY <3>1, <4>1, <4>2 DEF Decode, EscapeAt
    <3>3. CASE i = low
      BY <3>2, <3>3
    <3>4. CASE i # low
      <4>1. i \in low + 1 .. N + 1
        BY <2>4, <3>4
      <4>2. h[i] = Decode(h, s, i)
        BY <2>3, <2>4, <4>1 DEF DecodedFrom
      <4> QED
        BY <3>1, <3>2, <4>1, <4>2
    <3> QED
      BY <3>3, <3>4
  <2>6. DecodedFrom(g, s, low)
    BY <2>5 DEF DecodedFrom
  <2> QED
    BY <1>2, <2>6 DEF low
<1> QED
  BY <1>3, <1>4

LEMMA DecodeIs ==
    ASSUME NEW s, Len(s) \in Nat
    PROVE  \E tail : DecodedFrom(tail, s, 1) /\ percent_decode(s) = tail[1]
<1> DEFINE tail == CHOOSE f : f = [i \in 1 .. Len(s) + 1 |->
              IF i > Len(s) THEN <<>>
              ELSE IF /\ s[i] = Percent /\ i + 2 <= Len(s)
                      /\ hex_value(s[i + 1]) >= 0 /\ hex_value(s[i + 2]) >= 0
                   THEN <<16 * hex_value(s[i + 1]) + hex_value(s[i + 2])>> \o f[i + 3]
                   ELSE <<s[i]>> \o f[i + 1]]
<1>1. percent_decode(s) = tail[1]
  BY DEF percent_decode
<1>2. PICK g : DecodedFrom(g, s, 1)
  <2>1. Len(s) \in 0 .. Len(s) /\ Len(s) + 1 - Len(s) = 1
    OBVIOUS
  <2> QED
    BY <2>1, DecodingExists
<1>3. DecodedFrom(tail, s, 1)
  <2>1. g = [i \in 1 .. Len(s) + 1 |->
              IF i > Len(s) THEN <<>>
              ELSE IF /\ s[i] = Percent /\ i + 2 <= Len(s)
                      /\ hex_value(s[i + 1]) >= 0 /\ hex_value(s[i + 2]) >= 0
                   THEN <<16 * hex_value(s[i + 1]) + hex_value(s[i + 2])>> \o g[i + 3]
                   ELSE <<s[i]>> \o g[i + 1]]
    BY <1>2 DEF DecodedFrom, Decode, EscapeAt, Lay
  <2>2. tail = [i \in 1 .. Len(s) + 1 |->
              IF i > Len(s) THEN <<>>
              ELSE IF /\ s[i] = Percent /\ i + 2 <= Len(s)
                      /\ hex_value(s[i + 1]) >= 0 /\ hex_value(s[i + 2]) >= 0
                   THEN <<16 * hex_value(s[i + 1]) + hex_value(s[i + 2])>> \o tail[i + 3]
                   ELSE <<s[i]>> \o tail[i + 1]]
    BY <2>1
  <2> HIDE DEF tail
  <2> QED
    BY <2>2 DEF DecodedFrom, Decode, EscapeAt, Lay
<1> QED
  BY <1>1, <1>3

\* A byte in any spelling of it is read as that byte, and as one round of the loop.
LEMMA HexRead ==
    ASSUME NEW v \in 0 .. 15, NEW letterA \in {65, 97}
    PROVE  HexDigit(v, letterA) \in Nat /\ hex_value(HexDigit(v, letterA)) = v
  BY DEF HexDigit, hex_value, Digits

LEMMA SpellingRead ==
    ASSUME NEW c \in 0 .. 255, NEW spelling \in Spellings(c)
    PROVE  /\ spelling \in Seq(Nat)
           /\ \/ Len(spelling) = 1 /\ spelling[1] = c /\ c # Percent
              \/ /\ Len(spelling) = 3 /\ spelling[1] = Percent
                 /\ hex_value(spelling[2]) >= 0 /\ hex_value(spelling[3]) >= 0
                 /\ 16 * hex_value(spelling[2]) + hex_value(spelling[3]) = c
<1>1. CASE spelling = <<c>> /\ c # Percent
  BY <1>1
<1>2. ASSUME NEW letterA \in {65, 97}, spelling = Escape(c, letterA)
      PROVE  /\ spelling \in Seq(Nat) /\ Len(spelling) = 3 /\ spelling[1] = Percent
             /\ hex_value(spelling[2]) >= 0 /\ hex_value(spelling[3]) >= 0
             /\ 16 * hex_value(spelling[2]) + hex_value(spelling[3]) = c
  <2>1. c \div 16 \in 0 .. 15 /\ c % 16 \in 0 .. 15 /\ 16 * (c \div 16) + (c % 16) = c
    OBVIOUS
  <2> DEFINE hi == HexDigit(c \div 16, letterA)
             lo == HexDigit(c % 16, letterA)
  <2>2. hi \in Nat /\ lo \in Nat /\ hex_value(hi) = c \div 16 /\ hex_value(lo) = c % 16
    BY <2>1, HexRead
  <2>3. spelling = <<Percent, hi, lo>>
    BY <1>2 DEF Escape
  <2> HIDE DEF hi, lo
  <2>4. /\ spelling \in Seq(Nat) /\ Len(spelling) = 3 /\ spelling[1] = Percent
        /\ spelling[2] = hi /\ spelling[3] = lo
    BY <2>2, <2>3 DEF Percent
  <2> QED
    BY <2>1, <2>2, <2>4
<1> QED
  BY <1>1, <1>2 DEF Spellings

\* What is left of a path after n bytes.
Rest(p, n) == [j \in 1 .. Len(p) - n |-> p[n + j]]

LEMMA RestIs ==
    ASSUME NEW S, NEW p \in Seq(S), NEW n \in 0 .. Len(p)
    PROVE  /\ Rest(p, n) \in Seq(S) /\ Len(Rest(p, n)) = Len(p) - n
           /\ n # 0 => Rest(p, n - 1) = Lay(<<p[n]>>, Rest(p, n))
<1>1. PICK N \in Nat : N = Len(p) /\ DOMAIN p = 1 .. N
  BY LenProperties
<1>2. ASSUME NEW k \in 0 .. N
      PROVE  /\ Rest(p, k) \in Seq(S) /\ Len(Rest(p, k)) = N - k
             /\ \A j \in 1 .. N - k : Rest(p, k)[j] = p[k + j]
  <2>1. N - k \in Nat /\ \A j \in 1 .. N - k : k + j \in 1 .. N
    BY <1>1
  <2>2. \A j \in 1 .. N - k : p[k + j] \in S
    BY <1>1, <2>1
  <2>3. Rest(p, k) = [j \in 1 .. N - k |-> p[k + j]]
    BY <1>1 DEF Rest
  <2> QED
    BY <2>1, <2>2, <2>3
<1>3. ASSUME n # 0 PROVE Rest(p, n - 1) = Lay(<<p[n]>>, Rest(p, n))
  <2> DEFINE first == <<p[n]>>
             rest == Rest(p, n)
             both == Lay(first, rest)
             all == Rest(p, n - 1)
  <2>1. n \in 1 .. N /\ n \in 0 .. N /\ n - 1 \in 0 .. N /\ N - (n - 1) = 1 + (N - n)
        /\ N - n \in Nat
    BY <1>1, <1>3
  <2>2. first \in Seq(S) /\ Len(first) = 1 /\ first[1] = p[n]
    <3>1. p[n] \in S
      BY <1>1, <2>1
    <3> QED
      BY <3>1
  <2>3. /\ rest \in Seq(S) /\ Len(rest) = N - n
        /\ \A j \in 1 .. N - n : rest[j] = p[n + j]
    BY <1>2, <2>1
  <2>4. /\ all \in Seq(S) /\ Len(all) = 1 + (N - n)
        /\ \A j \in 1 .. 1 + (N - n) : all[j] = p[(n - 1) + j]
    BY <1>2, <2>1
  <2> HIDE DEF first, rest, all
  <2>5. /\ both \in Seq(S) /\ Len(both) = 1 + (N - n)
        /\ \A i \in 1 .. 1 : both[i] = first[i]
        /\ \A j \in 1 .. N - n : both[1 + j] = rest[j]
    <3>1. /\ both \in Seq(S) /\ Len(both) = Len(first) + Len(rest)
          /\ \A i \in 1 .. Len(first) : both[i] = first[i]
          /\ \A j \in 1 .. Len(rest) : both[Len(first) + j] = rest[j]
      <4>1. first \in Seq(S) /\ rest \in Seq(S)
        BY <2>2, <2>3
      <4>2. /\ Lay(first, rest) \in Seq(S) /\ Len(Lay(first, rest)) = Len(first) + Len(rest)
            /\ \A i \in 1 .. Len(first) : Lay(first, rest)[i] = first[i]
        BY <4>1, LayIs
      <4>3. \A j \in 1 .. Len(rest) : Lay(first, rest)[Len(first) + j] = rest[j]
        BY <4>1, LayIs
      <4> QED
        BY <4>2, <4>3
    <3> HIDE DEF both
    <3> QED
      BY <2>2, <2>3, <3>1
  <2> HIDE DEF both
  <2>6. ASSUME NEW i \in 1 .. 1 + (N - n) PROVE all[i] = both[i]
    <3>1. CASE i = 1
      <4>1. (n - 1) + 1 = n
        BY <2>1
      <4> QED
        BY <2>2, <2>4, <2>5, <3>1, <4>1
    <3>2. CASE i # 1
      <4>1. PICK j \in 1 .. N - n : i = 1 + j /\ (n - 1) + i = n + j
        <5>1. i - 1 \in 1 .. N - n /\ i = 1 + (i - 1) /\ (n - 1) + i = n + (i - 1)
          BY <2>1, <3>2
        <5> QED
          BY <5>1
      <4>2. all[i] = p[n + j]
        BY <2>4, <4>1
      <4>3. both[i] = p[n + j]
        BY <2>3, <2>5, <4>1
      <4> QED
        BY <4>2, <4>3
    <3> QED
      BY <3>1, <3>2
  <2>7. all = both
    BY <2>4, <2>5, <2>6, SeqEqual
  <2> QED
    BY <2>7 DEF all, both, first, rest
<1> QED
  BY <1>1, <1>2, <1>3

LEMMA RestEnds ==
    ASSUME NEW S, NEW p \in Seq(S)
    PROVE  Rest(p, 0) = p /\ Rest(p, Len(p)) = <<>>
<1>1. Len(p) \in Nat /\ 0 \in 0 .. Len(p) /\ Len(p) \in 0 .. Len(p)
  BY LenProperties
<1>2. Rest(p, Len(p)) \in Seq(S) /\ Len(Rest(p, Len(p))) = Len(p) - Len(p)
  BY <1>1, RestIs
<1>3. Rest(p, Len(p)) = <<>>
  BY <1>1, <1>2, EmptySeq
<1>4. Rest(p, 0) \in Seq(S) /\ Len(Rest(p, 0)) = Len(p)
  <2>1. Rest(p, 0) \in Seq(S) /\ Len(Rest(p, 0)) = Len(p) - 0
    BY <1>1, RestIs
  <2> QED
    BY <1>1, <2>1
<1>5. \A i \in 1 .. Len(p) : Rest(p, 0)[i] = p[i]
  BY <1>1 DEF Rest
<1>6. Rest(p, 0) = p
  BY <1>4, <1>5, SeqEqual
<1> QED
  BY <1>3, <1>6

\* However the bytes of a path are spelled, percent_decode reads the path.
LEMMA DecodeSpelled ==
    ASSUME NEW p \in Seq(0 .. 255), NEW pieces, DOMAIN pieces = 1 .. Len(p),
           pieces \in Seq(Seq(Nat)), Len(pieces) = Len(p),
           \A k \in 1 .. Len(p) : pieces[k] \in Spellings(p[k])
    PROVE  percent_decode(FlattenSeq(pieces)) = p
<1> DEFINE s == FlattenSeq(pieces)
<1>1. PICK N \in Nat : N = Len(p) /\ DOMAIN p = 1 .. N
  BY LenProperties
<1>2. PICK ends : Laid(ends, pieces) /\ s = ends[N]
  BY <1>1, FlattenLays
<1> HIDE DEF s
<1>3. N \in 0 .. N /\ s \in Seq(Nat) /\ Len(s) \in Nat
  <2>1. N \in 0 .. N
    BY <1>1
  <2>2. ends[N] \in Seq(Nat) /\ Len(ends[N]) \in Nat
    BY <1>1, <1>2, <2>1, LaidPrefix
  <2> QED
    BY <1>2, <2>1, <2>2
<1>4. PICK tail : DecodedFrom(tail, s, 1) /\ percent_decode(s) = tail[1]
  BY <1>3, DecodeIs
<1>5. \A i \in 1 .. Len(s) + 1 : tail[i] = Decode(tail, s, i)
  BY <1>4 DEF DecodedFrom
<1> DEFINE Read(n) == tail[Len(ends[n]) + 1] = Rest(p, n)
<1>6. Read(N)
  <2>1. Decode(tail, s, Len(s) + 1) = <<>>
    BY <1>3 DEF Decode
  <2>2. tail[Len(s) + 1] = <<>>
    BY <1>3, <1>5, <2>1
  <2>3. Rest(p, N) = <<>>
    BY <1>1, RestEnds
  <2> QED
    BY <1>2, <2>2, <2>3
<1>7. ASSUME NEW n \in 1 .. N, Read(n) PROVE Read(n - 1)
  <2> DEFINE piece == pieces[n]
             c == p[n]
  <2>1. c \in 0 .. 255 /\ piece \in Spellings(c) /\ n \in 0 .. N /\ n # 0
    BY <1>1
  <2>2. /\ Len(ends[n]) = Len(ends[n - 1]) + Len(piece)
        /\ Len(ends[n - 1]) \in Nat /\ Len(piece) \in Nat
        /\ Len(ends[n]) <= Len(s)
        /\ \A j \in 1 .. Len(piece) : s[Len(ends[n - 1]) + j] = piece[j]
    <3>1. /\ Len(ends[n]) = Len(ends[n - 1]) + Len(pieces[n])
          /\ Len(ends[n - 1]) \in Nat /\ Len(pieces[n]) \in Nat
          /\ Len(ends[n]) <= Len(ends[Len(pieces)])
          /\ \A j \in 1 .. Len(pieces[n]) :
               ends[Len(pieces)][Len(ends[n - 1]) + j] = pieces[n][j]
      <4>1. PICK S : S = Nat
        OBVIOUS
      <4>2. n \in 1 .. Len(pieces) /\ pieces \in Seq(Seq(S)) /\ Laid(ends, pieces)
        BY <1>1, <1>2, <4>1
      <4>3. PieceLies(ends, pieces, n)
        BY <4>2, PieceAt
      <4> QED
        BY <4>3 DEF PieceLies
    <3>2. Len(pieces) = N /\ ends[N] = s
      BY <1>1, <1>2
    <3> QED
      BY <3>1, <3>2
  <2>3. Rest(p, n - 1) = Lay(<<c>>, Rest(p, n))
    BY <1>1, <2>1, RestIs
  <2> HIDE DEF piece, c
  <2>4. PICK a \in Nat : a = Len(ends[n - 1])
    BY <2>2
  <2>5. PICK N2 \in Nat : N2 = Len(s)
    BY <1>3
  <2>6. tail[a + 1] = Decode(tail, s, a + 1)
    <3>1. a + 1 \in 1 .. N2 + 1
      BY <2>2, <2>4, <2>5
    <3> QED
      BY <1>5, <2>5, <3>1
  <2>7. CASE Len(piece) = 1 /\ piece[1] = c /\ c # Percent
    <3>1. s[a + 1] = c /\ Len(ends[n]) = a + 1 /\ ~(a + 1 > N2)
      BY <2>2, <2>4, <2>5, <2>7
    <3>2. Decode(tail, s, a + 1) = Lay(<<c>>, tail[(a + 1) + 1])
      BY <2>5, <2>7, <3>1 DEF Decode, EscapeAt
    <3> QED
      BY <1>7, <2>3, <2>4, <2>6, <3>1, <3>2
  <2>8. CASE /\ Len(piece) = 3 /\ piece[1] = Percent
             /\ hex_value(piece[2]) >= 0 /\ hex_value(piece[3]) >= 0
             /\ 16 * hex_value(piece[2]) + hex_value(piece[3]) = c
    <3>1. /\ s[a + 1] = piece[1] /\ s[a + 2] = piece[2] /\ s[a + 3] = piece[3]
          /\ Len(ends[n]) = a + 3 /\ a + 3 <= N2
      BY <2>2, <2>4, <2>5, <2>8
    <3>2. (a + 1) + 1 = a + 2 /\ (a + 1) + 2 = a + 3 /\ (a + 1) + 3 = (a + 3) + 1
          /\ ~(a + 1 > N2)
      BY <2>4, <2>5, <3>1
    <3>3. EscapeAt(s, a + 1)
      BY <2>5, <2>8, <3>1, <3>2 DEF EscapeAt
    <3>4. Decode(tail, s, a + 1) = Lay(<<c>>, tail[(a + 3) + 1])
      BY <2>5, <2>8, <3>1, <3>2, <3>3 DEF Decode
    <3> QED
      BY <1>7, <2>3, <2>4, <2>6, <3>1, <3>4
  <2> QED
    BY <2>1, <2>7, <2>8, SpellingRead
<1> DEFINE Bad == {d \in Nat : d <= N /\ ~Read(N - d)}
<1>8. Bad = {}
  <2> SUFFICES ASSUME Bad # {} PROVE FALSE
    OBVIOUS
  <2>1. PICK d \in Bad : \A k \in Bad : d <= k
    <3>1. Bad \in SUBSET Nat
      OBVIOUS
    <3> HIDE DEF Bad
    <3> QED
      BY <3>1, Least
  <2>2. d \in Nat /\ d <= N /\ ~Read(N - d)
    OBVIOUS
  <2> HIDE DEF Read
  <2>3. d # 0
    <3>1. N - 0 = N
      BY <1>1
    <3> QED
      BY <1>6, <2>2, <3>1
  <2>4. /\ d - 1 \in Nat /\ d - 1 <= N /\ d - 1 < d
        /\ N - (d - 1) \in 1 .. N /\ (N - (d - 1)) - 1 = N - d
    BY <1>1, <2>2, <2>3
  <2>5. Read(N - (d - 1))
    <3>1. d - 1 \notin Bad
      <4> HIDE DEF Bad
      <4> QED
        BY <2>1, <2>2, <2>4
    <3> QED
      BY <2>4, <3>1
  <2> QED
    BY <1>7, <2>2, <2>4, <2>5
<1>9. Read(0)
  <2>1. N \in Nat /\ N <= N /\ N - N = 0
    BY <1>1
  <2>2. N \notin Bad
    <3> HIDE DEF Bad
    <3> QED
      BY <1>8
  <2> HIDE DEF Read
  <2>3. Read(N - N)
    BY <2>1, <2>2
  <2> QED
    BY <2>1, <2>3
<1>10. Len(ends[0]) = 0
  <2>1. 0 \in 0 .. Len(pieces)
    BY <1>1
  <2>2. ends[0] = <<>>
    BY <1>2, <2>1 DEF Laid
  <2> QED
    BY <2>2
<1> QED
  BY <1>4, <1>9, <1>10, RestEnds DEF s

LEMMA SpelledPieces ==
    ASSUME NEW p \in Seq(0 .. 255), NEW N \in Nat, Len(p) = N, NEW pieces,
           DOMAIN pieces = 1 .. N, pieces = [k \in 1 .. N |-> pieces[k]],
           \A k \in 1 .. N : pieces[k] \in Spellings(p[k])
    PROVE  percent_decode(FlattenSeq(pieces)) = p
<1>1. ASSUME NEW k \in 1 .. N PROVE pieces[k] \in Seq(Nat)
  <2>1. p[k] \in 0 .. 255
    BY ElementOfSeq
  <2>2. pieces[k] \in Spellings(p[k])
    OBVIOUS
  <2> QED
    BY <2>1, <2>2, SpellingRead
<1>2. pieces \in [1 .. N -> Seq(Nat)]
  BY <1>1
<1>3. pieces \in Seq(Seq(Nat)) /\ Len(pieces) = N
  BY <1>2
<1> QED
  BY <1>3, DecodeSpelled

\* What file_uri_from_path writes, path_from_file_uri decodes, whatever the bytes.
THEOREM EncodedIsRead ==
    ASSUME NEW p \in Seq(0 .. 255) PROVE percent_decode(percent_encode(p)) = p
<1>1. PICK N \in Nat : N = Len(p) /\ DOMAIN p = 1 .. N
  BY LenProperties
<1> DEFINE pieces == [k \in DOMAIN p |->
                        IF is_unreserved(p[k]) THEN <<p[k]>> ELSE Escape(p[k], 65)]
<1>2. ASSUME NEW k \in 1 .. N PROVE pieces[k] \in Spellings(p[k])
  <2>1. pieces[k] = IF is_unreserved(p[k]) THEN <<p[k]>> ELSE Escape(p[k], 65)
    BY <1>1
  <2>2. is_unreserved(p[k]) => p[k] # Percent
    <3>1. ~is_unreserved(Percent)
      BY DEF is_unreserved, Percent, Slash, Dot, Digits, Capitals, Smalls
    <3> QED
      BY <3>1
  <2> HIDE DEF pieces
  <2> QED
    BY <2>1, <2>2 DEF Spellings
<1>3. DOMAIN pieces = 1 .. N /\ pieces = [k \in 1 .. N |-> pieces[k]]
  BY <1>1
<1>4. percent_encode(p) = FlattenSeq(pieces)
  BY DEF percent_encode
<1> HIDE DEF pieces
<1> QED
  BY <1>1, <1>2, <1>3, <1>4, SpelledPieces

LEMMA PathIs ==
    ASSUME NEW p \in Paths
    PROVE  /\ p \in Seq(0 .. 255) /\ Len(p) \in Nat \ {0} /\ p # <<>>
           /\ p[1] = Slash /\ lexically_normal(p) = p
<1>1. PICK n \in 1 .. MaxLength : p \in [1 .. n -> Bytes]
  BY DEF Paths
<1>2. n \in Nat \ {0} /\ p \in [1 .. n -> 0 .. 255]
  <2>1. n \in Nat \ {0} /\ Bytes \subseteq 0 .. 255
    BY BytesAssumption
  <2>2. \A k \in 1 .. n : p[k] \in 0 .. 255
    BY <1>1, <2>1
  <2>3. p = [k \in 1 .. n |-> p[k]]
    BY <1>1
  <2> QED
    BY <2>1, <2>2, <2>3
<1>3. p \in Seq(0 .. 255) /\ Len(p) = n /\ p # <<>>
  BY <1>2
<1>4. p[1] = Slash /\ lexically_normal(p) = p
  BY DEF Paths
<1> QED
  BY <1>2, <1>3, <1>4

\* However a server spells the bytes of a path, they are read as that path.
LEMMA TextIsRead ==
    ASSUME NEW p \in Paths, NEW text \in TextsFor(p) PROVE percent_decode(text) = p
<1>1. PICK N \in Nat \ {0} : N = Len(p)
  BY PathIs
<1>2. PICK spelled : /\ spelled \in [1 .. N - 1 -> UNION {Spellings(c) : c \in Bytes}]
                     /\ \A k \in DOMAIN spelled : spelled[k] \in Spellings(p[k + 1])
                     /\ text = FlattenSeq(<<<<Slash>>>> \o spelled)
  BY <1>1 DEF TextsFor
<1> DEFINE first == <<<<Slash>>>>
           pieces == Lay(first, spelled)
<1>3. p \in Seq(0 .. 255) /\ p[1] = Slash
  BY PathIs
<1>4. ASSUME NEW k \in 1 .. N - 1
      PROVE  spelled[k] \in Spellings(p[k + 1]) /\ spelled[k] \in Seq(Nat)
  <2>1. spelled[k] \in Spellings(p[k + 1])
    BY <1>2
  <2>2. p[k + 1] \in 0 .. 255
    BY <1>1, <1>3
  <2> QED
    BY <2>1, <2>2, SpellingRead
<1>5. spelled \in Seq(Seq(Nat)) /\ Len(spelled) = N - 1
  <2>1. spelled \in [1 .. N - 1 -> Seq(Nat)] /\ N - 1 \in Nat
    BY <1>1, <1>2, <1>4
  <2> QED
    BY <2>1
<1>6. first \in Seq(Seq(Nat)) /\ Len(first) = 1 /\ first[1] = <<Slash>>
  <2>1. Slash \in Nat
    BY DEF Slash
  <2>2. <<Slash>> \in Seq(Nat)
    BY <2>1
  <2> DEFINE slash == <<Slash>>
  <2> HIDE DEF slash
  <2>3. slash \in Seq(Nat)
    BY <2>2 DEF slash
  <2>4. <<slash>> \in Seq(Seq(Nat)) /\ Len(<<slash>>) = 1 /\ <<slash>>[1] = slash
    BY <2>3
  <2> QED
    BY <2>4 DEF slash
<1>7. text = FlattenSeq(pieces)
  BY <1>2 DEF Lay
<1> HIDE DEF first
<1>8. pieces \in Seq(Seq(Nat)) /\ Len(pieces) = Len(first) + Len(spelled)
  BY <1>5, <1>6, LayIs
<1>9. \A i \in 1 .. Len(first) : pieces[i] = first[i]
  BY <1>5, <1>6, LayIs
<1>10. \A j \in 1 .. Len(spelled) : pieces[Len(first) + j] = spelled[j]
  <2>1. first \in Seq(Seq(Nat)) /\ spelled \in Seq(Seq(Nat))
    BY <1>5, <1>6
  <2>2. \A j \in 1 .. Len(spelled) : Lay(first, spelled)[Len(first) + j] = spelled[j]
    BY <2>1, LayIs
  <2> QED
    BY <2>2
<1> HIDE DEF pieces
<1>11. Len(pieces) = N /\ DOMAIN pieces = 1 .. N /\ pieces = [k \in 1 .. N |-> pieces[k]]
  BY <1>5, <1>6, <1>8
<1>12. ASSUME NEW k \in 1 .. N PROVE pieces[k] \in Spellings(p[k])
  <2>1. CASE k = 1
    <3>1. pieces[1] = <<Slash>>
      BY <1>6, <1>9
    <3>2. <<Slash>> \in Spellings(Slash)
      BY DEF Spellings, Slash, Percent
    <3> QED
      BY <1>3, <2>1, <3>1, <3>2
  <2>2. CASE k # 1
    <3>1. PICK j \in 1 .. N - 1 : k = 1 + j /\ k = j + 1
      <4>1. k - 1 \in 1 .. N - 1 /\ k = 1 + (k - 1) /\ k = (k - 1) + 1
        BY <2>2
      <4> QED
        BY <4>1
    <3>2. pieces[k] = spelled[j]
      BY <1>5, <1>6, <1>10, <3>1
    <3> QED
      BY <1>4, <3>1, <3>2
  <2> QED
    BY <2>1, <2>2
<1> QED
  BY <1>1, <1>3, <1>7, <1>11, <1>12, SpelledPieces

\* What path_from_file_uri makes of each URI a path has.
LEMMA UriIsRead ==
    ASSUME NEW p \in Paths, NEW u \in UrisOf(p)
    PROVE  path_from_file_uri(u) =
             IF u.scheme = "file" /\ u.host # "other" THEN p ELSE Throws
<1>1. CASE u.scheme # "file" \/ u.host = "other"
  BY <1>1 DEF path_from_file_uri
<1>2. CASE u.scheme = "file" /\ u.host # "other"
  <2>1. percent_decode(u.text) = p
    <3>1. CASE u = file_uri_from_path(p)
      <4>1. u.text = percent_encode(p)
        BY <3>1 DEF file_uri_from_path
      <4>2. p \in Seq(0 .. 255)
        BY PathIs
      <4> QED
        BY <4>1, <4>2, EncodedIsRead
    <3>2. CASE u \in [scheme : {"file"}, host : {"", "localhost", "other"}, text : TextsFor(p)]
      <4>1. u.text \in TextsFor(p)
        BY <3>2
      <4> QED
        BY <4>1, TextIsRead
    <3>3. CASE u \in [scheme : {"jdt"}, host : {""}, text : {p}]
      BY <1>2, <3>3
    <3> QED
      BY <3>1, <3>2, <3>3 DEF UrisOf
  <2>2. p # <<>> /\ p[1] = Slash /\ lexically_normal(p) = p
    BY PathIs
  <2> QED
    BY <1>2, <2>1, <2>2 DEF path_from_file_uri
<1> QED
  BY <1>1, <1>2

\* A file is named by one of its URIs, and read is what the reader makes of it.
UriInv ==
    /\ path \in Paths /\ uri \in UrisOf(path)
    /\ read \in {NotRead, path_from_file_uri(uri)}

\* In whatever case and however many of its bytes a file's URI has escaped, the path
\* read from it (path_from_file_uri) is the file's.
THEOREM AnySpellingRead == UriSpec => []AnySpelling
<1>1. InitUri => UriInv
  BY DEF InitUri, UriInv
<1>2. UriInv /\ [ReadUri]_uriVars => UriInv'
  BY DEF UriInv, ReadUri, uriVars
<1>3. UriInv => AnySpelling
  BY UriIsRead DEF UriInv, AnySpelling
<1> QED
  BY <1>1, <1>2, <1>3, PTL DEF UriSpec

-----------------------------------------------------------------------------
(* Places: a child's is its parent's and a number more.                     *)

Child(place, k) == Append(place, k)

LEMMA ChildIs ==
    ASSUME NEW S, NEW x \in Seq(S), NEW k \in S
    PROVE  /\ Child(x, k) \in Seq(S) /\ Child(x, k) # NoMethod
           /\ Len(x) \in Nat /\ Len(Child(x, k)) = Len(x) + 1
           /\ \A i \in 1 .. Len(x) : Child(x, k)[i] = x[i]
           /\ Child(x, k)[Len(x) + 1] = k
  BY AppendProperties, LenProperties DEF Child, NoMethod

LEMMA ChildRoot ==
    ASSUME NEW S, NEW x \in Seq(S), NEW k \in S
    PROVE  Len(Child(x, k)) = Len(x) + 1 /\ Child(x, k)[1] = IF Len(x) = 0 THEN k ELSE x[1]
<1>1. Len(x) \in Nat /\ Len(Child(x, k)) = Len(x) + 1 /\ Child(x, k)[Len(x) + 1] = k
  BY ChildIs
<1>2. \A i \in 1 .. Len(x) : Child(x, k)[i] = x[i]
  BY ChildIs
<1>3. PICK d \in Nat : d = Len(x)
  BY <1>1
<1>4. CASE d = 0
  BY <1>1, <1>3, <1>4
<1>5. CASE d # 0
  <2>1. 1 \in 1 .. d
    BY <1>5
  <2> QED
    BY <1>1, <1>2, <1>3, <1>5, <2>1
<1> QED
  BY <1>4, <1>5

\* What is under a place is one of its children, or under it.
LEMMA UnderChild ==
    ASSUME NEW S, NEW x \in Seq(S), NEW k \in S, NEW q \in Seq(S)
    PROVE  (q = Child(x, k) \/ Under(Child(x, k), q)) <=> (Under(x, q) /\ q[Len(x) + 1] = k)
<1> DEFINE y == Child(x, k)
<1>1. /\ y \in Seq(S) /\ \A i \in 1 .. Len(x) : y[i] = x[i]
      /\ Len(y) = Len(x) + 1 /\ y[Len(x) + 1] = k
  BY ChildIs
<1> HIDE DEF y
<1>2. PICK d \in Nat, m \in Nat :
         /\ d = Len(x) /\ DOMAIN x = 1 .. d /\ m = Len(q) /\ DOMAIN q = 1 .. m
         /\ DOMAIN y = 1 .. Len(y)
  BY <1>1, LenProperties
<1>3. Len(y) = d + 1 /\ y[d + 1] = k /\ \A i \in 1 .. d : y[i] = x[i]
  BY <1>1, <1>2
<1>4. ASSUME q = y \/ Under(y, q) PROVE Under(x, q) /\ q[Len(x) + 1] = k
  <2>1. d < m /\ \A i \in 1 .. d + 1 : y[i] = q[i]
    BY <1>2, <1>3, <1>4 DEF Under
  <2> QED
    BY <1>2, <1>3, <2>1 DEF Under
<1>5. ASSUME Under(x, q), q[Len(x) + 1] = k PROVE q = y \/ Under(y, q)
  <2>1. d < m /\ \A i \in 1 .. d : x[i] = q[i]
    BY <1>2, <1>5 DEF Under
  <2>2. \A i \in 1 .. d + 1 : y[i] = q[i]
    BY <1>2, <1>3, <1>5, <2>1
  <2>3. CASE m = d + 1
    BY <1>1, <1>2, <1>3, <2>2, <2>3, SeqEqual
  <2>4. CASE m # d + 1
    <3>1. d + 1 < m
      BY <2>1, <2>4
    <3> QED
      BY <1>2, <1>3, <2>2, <3>1 DEF Under
  <2> QED
    BY <2>3, <2>4
<1> QED
  BY <1>4, <1>5 DEF y

\* What is under an earlier child comes before what is under a later one.
LEMMA BranchBefore ==
    ASSUME NEW S, NEW x \in Seq(S), NEW r \in Seq(S), NEW q \in Seq(S),
           Under(x, r), Under(x, q), r[Len(x) + 1] < q[Len(x) + 1]
    PROVE  Before(r, q)
<1>1. PICK d \in Nat, l \in Nat, m \in Nat :
         /\ d = Len(x) /\ DOMAIN x = 1 .. d
         /\ l = Len(r) /\ DOMAIN r = 1 .. l /\ m = Len(q) /\ DOMAIN q = 1 .. m
  BY LenProperties
<1>2. d < l /\ d < m /\ \A i \in 1 .. d : r[i] = q[i]
  BY <1>1 DEF Under
<1>3. d + 1 \in DOMAIN r \cap DOMAIN q /\ (d + 1) - 1 = d /\ r[d + 1] < q[d + 1]
  BY <1>1, <1>2
<1> QED
  BY <1>2, <1>3 DEF Before

\* What lies where there are only parents: the places of symbols.
AreGrown(places) ==
    /\ \A q \in places : q \in Seq(1 .. MaxChildren) /\ Len(q) \in 1 .. MaxDepth
    /\ \A q \in places : \A n \in 1 .. Len(q) : Child(SubSeq(q, 1, n - 1), q[n]) \in places

LEMMA BranchIsThere ==
    ASSUME NEW places, AreGrown(places), NEW x \in Seq(1 .. MaxChildren),
           NEW q \in places, Under(x, q)
    PROVE  /\ q[Len(x) + 1] \in 1 .. MaxChildren
           /\ Child(x, q[Len(x) + 1]) \in places
<1>1. q \in Seq(1 .. MaxChildren)
  BY DEF AreGrown
<1>2. PICK d \in Nat, m \in Nat :
         d = Len(x) /\ DOMAIN x = 1 .. d /\ m = Len(q) /\ DOMAIN q = 1 .. m
  BY <1>1, LenProperties
<1>3. d < m /\ (\A i \in 1 .. d : x[i] = q[i]) /\ d + 1 \in 1 .. m /\ (d + 1) - 1 = d
  BY <1>2 DEF Under
<1>4. q[d + 1] \in 1 .. MaxChildren
  BY <1>1, <1>2, <1>3, ElementOfSeq
<1>5. \A i \in 1 .. d : q[i] \in 1 .. MaxChildren
  BY <1>1, <1>2, <1>3, ElementOfSeq
<1> DEFINE prefix == SubSeq(q, 1, d)
<1>6. prefix = x
  <2>1. 1 \in Int /\ d \in Int /\ (IF 1 <= d THEN d - 1 + 1 ELSE 0) = d /\ d - 1 + 1 = d
        /\ \A i \in 1 .. d : 1 + i - 1 = i
    BY <1>2
  <2>2. /\ prefix \in Seq(1 .. MaxChildren)
        /\ Len(prefix) = IF 1 <= d THEN d - 1 + 1 ELSE 0
    BY <1>5, <2>1, SubSeqProperties
  <2>3. \A i \in 1 .. d - 1 + 1 : prefix[i] = q[1 + i - 1]
    BY <1>5, <2>1, SubSeqProperties
  <2> HIDE DEF prefix
  <2>4. Len(prefix) = Len(x) /\ \A i \in 1 .. Len(x) : prefix[i] = x[i]
    BY <1>2, <1>3, <2>1, <2>2, <2>3
  <2> QED
    BY <2>2, <2>4, SeqEqual
<1>7. Child(SubSeq(q, 1, (d + 1) - 1), q[d + 1]) \in places
  BY <1>2, <1>3 DEF AreGrown
<1> QED
  BY <1>2, <1>3, <1>4, <1>6, <1>7

-----------------------------------------------------------------------------
(* The loop of find_method_symbol.                                          *)

\* What its first k rounds leave, given what the round before left.
Round(upTo, symbols, x, below, k) ==
    IF k = 0 THEN NoMethod
    ELSE IF upTo[k - 1] # NoMethod \/ Child(x, k) \notin DOMAIN symbols THEN upTo[k - 1]
    ELSE IF IsTheMethod(symbols[Child(x, k)]) THEN Child(x, k)
    ELSE below[Child(x, k)]
Rounds(upTo, symbols, x, below, n) ==
    upTo = [k \in 0 .. n |-> Round(upTo, symbols, x, below, k)]

LEMMA RoundsExist ==
    ASSUME NEW symbols, NEW x, NEW below, NEW n \in Nat
    PROVE  \E upTo : Rounds(upTo, symbols, x, below, n)
<1> DEFINE Missing == {k \in Nat : ~ \E upTo : Rounds(upTo, symbols, x, below, k)}
<1> SUFFICES ASSUME Missing # {} PROVE FALSE
  OBVIOUS
<1>1. PICK m \in Missing : \A k \in Missing : m <= k
  <2>1. Missing \in SUBSET Nat
    OBVIOUS
  <2> HIDE DEF Missing
  <2> QED
    BY <2>1, Least
<1>2. m \in Nat /\ ~ \E upTo : Rounds(upTo, symbols, x, below, m)
  OBVIOUS
<1>3. CASE m = 0
  <2> DEFINE g == [k \in 0 .. 0 |-> NoMethod]
  <2>1. \A k \in 0 .. 0 : Round(g, symbols, x, below, k) = NoMethod
    BY DEF Round
  <2>2. Rounds(g, symbols, x, below, 0)
    BY <2>1 DEF Rounds
  <2> QED
    BY <1>2, <1>3, <2>2
<1>4. CASE m # 0
  <2>1. m - 1 \in Nat /\ m - 1 \notin Missing
    <3>1. m - 1 \in Nat /\ m - 1 < m
      BY <1>2, <1>4
    <3> HIDE DEF Missing
    <3> QED
      BY <1>1, <1>2, <3>1
  <2>2. PICK h : Rounds(h, symbols, x, below, m - 1)
    BY <2>1
  <2> DEFINE g == [k \in 0 .. m |-> IF k < m THEN h[k] ELSE Round(h, symbols, x, below, m)]
  <2>3. ASSUME NEW k \in 0 .. m PROVE g[k] = Round(g, symbols, x, below, k)
    <3>1. Round(g, symbols, x, below, k) = Round(h, symbols, x, below, k)
      <4>1. CASE k = 0
        BY <4>1 DEF Round
      <4>2. CASE k # 0
        <5>1. k - 1 \in 0 .. m /\ k - 1 < m
          BY <1>2, <4>2
        <5>2. g[k - 1] = h[k - 1]
          BY <5>1
        <5> HIDE DEF g
        <5> QED
          BY <5>2 DEF Round
      <4> QED
        BY <4>1, <4>2
    <3>2. CASE k < m
      <4>1. k \in 0 .. m - 1
        BY <1>2, <3>2
      <4>2. h[k] = Round(h, symbols, x, below, k)
        BY <2>2, <4>1 DEF Rounds
      <4>3. g[k] = h[k]
        BY <3>2
      <4> QED
        BY <3>1, <4>2, <4>3
    <3>3. CASE k = m
      <4>1. g[k] = Round(h, symbols, x, below, k)
        BY <1>2, <3>3
      <4> QED
        BY <3>1, <4>1
    <3> QED
      BY <1>2, <3>2, <3>3
  <2>4. Rounds(g, symbols, x, below, m)
    <3>1. g = [k \in 0 .. m |-> g[k]]
      OBVIOUS
    <3> HIDE DEF g
    <3> QED
      BY <2>3, <3>1 DEF Rounds
  <2> QED
    BY <1>2, <2>4
<1> QED
  BY <1>3, <1>4

LEMMA SearchIs ==
    ASSUME NEW symbols, NEW x, NEW below
    PROVE  \E upTo : /\ Rounds(upTo, symbols, x, below, MaxChildren)
                     /\ Search(symbols, x, below) = upTo[MaxChildren]
<1> DEFINE upTo == CHOOSE f : f = [k \in 0 .. MaxChildren |->
              IF k = 0 THEN NoMethod
              ELSE IF f[k - 1] # NoMethod \/ Append(x, k) \notin DOMAIN symbols THEN f[k - 1]
              ELSE IF IsTheMethod(symbols[Append(x, k)]) THEN Append(x, k)
              ELSE below[Append(x, k)]]
<1>1. Search(symbols, x, below) = upTo[MaxChildren]
  BY DEF Search
<1>2. PICK g : Rounds(g, symbols, x, below, MaxChildren)
  BY SearchAssumption, RoundsExist
<1>3. g = [k \in 0 .. MaxChildren |->
              IF k = 0 THEN NoMethod
              ELSE IF g[k - 1] # NoMethod \/ Append(x, k) \notin DOMAIN symbols THEN g[k - 1]
              ELSE IF IsTheMethod(symbols[Append(x, k)]) THEN Append(x, k)
              ELSE below[Append(x, k)]]
  BY <1>2 DEF Rounds, Round, Child
<1>4. upTo = [k \in 0 .. MaxChildren |->
              IF k = 0 THEN NoMethod
              ELSE IF upTo[k - 1] # NoMethod \/ Append(x, k) \notin DOMAIN symbols
                   THEN upTo[k - 1]
              ELSE IF IsTheMethod(symbols[Append(x, k)]) THEN Append(x, k)
              ELSE below[Append(x, k)]]
  BY <1>3
<1> HIDE DEF upTo
<1>5. Rounds(upTo, symbols, x, below, MaxChildren)
  BY <1>4 DEF Rounds, Round, Child
<1> QED
  BY <1>1, <1>5

\* The methods under a place and its first n children, and the first of them.
Sought(symbols, x, n, q) ==
    IsTheMethod(symbols[q]) /\ Under(x, q) /\ q[Len(x) + 1] <= n
IsFirst(r, symbols, x, n) ==
    IF r = NoMethod THEN \A q \in DOMAIN symbols : ~Sought(symbols, x, n, q)
    ELSE /\ r \in DOMAIN symbols /\ Sought(symbols, x, n, r)
         /\ \A q \in DOMAIN symbols : Sought(symbols, x, n, q) => q = r \/ Before(r, q)

\* A round of the loop: from the first under k - 1 children to the first under k.
LEMMA RoundFinds ==
    ASSUME NEW symbols, AreGrown(DOMAIN symbols), NEW x \in Seq(1 .. MaxChildren),
           NEW k \in 1 .. MaxChildren, NEW below, NEW upTo,
           IsFirst(upTo[k - 1], symbols, x, k - 1),
           IsFirst(below[Child(x, k)], symbols, Child(x, k), MaxChildren)
    PROVE  IsFirst(Round(upTo, symbols, x, below, k), symbols, x, k)
<1> DEFINE y == Child(x, k)
           r == Round(upTo, symbols, x, below, k)
           last == upTo[k - 1]
<1>1. /\ y \in Seq(1 .. MaxChildren) /\ y # NoMethod /\ Len(x) \in Nat
      /\ Len(y) = Len(x) + 1 /\ y[Len(x) + 1] = k
  <2>1. PICK K : K = 1 .. MaxChildren
    OBVIOUS
  <2>2. x \in Seq(K) /\ k \in K
    BY <2>1
  <2>3. Child(x, k) \in Seq(K) /\ Child(x, k) # NoMethod /\ Len(x) \in Nat
    BY <2>2, ChildIs
  <2>4. Len(Child(x, k)) = Len(x) + 1 /\ Child(x, k)[Len(x) + 1] = k
    BY <2>2, ChildIs
  <2> QED
    BY <2>1, <2>3, <2>4
<1>2. /\ IsFirst(last, symbols, x, k - 1)
      /\ IsFirst(below[y], symbols, y, MaxChildren)
      /\ r = IF last # NoMethod \/ y \notin DOMAIN symbols THEN last
             ELSE IF IsTheMethod(symbols[y]) THEN y
             ELSE below[y]
  <2>1. k # 0
    OBVIOUS
  <2> QED
    BY <2>1 DEF Round
<1>3. ASSUME NEW q \in DOMAIN symbols
      PROVE  /\ q \in Seq(1 .. MaxChildren) /\ q # NoMethod
             /\ (q = y \/ Under(y, q)) <=> (Under(x, q) /\ q[Len(x) + 1] = k)
             /\ Under(x, q) => q[Len(x) + 1] \in Nat
             /\ Under(x, q) /\ q[Len(x) + 1] = k => y \in DOMAIN symbols
             /\ Under(y, q) => q[Len(y) + 1] <= MaxChildren
  <2>1. q \in Seq(1 .. MaxChildren) /\ Len(q) \in 1 .. MaxDepth
    BY DEF AreGrown
  <2>2. q # NoMethod
    BY <2>1, EmptySeq, SearchAssumption DEF NoMethod
  <2>3. (q = y \/ Under(y, q)) <=> (Under(x, q) /\ q[Len(x) + 1] = k)
    BY <2>1, UnderChild
  <2>4. Under(x, q) => /\ q[Len(x) + 1] \in 1 .. MaxChildren
                       /\ Child(x, q[Len(x) + 1]) \in DOMAIN symbols
    BY BranchIsThere
  <2>5. Under(y, q) => q[Len(y) + 1] \in 1 .. MaxChildren
    BY <1>1, BranchIsThere
  <2> HIDE DEF y
  <2>6. Under(y, q) => q[Len(y) + 1] <= MaxChildren
    BY <2>5, SearchAssumption
  <2>7. Under(x, q) => q[Len(x) + 1] \in Nat
    BY <2>4
  <2> QED
    BY <2>1, <2>2, <2>3, <2>4, <2>6, <2>7 DEF y
<1> HIDE DEF y, r, last
\* What is sought up to the k-th child is sought up to the one before, or is that
\* child or under it.
<1>4. ASSUME NEW q \in DOMAIN symbols
      PROVE  Sought(symbols, x, k, q) <=>
               \/ Sought(symbols, x, k - 1, q)
               \/ IsTheMethod(symbols[q]) /\ (q = y \/ Under(y, q))
  <2>1. Under(x, q) => (q[Len(x) + 1] <= k <=> q[Len(x) + 1] <= k - 1 \/ q[Len(x) + 1] = k)
    BY <1>3
  <2> QED
    BY <1>3, <2>1, Zenon DEF Sought
<1>5. CASE last # NoMethod
  <2>1. r = last /\ last \in DOMAIN symbols /\ Sought(symbols, x, k - 1, last)
    BY <1>2, <1>5 DEF IsFirst
  <2>2. ASSUME NEW q \in DOMAIN symbols, Sought(symbols, x, k, q)
        PROVE  q = last \/ Before(last, q)
    <3>1. CASE Sought(symbols, x, k - 1, q)
      BY <1>2, <1>5, <3>1 DEF IsFirst
    <3>2. CASE q = y \/ Under(y, q)
      <4>1. Under(x, q) /\ q[Len(x) + 1] = k
        BY <1>3, <3>2
      <4>2. Under(x, last) /\ last[Len(x) + 1] \in Nat /\ last[Len(x) + 1] <= k - 1
        BY <1>3, <2>1 DEF Sought
      <4>3. last[Len(x) + 1] < q[Len(x) + 1]
        BY <4>1, <4>2
      <4> QED
        BY <1>3, <2>1, <4>1, <4>2, <4>3, BranchBefore
    <3> QED
      BY <1>4, <2>2, <3>1, <3>2
  <2>3. Sought(symbols, x, k, last)
    BY <1>4, <2>1
  <2> QED
    BY <1>5, <2>1, <2>2, <2>3 DEF IsFirst, r
<1>6. ASSUME last = NoMethod
      PROVE  \A q \in DOMAIN symbols : ~Sought(symbols, x, k - 1, q)
  BY <1>2, <1>6 DEF IsFirst
<1>7. CASE last = NoMethod /\ y \notin DOMAIN symbols
  <2>1. r = NoMethod
    BY <1>2, <1>7
  <2>2. ASSUME NEW q \in DOMAIN symbols PROVE ~Sought(symbols, x, k, q)
    BY <1>3, <1>4, <1>6, <1>7
  <2> QED
    BY <2>1, <2>2 DEF IsFirst, r
<1>8. CASE last = NoMethod /\ y \in DOMAIN symbols /\ IsTheMethod(symbols[y])
  <2>1. r = y
    BY <1>2, <1>8
  <2>2. Sought(symbols, x, k, y)
    BY <1>4, <1>8
  <2>3. ASSUME NEW q \in DOMAIN symbols, Sought(symbols, x, k, q)
        PROVE  q = y \/ Before(y, q)
    BY <1>4, <1>6, <1>8, <2>3 DEF Before
  <2> QED
    BY <1>1, <1>8, <2>1, <2>2, <2>3 DEF IsFirst, r
<1>9. CASE last = NoMethod /\ y \in DOMAIN symbols /\ ~IsTheMethod(symbols[y])
  <2>1. r = below[y]
    BY <1>2, <1>9
  <2>2. ASSUME NEW q \in DOMAIN symbols
        PROVE  Sought(symbols, x, k, q) <=> Sought(symbols, y, MaxChildren, q)
    <3>1. Sought(symbols, x, k, q) <=> IsTheMethod(symbols[q]) /\ Under(y, q)
      BY <1>4, <1>6, <1>9
    <3>2. Under(y, q) => q[Len(y) + 1] <= MaxChildren
      BY <1>3
    <3> QED
      BY <3>1, <3>2 DEF Sought
  <2>3. CASE r = NoMethod
    BY <1>2, <2>1, <2>2, <2>3 DEF IsFirst, r
  <2>4. CASE r # NoMethod
    BY <1>2, <2>1, <2>2, <2>4 DEF IsFirst, r
  <2> QED
    BY <2>3, <2>4
<1> QED
  BY <1>5, <1>7, <1>8, <1>9

\* The loop over the children of a place finds the first method under it, if each
\* call for a child's own does.
LEMMA SearchFinds ==
    ASSUME NEW symbols, AreGrown(DOMAIN symbols), NEW x \in Seq(1 .. MaxChildren), NEW below,
           \A k \in 1 .. MaxChildren :
               IsFirst(below[Child(x, k)], symbols, Child(x, k), MaxChildren)
    PROVE  IsFirst(Search(symbols, x, below), symbols, x, MaxChildren)
<1>1. PICK upTo : /\ Rounds(upTo, symbols, x, below, MaxChildren)
                  /\ Search(symbols, x, below) = upTo[MaxChildren]
  BY SearchIs
<1>2. MaxChildren \in Nat /\ \A k \in 0 .. MaxChildren : upTo[k] = Round(upTo, symbols, x, below, k)
  BY <1>1, SearchAssumption DEF Rounds
<1> DEFINE Bad == {k \in Nat : k <= MaxChildren /\ ~IsFirst(upTo[k], symbols, x, k)}
<1>3. Bad = {}
  <2> SUFFICES ASSUME Bad # {} PROVE FALSE
    OBVIOUS
  <2>1. PICK k \in Bad : \A j \in Bad : k <= j
    <3>1. Bad \in SUBSET Nat
      OBVIOUS
    <3> HIDE DEF Bad
    <3> QED
      BY <3>1, Least
  <2>2. k \in Nat /\ k <= MaxChildren /\ ~IsFirst(upTo[k], symbols, x, k)
    OBVIOUS
  <2>3. k \in 0 .. MaxChildren /\ upTo[k] = Round(upTo, symbols, x, below, k)
    <3>1. k \in 0 .. MaxChildren
      BY <1>2, <2>2
    <3> QED
      BY <1>2, <3>1
  <2>4. CASE k = 0
    <3>1. upTo[k] = NoMethod
      BY <2>3, <2>4 DEF Round
    <3>2. ASSUME NEW q \in DOMAIN symbols PROVE ~Sought(symbols, x, k, q)
      <4>1. Under(x, q) => q[Len(x) + 1] \in 1 .. MaxChildren
        BY BranchIsThere
      <4>2. Under(x, q) => ~(q[Len(x) + 1] <= k)
        BY <2>4, <4>1
      <4> QED
        BY <4>2 DEF Sought
    <3>3. IsFirst(upTo[k], symbols, x, k)
      BY <3>1, <3>2 DEF IsFirst
    <3> QED
      BY <2>2, <3>3
  <2>5. CASE k # 0
    <3>1. k \in 1 .. MaxChildren /\ k - 1 \in Nat /\ k - 1 <= MaxChildren /\ k - 1 < k
      BY <1>2, <2>2, <2>5
    <3>2. k - 1 \notin Bad
      <4> HIDE DEF Bad
      <4> QED
        BY <2>1, <2>2, <3>1
    <3>3. IsFirst(upTo[k - 1], symbols, x, k - 1)
      BY <3>1, <3>2
    <3>4. IsFirst(below[Child(x, k)], symbols, Child(x, k), MaxChildren)
      BY <3>1
    <3>5. IsFirst(Round(upTo, symbols, x, below, k), symbols, x, k)
      BY <3>1, <3>3, <3>4, RoundFinds
    <3> QED
      BY <2>2, <2>3, <3>5
  <2> QED
    BY <2>4, <2>5
<1>4. IsFirst(upTo[MaxChildren], symbols, x, MaxChildren)
  <2>1. MaxChildren \in Nat /\ MaxChildren <= MaxChildren
    BY <1>2
  <2> QED
    BY <1>3, <2>1
<1> QED
  BY <1>1, <1>4

-----------------------------------------------------------------------------
(* The recursion of find_method_symbol, from the deepest level up.          *)

Level(under, symbols, depth) ==
    [place \in PlacesAt(depth) |->
        IF depth = MaxDepth THEN NoMethod ELSE Search(symbols, place, under[depth + 1])]
Levels(under, symbols, low) ==
    under = [depth \in low .. MaxDepth |-> Level(under, symbols, depth)]

LEMMA LevelsExist ==
    ASSUME NEW symbols, NEW n \in 0 .. MaxDepth
    PROVE  \E under : Levels(under, symbols, MaxDepth - n)
<1> PICK N \in Nat : N = MaxDepth
  BY SearchAssumption
<1> DEFINE Missing == {k \in Nat : k <= N /\ ~ \E under : Levels(under, symbols, N - k)}
<1> SUFFICES ASSUME Missing # {} PROVE FALSE
  <2>1. n \in Nat /\ n <= N /\ MaxDepth - n = N - n
    OBVIOUS
  <2>2. n \notin Missing => \E under : Levels(under, symbols, N - n)
    BY <2>1
  <2> HIDE DEF Missing
  <2> QED
    BY <2>1, <2>2
<1>1. PICK m \in Missing : \A k \in Missing : m <= k
  <2>1. Missing \in SUBSET Nat
    OBVIOUS
  <2> HIDE DEF Missing
  <2> QED
    BY <2>1, Least
<1>2. m \in Nat /\ m <= N /\ ~ \E under : Levels(under, symbols, N - m)
  OBVIOUS
<1>3. CASE m = 0
  <2> DEFINE g == [depth \in N .. N |-> [place \in PlacesAt(depth) |-> NoMethod]]
  <2>1. \A depth \in N .. N : Level(g, symbols, depth) = [place \in PlacesAt(depth) |-> NoMethod]
    BY DEF Level
  <2>2. N - m = N
    BY <1>3
  <2>3. Levels(g, symbols, N)
    BY <2>1 DEF Levels
  <2> QED
    BY <1>2, <2>2, <2>3
<1>4. CASE m # 0
  <2>1. m - 1 \in Nat /\ m - 1 <= N /\ m - 1 < m
    BY <1>2, <1>4
  <2>2. m - 1 \notin Missing
    <3> HIDE DEF Missing
    <3> QED
      BY <1>1, <1>2, <2>1
  <2>3. PICK h : Levels(h, symbols, N - (m - 1))
    BY <2>1, <2>2
  <2>4. PICK low \in Nat : low = N - m /\ low + 1 = N - (m - 1) /\ low < N
    <3>1. N - m \in Nat /\ (N - m) + 1 = N - (m - 1) /\ N - m < N
      BY <1>2, <1>4
    <3> QED
      BY <3>1
  <2> DEFINE g == [depth \in low .. N |->
                     IF depth = low THEN Level(h, symbols, low) ELSE h[depth]]
  <2>5. ASSUME NEW depth \in low .. N PROVE g[depth] = Level(g, symbols, depth)
    <3>1. Level(g, symbols, depth) = Level(h, symbols, depth)
      <4>1. CASE depth = N
        BY <4>1 DEF Level
      <4>2. CASE depth # N
        <5>1. depth + 1 \in low .. N /\ depth + 1 # low
          BY <2>4, <4>2
        <5>2. g[depth + 1] = h[depth + 1]
          BY <5>1
        <5> HIDE DEF g
        <5> QED
          BY <5>2 DEF Level
      <4> QED
        BY <4>1, <4>2
    <3>2. CASE depth = low
      <4>1. g[depth] = Level(h, symbols, depth)
        BY <3>2
      <4> QED
        BY <3>1, <4>1
    <3>3. CASE depth # low
      <4>1. depth \in low + 1 .. N
        BY <2>4, <3>3
      <4>2. h[depth] = Level(h, symbols, depth)
        BY <2>3, <2>4, <4>1 DEF Levels
      <4>3. g[depth] = h[depth]
        BY <3>3
      <4> QED
        BY <3>1, <4>2, <4>3
    <3> QED
      BY <3>2, <3>3
  <2>6. Levels(g, symbols, low)
    <3>1. g = [depth \in low .. N |-> g[depth]]
      OBVIOUS
    <3> HIDE DEF g
    <3> QED
      BY <2>5, <3>1 DEF Levels
  <2> QED
    BY <1>2, <2>4, <2>6
<1> QED
  BY <1>3, <1>4

LEMMA FindIs ==
    ASSUME NEW symbols
    PROVE  \E under : Levels(under, symbols, 0) /\ find_method_symbol(symbols) = under[0][<<>>]
<1> DEFINE under == CHOOSE f : f = [depth \in 0 .. MaxDepth |->
              [place \in PlacesAt(depth) |->
                  IF depth = MaxDepth THEN NoMethod ELSE Search(symbols, place, f[depth + 1])]]
<1>1. find_method_symbol(symbols) = under[0][<<>>]
  BY DEF find_method_symbol
<1>2. PICK g : Levels(g, symbols, 0)
  <2>1. MaxDepth \in 0 .. MaxDepth /\ MaxDepth - MaxDepth = 0
    BY SearchAssumption
  <2> QED
    BY <2>1, LevelsExist
<1>3. g = [depth \in 0 .. MaxDepth |->
              [place \in PlacesAt(depth) |->
                  IF depth = MaxDepth THEN NoMethod ELSE Search(symbols, place, g[depth + 1])]]
  BY <1>2 DEF Levels, Level
<1>4. under = [depth \in 0 .. MaxDepth |->
              [place \in PlacesAt(depth) |->
                  IF depth = MaxDepth THEN NoMethod
                  ELSE Search(symbols, place, under[depth + 1])]]
  BY <1>3
<1> HIDE DEF under
<1>5. Levels(under, symbols, 0)
  BY <1>4 DEF Levels, Level
<1> QED
  BY <1>1, <1>5

\* Whatever forest it is given, find_method_symbol returns the first method of that
\* name in the order of the text, and none only if there is none.
THEOREM FirstMethodIsFound ==
    ASSUME NEW symbols, AreGrown(DOMAIN symbols)
    PROVE  IsFirst(find_method_symbol(symbols), symbols, <<>>, MaxChildren)
<1>1. PICK under : Levels(under, symbols, 0) /\ find_method_symbol(symbols) = under[0][<<>>]
  BY FindIs
<1>2. PICK N \in Nat : N = MaxDepth
  BY SearchAssumption
<1>3. \A depth \in 0 .. N : under[depth] = Level(under, symbols, depth)
  BY <1>1, <1>2 DEF Levels
<1> DEFINE Found(depth) == \A x \in PlacesAt(depth) :
                              IsFirst(under[depth][x], symbols, x, MaxChildren)
           Bad == {d \in Nat : d <= N /\ ~Found(N - d)}
<1>4. Found(N)
  <2> SUFFICES ASSUME NEW x \in PlacesAt(N)
               PROVE  IsFirst(under[N][x], symbols, x, MaxChildren)
    OBVIOUS
  <2>1. under[N][x] = NoMethod
    <3>1. under[N] = Level(under, symbols, N)
      BY <1>2, <1>3
    <3> QED
      BY <1>2, <3>1 DEF Level
  <2>2. Len(x) = N
    BY DEF PlacesAt
  <2>3. ASSUME NEW q \in DOMAIN symbols PROVE ~Under(x, q)
    <3>1. Len(q) \in 1 .. N
      BY <1>2 DEF AreGrown
    <3> QED
      BY <1>2, <2>2, <3>1 DEF Under
  <2> QED
    BY <2>1, <2>3 DEF IsFirst, Sought
<1>5. ASSUME NEW depth \in 0 .. N - 1, Found(depth + 1) PROVE Found(depth)
  <2> SUFFICES ASSUME NEW x \in PlacesAt(depth)
               PROVE  IsFirst(under[depth][x], symbols, x, MaxChildren)
    OBVIOUS
  <2>1. under[depth][x] = Search(symbols, x, under[depth + 1])
    <3>1. under[depth] = Level(under, symbols, depth) /\ depth # N
      BY <1>2, <1>3
    <3> QED
      BY <1>2, <3>1 DEF Level
  <2>2. x \in Seq(1 .. MaxChildren) /\ Len(x) = depth
    <3>1. depth \in Nat /\ x \in [1 .. depth -> 1 .. MaxChildren]
      BY <1>2 DEF PlacesAt
    <3>2. PICK d \in Nat : d = depth
      BY <3>1
    <3>3. PICK K : K = 1 .. MaxChildren
      OBVIOUS
    <3>4. x \in [1 .. d -> K]
      BY <3>1, <3>2, <3>3
    <3>5. x \in Seq(K) /\ Len(x) = d
      BY <3>4
    <3> QED
      BY <3>2, <3>3, <3>5
  <2>3. ASSUME NEW k \in 1 .. MaxChildren
        PROVE  IsFirst(under[depth + 1][Child(x, k)], symbols, Child(x, k), MaxChildren)
    <3>1. PICK K : K = 1 .. MaxChildren
      OBVIOUS
    <3>2. x \in Seq(K) /\ k \in K
      BY <2>2, <3>1
    <3>3. Child(x, k) \in Seq(K) /\ Len(Child(x, k)) = Len(x) + 1
      BY <3>2, ChildIs
    <3>4. Child(x, k) \in [1 .. Len(x) + 1 -> K]
      BY <3>3, LenProperties
    <3>5. Child(x, k) \in PlacesAt(depth + 1)
      BY <2>2, <3>1, <3>4 DEF PlacesAt
    <3> QED
      BY <1>5, <3>5
  <2>4. IsFirst(Search(symbols, x, under[depth + 1]), symbols, x, MaxChildren)
    BY <2>2, <2>3, SearchFinds
  <2> QED
    BY <2>1, <2>4
<1>6. Bad = {}
  <2> SUFFICES ASSUME Bad # {} PROVE FALSE
    OBVIOUS
  <2>1. PICK d \in Bad : \A k \in Bad : d <= k
    <3>1. Bad \in SUBSET Nat
      OBVIOUS
    <3> HIDE DEF Bad
    <3> QED
      BY <3>1, Least
  <2>2. d \in Nat /\ d <= N /\ ~Found(N - d)
    OBVIOUS
  <2> HIDE DEF Found
  <2>3. d # 0
    <3>1. N - 0 = N
      BY <1>2
    <3> QED
      BY <1>4, <2>2, <3>1
  <2>4. PICK depth \in 0 .. N - 1 : depth = N - d /\ depth + 1 = N - (d - 1)
    <3>1. N - d \in 0 .. N - 1 /\ (N - d) + 1 = N - (d - 1)
      BY <1>2, <2>2, <2>3
    <3> QED
      BY <3>1
  <2>5. d - 1 \in Nat /\ d - 1 <= N /\ d - 1 < d
    BY <1>2, <2>2, <2>3
  <2>6. Found(depth + 1)
    <3>1. d - 1 \notin Bad
      <4> HIDE DEF Bad
      <4> QED
        BY <2>1, <2>2, <2>5
    <3> QED
      BY <2>4, <2>5, <3>1
  <2> QED
    BY <1>5, <2>2, <2>4, <2>6
<1>7. Found(0)
  <2>1. N \in Nat /\ N <= N /\ N - N = 0
    BY <1>2
  <2> HIDE DEF Found
  <2>2. N \notin Bad
    BY <1>6
  <2>3. Found(N - N)
    BY <2>1, <2>2
  <2> QED
    BY <2>1, <2>3
<1>8. <<>> \in PlacesAt(0)
  <2>1. <<>> \in Seq(1 .. MaxChildren) /\ Len(<<>>) = 0
    BY EmptySeq
  <2>2. <<>> \in [1 .. 0 -> 1 .. MaxChildren]
    BY <2>1, LenProperties
  <2> QED
    BY <2>2 DEF PlacesAt
<1> QED
  BY <1>1, <1>7, <1>8

-----------------------------------------------------------------------------
(* From the answer to its symbols.                                          *)

LEMMA AnswerIs ==
    ASSUME NEW answer \in Answers
    PROVE  /\ AreGrown(DOMAIN answer)
           /\ \A p \in DOMAIN answer :
                /\ answer[p] \in Elements
                /\ <<p[1]>> \in DOMAIN answer
                /\ Len(p) = 1 => p = <<p[1]>>
<1>1. PICK places \in SUBSET UNION {PlacesAt(n) : n \in 1 .. MaxDepth} :
         IsForest(places) /\ answer \in [places -> Elements]
  BY DEF Answers
<1>2. ASSUME NEW q \in places
      PROVE  /\ q \in Seq(1 .. MaxChildren) /\ Len(q) \in 1 .. MaxDepth
             /\ \A n \in 1 .. Len(q) : Child(SubSeq(q, 1, n - 1), q[n]) \in places
             /\ <<q[1]>> \in places
             /\ Len(q) = 1 => q = <<q[1]>>
  <2>1. PICK n \in 1 .. MaxDepth : q \in PlacesAt(n)
    BY <1>1
  <2>2. q \in Seq(1 .. MaxChildren) /\ Len(q) = n /\ DOMAIN q = 1 .. n /\ n \in Nat
    BY <2>1, SearchAssumption DEF PlacesAt
  <2>3. ASSUME NEW i \in 1 .. n
        PROVE  /\ q[i] \in 1 .. MaxChildren
               /\ Append(SubSeq(q, 1, i - 1), q[i]) \in places
    <3>1. q[i] \in 1 .. MaxChildren
      BY <2>2, ElementOfSeq
    <3>2. q[i] \in 1 .. q[i]
      BY <3>1
    <3> QED
      BY <1>1, <2>2, <3>1, <3>2 DEF IsForest
  <2>4. \A i \in 1 .. Len(q) : Child(SubSeq(q, 1, i - 1), q[i]) \in places
    BY <2>2, <2>3 DEF Child
  <2>5. <<q[1]>> \in places
    <3>1. 1 \in 1 .. n /\ 1 - 1 = 0
      BY <2>2
    <3>2. Append(SubSeq(q, 1, 0), q[1]) \in places
      BY <2>3, <3>1
    <3>3. SubSeq(q, 1, 0) = <<>>
      BY SubSeqEmpty
    <3>4. Append(<<>>, q[1]) = <<q[1]>>
      OBVIOUS
    <3> QED
      BY <3>2, <3>3, <3>4
  <2>6. ASSUME Len(q) = 1 PROVE q = <<q[1]>>
    <3>1. q[1] \in 1 .. MaxChildren
      BY <2>2, <2>3, <2>6
    <3>2. <<q[1]>> \in Seq(1 .. MaxChildren) /\ Len(<<q[1]>>) = 1 /\ <<q[1]>>[1] = q[1]
      BY <3>1
    <3>3. \A i \in 1 .. 1 : q[i] = <<q[1]>>[i]
      BY <3>2
    <3> QED
      BY <2>2, <2>6, <3>2, <3>3, SeqEqual
  <2> QED
    BY <2>2, <2>4, <2>5, <2>6
<1>3. DOMAIN answer = places /\ \A p \in places : answer[p] \in Elements
  BY <1>1
<1>4. AreGrown(places)
  BY <1>2 DEF AreGrown
<1> QED
  BY <1>2, <1>3, <1>4

LEMMA SymbolsAreGrown ==
    ASSUME NEW answer \in Answers PROVE AreGrown(DOMAIN parse_document_symbols(answer))
<1> DEFINE places == DOMAIN answer
           Kept(p) == \/ answer[<<p[1]>>].form = "symbol"
                      \/ answer[<<p[1]>>].form = "location" /\ Len(p) = 1
           kept == {p \in places : Kept(p)}
<1>1. DOMAIN parse_document_symbols(answer) = kept
  BY DEF parse_document_symbols
<1>2. AreGrown(places)
  BY AnswerIs
<1> SUFFICES AreGrown(kept)
  BY <1>1
<1>3. ASSUME NEW q \in kept, NEW n \in 1 .. Len(q)
      PROVE  Child(SubSeq(q, 1, n - 1), q[n]) \in kept
  <2> DEFINE y == Child(SubSeq(q, 1, n - 1), q[n])
             x == SubSeq(q, 1, n - 1)
  <2>1. q \in places /\ q \in Seq(1 .. MaxChildren) /\ Len(q) \in 1 .. MaxDepth /\ Kept(q)
        /\ y \in places
    BY <1>2 DEF AreGrown
  <2>2. PICK m \in Nat : m = Len(q) /\ n \in 1 .. m /\ n \in Nat
    BY <2>1, LenProperties
  <2>3. \A i \in 1 .. m : q[i] \in 1 .. MaxChildren
    BY <2>1, <2>2, ElementOfSeq
  <2>4. x \in Seq(1 .. MaxChildren) /\ Len(x) = n - 1 /\ (n > 1 => x[1] = q[1])
    <3>1. /\ 1 \in Int /\ n - 1 \in Int /\ \A i \in 1 .. n - 1 : q[i] \in 1 .. MaxChildren
          /\ (IF 1 <= n - 1 THEN (n - 1) - 1 + 1 ELSE 0) = n - 1
          /\ (n > 1 => 1 \in 1 .. (n - 1) - 1 + 1) /\ 1 + 1 - 1 = 1
      BY <2>2, <2>3
    <3>2. /\ x \in Seq(1 .. MaxChildren)
          /\ Len(x) = IF 1 <= n - 1 THEN (n - 1) - 1 + 1 ELSE 0
          /\ \A i \in 1 .. (n - 1) - 1 + 1 : x[i] = q[1 + i - 1]
      BY <3>1, SubSeqProperties
    <3> QED
      BY <3>1, <3>2
  <2> HIDE DEF x
  <2>5. y[1] = q[1] /\ Len(y) = n
    <3>1. PICK K : K = 1 .. MaxChildren
      OBVIOUS
    <3> DEFINE z == q[n]
    <3>2. x \in Seq(K) /\ z \in K
      BY <2>2, <2>3, <2>4, <3>1
    <3>3. y = Child(x, z)
      BY DEF x
    <3> HIDE DEF y, z
    <3>4. Len(y) = Len(x) + 1 /\ y[1] = IF Len(x) = 0 THEN z ELSE x[1]
      BY <3>2, <3>3, ChildRoot
    <3>5. CASE n = 1
      BY <2>4, <3>4, <3>5 DEF z
    <3>6. CASE n > 1
      BY <2>2, <2>4, <3>4, <3>6
    <3> QED
      BY <2>2, <3>5, <3>6
  <2> HIDE DEF y
  <2>6. Kept(y)
    BY <2>1, <2>2, <2>5
  <2>7. y \in kept
    BY <2>1, <2>6
  <2> QED
    BY <2>7 DEF y
<1>4. \A q \in kept : q \in Seq(1 .. MaxChildren) /\ Len(q) \in 1 .. MaxDepth
  BY <1>2 DEF AreGrown
<1> HIDE DEF kept
<1> QED
  BY <1>3, <1>4 DEF AreGrown

\* What the answer offers are the methods among its symbols.
LEMMA OffersIs ==
    ASSUME received \in Answers, NEW p \in DOMAIN received
    PROVE  LET symbols == parse_document_symbols(received)
           IN  Offers(p) <=> p \in DOMAIN symbols /\ IsTheMethod(symbols[p])
<1> DEFINE symbols == parse_document_symbols(received)
           Root == received[<<p[1]>>]
           Kept == Root.form = "symbol" \/ (Root.form = "location" /\ Len(p) = 1)
<1>1. /\ received[p] \in Elements /\ Root \in Elements
      /\ Len(p) = 1 => Root = received[p]
      /\ Len(p) \in 1 .. MaxDepth
  BY AnswerIs DEF AreGrown
<1>2. PICK element : element = received[p] /\ element \in Elements
  BY <1>1
<1>3. /\ element \in [form : {"symbol", "location", "bare"}, kind : STRING, name : Names]
      /\ Root.form \in {"symbol", "location", "bare"} /\ method \in Names
      /\ Len(p) \in Nat
  BY <1>1, <1>2, SearchAssumption
<1>4. /\ p \in DOMAIN symbols <=> Kept
      /\ Kept => symbols[p] = parse_document_symbol_object(element)
  BY <1>2 DEF parse_document_symbols
<1>5. IsTheMethod(parse_document_symbol_object(element)) <=>
         /\ element.form # "bare" /\ element.kind = "Method"
         /\ element.name.folded = method.folded /\ ~method.parameters
  BY <1>3 DEF IsTheMethod, parse_document_symbol_object, iequals_ascii, logical_name, Names
<1>6. Offers(p) <=> /\ element.form # "bare" /\ element.kind = "Method"
                    /\ element.name.folded = method.folded /\ ~method.parameters
                    /\ Len(p) > 1 => Root.form = "symbol"
  BY <1>2 DEF Offers
<1>7. element.form # "bare" => (Kept <=> (Len(p) > 1 => Root.form = "symbol"))
  <2>1. Len(p) = 1 \/ (Len(p) > 1 /\ Len(p) # 1)
    <3>1. PICK l \in Nat : l = Len(p)
      BY <1>3
    <3>2. l \in 1 .. MaxDepth
      BY <1>1, <3>1
    <3>3. l = 1 \/ (l > 1 /\ l # 1)
      BY <3>2
    <3> QED
      BY <3>1, <3>3
  <2>2. Len(p) = 1 => ~(Len(p) > 1)
    OBVIOUS
  <2>3. Len(p) = 1 => Root.form = element.form
    BY <1>1, <1>2
  <2> HIDE DEF Root
  <2> QED
    BY <1>3, <2>1, <2>2, <2>3
<1> HIDE DEF Kept, symbols, Root
<1> QED
  BY <1>4, <1>5, <1>6, <1>7 DEF symbols

\* An answer is a forest, and found is what is made of it.
SearchInv ==
    /\ received \in Answers
    /\ found \in {NotSought, find_method_symbol(parse_document_symbols(received))}

\* The method found is the first the answer offers, however deep and wide it is.
THEOREM OfferedMethodFound == SearchSpec => []MethodFound
<1>1. InitSearch => SearchInv
  BY DEF InitSearch, SearchInv
<1>2. SearchInv /\ [Find]_searchVars => SearchInv'
  BY DEF SearchInv, Find, searchVars
<1>3. SearchInv => MethodFound
  <2> DEFINE symbols == parse_document_symbols(received)
  <2> SUFFICES ASSUME SearchInv, found # NotSought PROVE MethodFound
    BY DEF MethodFound
  <2>1. received \in Answers /\ found = find_method_symbol(symbols)
    BY DEF SearchInv
  <2>2. IsFirst(found, symbols, <<>>, MaxChildren) /\ AreGrown(DOMAIN symbols)
    BY <2>1, SymbolsAreGrown, FirstMethodIsFound
  <2>3. DOMAIN symbols \subseteq DOMAIN received
    BY DEF parse_document_symbols
  <2>4. \A p \in DOMAIN received : Offers(p) <=> p \in DOMAIN symbols /\ IsTheMethod(symbols[p])
    BY <2>1, OffersIs
  <2> HIDE DEF symbols
  <2>5. ASSUME NEW q \in DOMAIN symbols
        PROVE  Sought(symbols, <<>>, MaxChildren, q) <=> IsTheMethod(symbols[q])
    <3>1. q \in Seq(1 .. MaxChildren) /\ Len(q) \in 1 .. MaxDepth
      BY <2>2 DEF AreGrown
    <3>2. Len(q) > 0 /\ 1 \in 1 .. Len(q)
      BY <3>1, SearchAssumption
    <3>5. q[1] \in 1 .. MaxChildren
      BY <3>1, <3>2, ElementOfSeq
    <3>3. Len(<<>>) = 0 /\ DOMAIN <<>> = {} /\ 0 + 1 = 1
      OBVIOUS
    <3>4. Under(<<>>, q) /\ q[Len(<<>>) + 1] <= MaxChildren
      BY <3>2, <3>3, <3>5, SearchAssumption DEF Under
    <3> QED
      BY <3>4 DEF Sought
  <2>6. CASE found = NoMethod
    BY <2>2, <2>4, <2>5, <2>6 DEF IsFirst, MethodFound
  <2>7. CASE found # NoMethod
    BY <2>2, <2>3, <2>4, <2>5, <2>7 DEF IsFirst, MethodFound
  <2> QED
    BY <2>6, <2>7
<1> QED
  BY <1>1, <1>2, <1>3, PTL DEF SearchSpec
===============================================================================
