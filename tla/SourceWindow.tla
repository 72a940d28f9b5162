------------------------------ MODULE SourceWindow ------------------------------
(***************************************************************************)
(* extract_source_window (src/source_window.cpp): which lines of a file are *)
(* shown around a range.  Lines of a range are ints counted from 0, lines   *)
(* of a window are size_t counted from 1, paddings are ints that a caller   *)
(* has cast to size_t (tools/clspc_mcp_smoke.cpp).  A line is its number.   *)
(***************************************************************************)
EXTENDS Integers, Sequences

CONSTANTS
    Modulus,     \* 2^w for the width w of size_t
    MaxLines,    \* bound: lines of a file
    RangeLines,  \* line numbers of a range, negative when the server sent none
    Paddings     \* paddings a caller asks for

ASSUME WidthAssumption == Modulus \in Nat \ {0} /\ MaxLines \in Nat /\ MaxLines + 1 < Modulus
ASSUME RangeAssumption == RangeLines \subseteq Int /\ \A l \in RangeLines : l + 1 < Modulus
ASSUME PaddingAssumption ==
    Paddings \subseteq Int /\ \A p \in Paddings : p + MaxLines < Modulus

VARIABLES
    readable, lines,    \* the file: can it be opened, how many lines has it
    from, to,           \* range.start.line, range.end.line
    before, after,      \* the paddings, as ints
    window              \* what the call returned or threw

input == <<readable, lines, from, to, before, after>>
vars == <<input, window>>

Nothing(state) == [start |-> 0, end |-> 0, text |-> <<>>, state |-> state]
NotYet == Nothing("not yet")

Init ==
    /\ readable \in BOOLEAN /\ lines \in 0 .. MaxLines
    /\ from \in RangeLines /\ to \in RangeLines
    /\ before \in Paddings /\ after \in Paddings
    /\ window = NotYet

-----------------------------------------------------------------------------
Size(v) == v % Modulus    \* static_cast<std::size_t>

AnchorStart == IF from >= 0 THEN Size(from) + 1 ELSE 1

\* Defect: a range that ends before it starts is left so.
AnchorEndAsGiven == IF to >= 0 THEN Size(to) + 1 ELSE AnchorStart

AnchorEnd ==
    LET end == IF to >= 0 THEN Size(to) + 1 ELSE AnchorStart
    IN  IF end < AnchorStart THEN AnchorStart ELSE end

Clamp(line) == IF line < 1 THEN 1 ELSE IF line > lines THEN lines ELSE line

StartLine ==
    IF Clamp(AnchorStart) > Size(before) THEN Clamp(AnchorStart) - Size(before) ELSE 1

\* Defect: the padding leads past the end of the file.
EndUnbounded == Size(Clamp(AnchorEnd) + Size(after))

\* The sum wraps around.
EndLine ==
    LET end == Size(Clamp(AnchorEnd) + Size(after))
    IN  IF end < lines THEN end ELSE lines

\* build_text: the lines from start to end.
Text(start, end) == [k \in 1 .. end - start + 1 |-> start + k - 1]

extract_source_window ==
    /\ window = NotYet
    /\ window' =
         IF ~readable THEN Nothing("throws")
         ELSE IF lines = 0 THEN Nothing("returned")
         ELSE [start |-> StartLine, end |-> EndLine, text |-> Text(StartLine, EndLine),
               state |-> "returned"]
    /\ UNCHANGED input

Over == window # NotYet /\ UNCHANGED vars

Next == extract_source_window \/ Over

Spec == Init /\ [][Next]_vars

-----------------------------------------------------------------------------
(* Properties.                                                              *)

\* Whatever the range and the paddings, and however the sum wraps, no line
\* outside the file is read, and the lines shown follow each other from start.
InBounds ==
    \A k \in DOMAIN window.text :
        window.text[k] \in 1 .. lines /\ window.text[k] = window.start + k - 1

\* For a range that starts in the file and paddings that are no negative
\* numbers, the lines shown are those of the range and the paddings around it,
\* as far as the file has them.
ShowsTheRange ==
    window.state = "returned" /\ from \in 0 .. lines - 1 /\ before >= 0 /\ after >= 0 =>
        LET last == IF to < from THEN from ELSE to
        IN  {window.text[k] : k \in DOMAIN window.text} =
              {l \in 1 .. lines : from + 1 - before <= l /\ l <= last + 1 + after}

\* Of a file that has lines at least one is shown, unless a negative padding
\* takes them away.
NeverEmpty ==
    window.state = "returned" /\ lines > 0 /\ after >= 0 => window.text # <<>>
===============================================================================
