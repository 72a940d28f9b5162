--------------------------- MODULE ExpansionProofs ---------------------------
(***************************************************************************)
(* All steps of a question come to one method, and snippets show what they   *)
(* are labelled with, for any files, texts, padding and questions.          *)
(*                                                                         *)
(* The argument: what an attempt looks at is open, and the text of an open   *)
(* file is never sent again, so the first method of the name in it stays the *)
(* same (Lookup, Anchored); the file is the same for all steps because the   *)
(* class is resolved before anything is done in it (Route).  A file becomes  *)
(* trusted only when it is opened, and then no tree has shown it yet (Cuts). *)
(***************************************************************************)
EXTENDS Expansion, TLAPS, FiniteSetTheorems

TreeSteps == {"outgoing", "incoming", "graph"}
Steps == {"search", "resolve"} \cup InFile
Places == {"idle", "next", "search", "open", "symbols", "prepare", "cut", "ask", "children"}
Items == [file : Files, line : Nat, name : STRING]

\* The first method of the name in a text.
TheFirst(f, text) ==
    LET line == CHOOSE l \in DOMAIN text :
                    /\ text[l].method = method_name
                    /\ \A k \in 1 .. l - 1 : text[k].method # method_name
    IN  [file |-> f, line |-> line, name |-> text[line].method]

\* An item is named for what is at its line.
Named(it, text) == it.line \in DOMAIN text /\ text[it.line].method = it.name

Shape ==
    /\ disk \in [Files -> Texts \cup {Missing}] /\ known \in [Files -> Texts \cup {<<>>}]
    /\ opened \subseteq Files /\ trusted \subseteq Files
    /\ program \in {"live", "demo"}
    /\ step \in Steps \cup {"none"} /\ todo \in Seq(Steps) /\ at \in Places
    /\ candidates \in Seq(Files) /\ edges \in Seq(Items)
    /\ given = None \/ given \in [file : Files]
    /\ resolved = None \/ resolved \in Items
    /\ trees \in Seq({trees[k] : k \in DOMAIN trees})

\* Which points a step passes.
Points ==
    /\ at = "search" => step \in {"search", "resolve"}
    /\ at \in {"open", "symbols", "prepare"} => step \in InFile \cup {"resolve"}
    /\ at = "prepare" => step # "symbols"
    /\ at \in {"cut", "ask", "children"} => step \in TreeSteps

Resolves(s) ==
    \A k \in DOMAIN s : s[k] \in InFile => \E j \in 1 .. k - 1 : s[j] = "resolve"

\* No class is resolved once there are trees, and every step in the file has one.
Route ==
    /\ \A j, k \in DOMAIN todo : j < k /\ todo[k] \in {"search", "resolve"} => todo[j] = "search"
    /\ step \in InFile \/ step = "resolve" =>
         \A k \in DOMAIN todo : todo[k] \notin {"search", "resolve"}
    /\ step = "resolve" /\ at \notin {"idle", "next"} => trees = <<>>
    /\ trees # <<>> => step \in InFile
    /\ at # "idle" /\ given.file \notin Files /\ resolved = None /\ ~(step = "resolve" /\ at # "next") =>
         Resolves(todo)
    /\ at \notin {"idle", "next"} /\ step \in InFile => effective_file \in Files

\* What an attempt looks at is open, and in the file the step is given.
Lookup ==
    /\ at \in {"open", "symbols", "prepare"} /\ step # "resolve" =>
         \A k \in DOMAIN candidates : candidates[k] = effective_file
    /\ at \in {"symbols", "prepare"} => candidates # <<>> /\ candidates[1] \in opened
    /\ at \in {"prepare", "cut", "ask", "children"} =>
         /\ item.file \in opened /\ method_name \in Methods(known[item.file])
         /\ item = TheFirst(item.file, known[item.file])
         /\ step # "resolve" => item.file = effective_file

\* Anchors are first methods of the file of the question.
Anchored ==
    \A a \in Anchors :
        effective_file \in opened /\ a = TheFirst(effective_file, known[effective_file])

\* What is trusted, and what has been asked and cut of it.
Trust == \A f \in trusted : known[f] = TextOf(f)

Asked ==
    /\ at \in {"search", "open", "symbols", "prepare"} => edges = <<>>
    /\ at \in {"cut", "children"} =>
         \A k \in DOMAIN edges :
             edges[k].file \in trusted => Named(edges[k], known[edges[k].file])

Rooted ==
    at = "children" \/ (at = "ask" /\ step = "outgoing") =>
        /\ tree = [root |-> tree.root, children |-> <<>>] /\ tree.root.item = item
        /\ item.file \in trusted => Shows(tree.root)

Cuts == Trust /\ Asked /\ Rooted /\ SnippetsShow

ExpansionInv == Shape /\ Points /\ Route /\ Lookup /\ Anchored /\ Cuts

-----------------------------------------------------------------------------
(* The first method of a text, and the window around it.                    *)

LEMMA Least ==
    ASSUME NEW S \in SUBSET Nat, S # {}
    PROVE  \E m \in S : \A k \in S : m <= k
<1> DEFINE T == {1 .. k : k \in S}
<1>1. \A k \in S : 1 .. k \in SUBSET Nat /\ IsFiniteSet(1 .. k)
  BY FS_Interval
<1>2. T \subseteq FiniteSubsetsOf(Nat) /\ T # {}
  BY <1>1 DEF FiniteSubsetsOf
<1>3. PICK x \in T : \A y \in T : ~(<<y, x>> \in StrictSubsetOrdering(Nat))
  <2> HIDE DEF T
  <2> QED
    BY <1>2, FS_StrictSubsetOrderingWellFounded, WFMin
<1>4. PICK m \in S : x = 1 .. m
  OBVIOUS
<1>5. ASSUME NEW k \in S, k < m PROVE FALSE
  <2>1. 1 .. k \subseteq 1 .. m /\ 1 .. k # 1 .. m
    BY <1>5
  <2>2. <<1 .. k, 1 .. m>> \in StrictSubsetOrdering(Nat)
    BY <1>1, <2>1 DEF StrictSubsetOrdering
  <2>3. 1 .. k \in T
    OBVIOUS
  <2> QED
    BY <1>3, <1>4, <2>2, <2>3
<1> QED
  BY <1>5

LEMMA TextFacts ==
    ASSUME NEW text \in Texts \cup {<<>>}
    PROVE  /\ Len(text) \in Nat /\ DOMAIN text = 1 .. Len(text)
           /\ \A l \in DOMAIN text : text[l] \in [class : STRING, method : STRING]
<1> DEFINE Line == [class : STRING, method : STRING]
<1>1. text \in Seq(Line)
  <2>1. <<>> \in Seq(Line)
    OBVIOUS
  <2>2. text \in Texts => text \in Seq(Line)
    BY TextsAssumption
  <2> QED
    BY <2>1, <2>2
<1> HIDE DEF Line
<1>2. /\ Len(text) \in Nat /\ DOMAIN text = 1 .. Len(text)
      /\ \A l \in DOMAIN text : text[l] \in Line
  BY <1>1
<1> QED
  BY <1>2 DEF Line

LEMMA FirstFound ==
    ASSUME NEW f \in Files, NEW text \in Texts \cup {<<>>}, method_name \in Methods(text)
    PROVE  /\ TheFirst(f, text) \in Items /\ TheFirst(f, text).file = f
           /\ Named(TheFirst(f, text), text)
           /\ TheFirst(f, text).name = method_name
           /\ \A k \in 1 .. TheFirst(f, text).line - 1 : text[k].method # method_name
<1> DEFINE S == {l \in DOMAIN text : text[l].method = method_name}
           First(l) == /\ text[l].method = method_name
                       /\ \A k \in 1 .. l - 1 : text[k].method # method_name
<1>1. S \in SUBSET Nat /\ S # {}
  BY TextFacts DEF Methods
<1>2. PICK m \in S : \A k \in S : m <= k
  BY <1>1, Least
<1>3. m \in DOMAIN text /\ First(m)
  <2>1. ASSUME NEW k \in 1 .. m - 1 PROVE text[k].method # method_name
    <3>1. k \in DOMAIN text /\ k < m
      BY <1>2, TextFacts
    <3> QED
      BY <1>1, <1>2, <3>1
  <2> QED
    BY <2>1, <1>2
<1> DEFINE line == CHOOSE l \in DOMAIN text : First(l)
<1>4. line \in DOMAIN text /\ First(line)
  BY <1>3
<1>5. TheFirst(f, text) = [file |-> f, line |-> line, name |-> text[line].method]
  BY DEF TheFirst
<1> HIDE DEF line
<1> QED
  BY <1>4, <1>5, TextFacts DEF Items, Named

LEMMA FirstIs ==
    ASSUME NEW f
    PROVE  ItemAt(f, FirstMethod(f)) = TheFirst(f, known[f])
BY DEF ItemAt, FirstMethod, TheFirst

LEMMA SizeIsExact ==
    ASSUME NEW v \in 0 .. Modulus - 1, NEW lines, NEW line
    PROVE  Window(lines, line)!Size(v) = v
BY TextsAssumption DEF Window!Size

LEMMA WindowAround ==
    ASSUME NEW lines \in Nat, NEW line \in 1 .. lines, lines + padding + 1 < Modulus
    PROVE  /\ Window(lines, line)!StartLine \in 1 .. line
           /\ Window(lines, line)!EndLine \in line .. lines
<1>1. padding \in Nat /\ Modulus \in Nat
  BY BoundsAssumption, TextsAssumption
<1>2. /\ Window(lines, line)!Size(line - 1) = line - 1
      /\ Window(lines, line)!Size(padding) = padding
      /\ Window(lines, line)!Size(line + padding) = line + padding
  BY <1>1, SizeIsExact
<1>3. Window(lines, line)!AnchorStart = line
  BY <1>2 DEF Window!AnchorStart
<1>4. Window(lines, line)!AnchorEnd = line
  BY <1>2, <1>3 DEF Window!AnchorEnd
<1>5. Window(lines, line)!Clamp(line) = line
  BY DEF Window!Clamp
<1>6. Window(lines, line)!StartLine = IF line > padding THEN line - padding ELSE 1
  BY <1>2, <1>3, <1>5 DEF Window!StartLine
<1>7. Window(lines, line)!EndLine = IF line + padding < lines THEN line + padding ELSE lines
  BY <1>2, <1>4, <1>5 DEF Window!EndLine
<1> QED
  BY <1>1, <1>6, <1>7

LEMMA NodeShows ==
    ASSUME NEW it \in Items, disk[it.file] \in Texts, Named(it, disk[it.file])
    PROVE  Shows(Node(it))
<1> DEFINE text == disk[it.file]
           start == Window(Len(text), it.line)!StartLine
           end == Window(Len(text), it.line)!EndLine
<1>1. /\ Len(text) \in Nat /\ DOMAIN text = 1 .. Len(text) /\ text \in Seq([class : STRING, method : STRING])
      /\ Len(text) + padding + 1 < Modulus
  BY TextsAssumption
<1>2. it.line \in 1 .. Len(text)
  BY <1>1 DEF Named
<1>3. start \in 1 .. it.line /\ end \in it.line .. Len(text)
  BY <1>1, <1>2, WindowAround
<1>4. Snippet(it.file, it.line) = [start |-> start, text |-> SubSeq(text, start, end)]
  BY <1>1, <1>2 DEF Snippet
<1> HIDE DEF start, end
<1>5. /\ DOMAIN SubSeq(text, start, end) = 1 .. end - start + 1
      /\ \A k \in 1 .. end - start + 1 : SubSeq(text, start, end)[k] = text[start + k - 1]
  BY <1>1, <1>2, <1>3
<1> DEFINE k == it.line - start + 1
<1>6. k \in 1 .. end - start + 1 /\ start + k - 1 = it.line
  BY <1>1, <1>2, <1>3
<1> DEFINE shown == SubSeq(text, start, end)
<1>7. Node(it) = [item |-> it, snippet |-> [start |-> start, text |-> shown]]
  BY <1>4 DEF Node
<1>8. /\ DOMAIN Node(it).snippet.text = 1 .. end - start + 1
      /\ Node(it).snippet.start = start /\ Node(it).item = it
      /\ Node(it).snippet.text[k] = text[it.line]
  <2>1. DOMAIN shown = 1 .. end - start + 1 /\ shown[k] = text[it.line]
    BY <1>5, <1>6
  <2> HIDE DEF shown, k
  <2>2. Node(it).item = it /\ Node(it).snippet = [start |-> start, text |-> shown]
    BY <1>7
  <2>3. Node(it).snippet.start = start /\ Node(it).snippet.text = shown
    BY <2>2
  <2> QED
    BY <2>1, <2>2, <2>3
<1>9. text[it.line].method = it.name
  BY DEF Named
<1> QED
  BY <1>6, <1>8, <1>9 DEF Shows

-----------------------------------------------------------------------------
(* What an action leaves alone.                                             *)

LEMMA NoneIsNoItem == None \notin Items
<1> SUFFICES ASSUME None \in Items PROVE FALSE
  OBVIOUS
<1>1. DOMAIN None = {"file", "line", "name"}
  BY DEF Items
<1>2. DOMAIN None = {"file"}
  BY DEF None
<1> QED
  BY <1>1, <1>2

LEMMA AnchorsKept ==
    ASSUME Anchored, resolved' = resolved, trees' = trees, given' = given,
           opened \subseteq opened', \A f \in opened : known'[f] = known[f]
    PROVE  Anchored'
BY DEF Anchored, Anchors, Roots, effective_file

LEMMA SnippetsKept ==
    ASSUME SnippetsShow, trees' = trees, trusted' \subseteq trusted
    PROVE  SnippetsShow'
BY DEF SnippetsShow, Nodes

LEMMA Appended ==
    ASSUME NEW s, s \in Seq({s[k] : k \in DOMAIN s}), NEW t
    PROVE  LET a == Append(s, t)
           IN  /\ a \in Seq({a[k] : k \in DOMAIN a})
               /\ {a[k] : k \in DOMAIN a} = {s[k] : k \in DOMAIN s} \cup {t}
               /\ a # <<>>
<1> DEFINE T == {s[k] : k \in DOMAIN s} \cup {t}
           a == Append(s, t)
<1>1. s \in Seq(T) /\ t \in T
  OBVIOUS
<1> HIDE DEF T
<1>2. /\ a \in Seq(T) /\ Len(s) \in Nat /\ Len(a) = Len(s) + 1
      /\ DOMAIN a = 1 .. Len(s) + 1 /\ DOMAIN s = 1 .. Len(s)
      /\ a[Len(s) + 1] = t /\ \A k \in DOMAIN s : a[k] = s[k]
  BY <1>1
<1> HIDE DEF a
<1>3. {a[k] : k \in DOMAIN a} = T
  BY <1>2 DEF T
<1>4. a # <<>>
  BY <1>2
<1> QED
  BY <1>2, <1>3, <1>4 DEF T, a

-----------------------------------------------------------------------------
(* The question.                                                            *)

LEMMA InitHolds == Init => ExpansionInv
<1> SUFFICES ASSUME Init PROVE ExpansionInv
  OBVIOUS
<1>1. Shape
  BY DEF Init, Shape, Steps, Places
<1>2. Points /\ Route /\ Lookup
  BY DEF Init, Points, Route, Lookup
<1>3. Anchored
  BY DEF Init, Anchored, Anchors, Roots
<1>4. Cuts
  BY MissingAssumption DEF Init, Cuts, Trust, Asked, Rooted, SnippetsShow, Nodes, TextOf
<1> QED
  BY <1>1, <1>2, <1>3, <1>4 DEF ExpansionInv

LEMMA InvokeStep == ASSUME ExpansionInv, Invoke PROVE ExpansionInv'
<1> USE DEF Invoke, session, search
<1>1. PICK q \in Questions[program] :
        /\ todo' = q
        /\ \/ q[1] \in {"search", "resolve"} /\ given' = None
           \/ q[1] \notin {"search", "resolve"} /\ \E f \in Files : given' = [file |-> f]
  OBVIOUS
<1>2. /\ q \in Seq(Steps) /\ q # <<>>
      /\ \A j, k \in DOMAIN q : j < k /\ q[k] \in {"search", "resolve"} => q[j] = "search"
      /\ q[1] \in {"search", "resolve"} => Resolves(q)
  <2>1. program \in {"live", "demo"}
    BY DEF ExpansionInv, Shape
  <2> QED
    BY <2>1, QuestionsAssumption DEF Steps, Resolves
<1>3. Shape'
  <2>1. trusted' \subseteq Files
    OBVIOUS
  <2> QED
    BY <1>1, <1>2, <2>1 DEF ExpansionInv, Shape, Steps, Places
<1>4. Points' /\ Lookup'
  BY DEF Points, Lookup, InFile
<1>5. Route'
  <2>1. given'.file \notin Files => q[1] \in {"search", "resolve"}
    BY <1>1
  <2> QED
    BY <1>1, <1>2, <2>1 DEF Route, Resolves, InFile
<1>6. Anchored'
  BY DEF Anchored, Anchors, Roots
<1>7. Cuts'
  BY DEF Cuts, Trust, Asked, Rooted, SnippetsShow, Nodes, TextOf
<1> QED
  BY <1>3, <1>4, <1>5, <1>6, <1>7 DEF ExpansionInv

\* The steps after the first of a route that is good.
LEMMA RouteGoesOn ==
    ASSUME NEW s \in Seq(Steps), s # <<>>,
           \A j, k \in DOMAIN s : j < k /\ s[k] \in {"search", "resolve"} => s[j] = "search"
    PROVE  /\ Head(s) \in Steps /\ Tail(s) \in Seq(Steps)
           /\ \A j, k \in DOMAIN Tail(s) :
                 j < k /\ Tail(s)[k] \in {"search", "resolve"} => Tail(s)[j] = "search"
           /\ Head(s) # "search" =>
                 \A k \in DOMAIN Tail(s) : Tail(s)[k] \notin {"search", "resolve"}
           /\ Resolves(s) => Head(s) \notin InFile
           /\ Resolves(s) /\ Head(s) # "resolve" => Resolves(Tail(s))
           /\ \A k \in DOMAIN Tail(s) : \E j \in DOMAIN s : Tail(s)[k] = s[j]
<1> DEFINE t == Tail(s)
<1>1. /\ Head(s) = s[1] /\ s[1] \in Steps /\ t \in Seq(Steps)
      /\ DOMAIN t = 1 .. Len(s) - 1 /\ DOMAIN s = 1 .. Len(s)
      /\ \A k \in 1 .. Len(s) - 1 : t[k] = s[k + 1]
      /\ Len(s) \in Nat \ {0}
  OBVIOUS
<1> HIDE DEF t
<1>2. \A k \in DOMAIN t : k \in Nat /\ k + 1 \in DOMAIN s /\ t[k] = s[k + 1]
  BY <1>1
<1>3. ASSUME NEW j \in DOMAIN t, NEW k \in DOMAIN t, j < k, t[k] \in {"search", "resolve"}
      PROVE  t[j] = "search"
  <2>1. /\ j + 1 \in DOMAIN s /\ k + 1 \in DOMAIN s
        /\ t[j] = s[j + 1] /\ t[k] = s[k + 1]
    BY <1>2
  <2>2. j + 1 < k + 1
    BY <1>3, <1>2
  <2> QED
    BY <1>3, <2>1, <2>2
<1>4. s[1] # "search" => \A k \in DOMAIN t : t[k] \notin {"search", "resolve"}
  BY <1>1
<1>5. Resolves(s) => s[1] \notin InFile
  BY <1>1 DEF Resolves
<1>6. ASSUME Resolves(s), s[1] # "resolve" PROVE Resolves(t)
  <2> SUFFICES ASSUME NEW k \in DOMAIN t, t[k] \in InFile
               PROVE  \E j \in 1 .. k - 1 : t[j] = "resolve"
    BY DEF Resolves
  <2>1. PICK j \in 1 .. k : s[j] = "resolve"
    <3>1. k + 1 \in DOMAIN s /\ s[k + 1] \in InFile
      BY <1>1
    <3>2. \E j \in 1 .. (k + 1) - 1 : s[j] = "resolve"
      BY <1>6, <3>1 DEF Resolves
    <3> QED
      BY <1>1, <3>2
  <2>2. j - 1 \in 1 .. k - 1 /\ t[j - 1] = "resolve"
    BY <1>1, <1>6, <2>1
  <2> QED
    BY <2>2
<1> QED
  BY <1>1, <1>3, <1>4, <1>5, <1>6, <1>2 DEF t

LEMMA NextStepStep == ASSUME ExpansionInv, NextStep PROVE ExpansionInv'
<1> USE DEF NextStep, session, results, world, Start, Untried, Steps, InFile
<1>1. Shape /\ Route /\ todo # <<>> /\ at = "next" /\ todo \in Seq(Steps)
  BY DEF ExpansionInv, Shape
<1>2. /\ step' \in Steps /\ todo' \in Seq(Steps)
      /\ \A j, k \in DOMAIN todo' : j < k /\ todo'[k] \in {"search", "resolve"} => todo'[j] = "search"
      /\ step' # "search" => \A k \in DOMAIN todo' : todo'[k] \notin {"search", "resolve"}
      /\ Resolves(todo) => step' \notin InFile
      /\ Resolves(todo) /\ step' # "resolve" => Resolves(todo')
      /\ \E j \in DOMAIN todo : step' = todo[j]
  <2> HIDE DEF Steps, InFile
  <2>1. \A j, k \in DOMAIN todo : j < k /\ todo[k] \in {"search", "resolve"} => todo[j] = "search"
    BY <1>1 DEF Route
  <2>2. \E j \in DOMAIN todo : step' = todo[j]
    BY <1>1
  <2> QED
    BY <1>1, <2>1, <2>2, RouteGoesOn
<1>3. step' \in InFile => effective_file' \in Files /\ effective_file' = effective_file
  <2>1. effective_file' = effective_file
    BY DEF effective_file
  <2>2. step' \in InFile => resolved \in Items \/ given.file \in Files
    BY <1>1, <1>2 DEF Route, Shape
  <2>3. resolved # None => resolved \in Items
    BY <1>1 DEF Shape
  <2> QED
    BY <2>1, <2>2, <2>3, NoneIsNoItem DEF effective_file, Items
<1>4. Shape'
  <2>1. candidates' \in Seq(Files)
    BY <1>2, <1>3 DEF effective_file
  <2> QED
    BY <1>1, <1>2, <2>1 DEF Shape, Places
<1>5. Points'
  BY <1>2 DEF Points
<1>6. Route'
  BY <1>1, <1>2, <1>3 DEF Route
<1>7. Lookup'
  BY <1>2, <1>3 DEF Lookup, effective_file
<1>8. Anchored'
  BY AnchorsKept DEF ExpansionInv
<1>9. Cuts'
  BY SnippetsKept DEF ExpansionInv, Cuts, Trust, Asked, Rooted, TextOf
<1> QED
  BY <1>4, <1>5, <1>6, <1>7, <1>8, <1>9 DEF ExpansionInv

LEMMA ReturnStep == ASSUME ExpansionInv, Return PROVE ExpansionInv'
<1> USE DEF Return, session, search, question, world, ExpansionInv
<1>1. Shape' /\ Points'
  BY DEF Shape, Places, Points
<1>2. Route' /\ Lookup'
  BY DEF Route, Lookup
<1>3. Anchored'
  BY AnchorsKept
<1>4. Cuts'
  BY SnippetsKept DEF Cuts, Trust, Asked, Rooted, TextOf
<1> QED
  BY <1>1, <1>2, <1>3, <1>4

-----------------------------------------------------------------------------
(* Attempts.                                                                *)

\* A point in an attempt has the file of its step to look in.
LEMMA AttemptStarts ==
    ASSUME ExpansionInv, at \notin {"idle", "next"}, step # "none"
    PROVE  /\ Untried(step) \in Seq(Files)
           /\ step \in InFile => \A k \in DOMAIN Untried(step) : Untried(step)[k] = effective_file
BY DEF ExpansionInv, Shape, Route, Untried, Steps, InFile

LEMMA ThrowStep ==
    ASSUME ExpansionInv, Throw, at \notin {"idle", "next"}
    PROVE  ExpansionInv'
<1> USE DEF Throw, session, question, world, ExpansionInv
<1>1. Shape /\ Points /\ Route /\ Lookup /\ Anchored /\ Cuts
  OBVIOUS
<1>2. Anchored' /\ SnippetsShow' /\ Trust'
  BY AnchorsKept, SnippetsKept DEF Cuts, Trust, TextOf
<1>3. CASE Retried /\ NextAttempt /\ UNCHANGED outcome
  <2>1. /\ step \in {"resolve", "outgoing", "incoming", "graph"}
        /\ at \in {"search", "open", "symbols", "prepare"}
        /\ at' = Start(step) /\ candidates' = Untried(step) /\ UNCHANGED step
    BY <1>3 DEF Retried, NextAttempt
  <2>2. Untried(step) \in Seq(Files)
        /\ (step # "resolve" => \A k \in DOMAIN Untried(step) : Untried(step)[k] = effective_file)
    BY <2>1, AttemptStarts DEF InFile
  <2>3. Shape'
    BY <1>1, <2>1, <2>2 DEF Shape, Start, Places
  <2>4. Points' /\ Route'
    BY <1>1, <2>1 DEF Points, Route, Start, InFile, effective_file
  <2>5. Lookup'
    BY <1>1, <2>1, <2>2 DEF Lookup, Start, effective_file
  <2>6. Asked' /\ Rooted'
    BY <1>1, <2>1 DEF Cuts, Asked, Rooted, Start
  <2> QED
    BY <1>2, <2>3, <2>4, <2>5, <2>6 DEF Cuts
<1>4. CASE ~Retried /\ at' = "idle" /\ UNCHANGED <<candidates, item>>
  <2>1. Shape' /\ Points' /\ Route' /\ Lookup'
    BY <1>1, <1>4 DEF Shape, Points, Route, Lookup, Places
  <2>2. Asked' /\ Rooted'
    BY <1>1, <1>4 DEF Cuts, Asked, Rooted
  <2> QED
    BY <1>2, <2>1, <2>2 DEF Cuts
<1> QED
  BY <1>3, <1>4

LEMMA RequestThrowsStep == ASSUME ExpansionInv, RequestThrows PROVE ExpansionInv'
BY ThrowStep DEF RequestThrows

LEMMA GiveUpStep == ASSUME ExpansionInv, GiveUp PROVE ExpansionInv'
<1> USE DEF GiveUp, session, search, question, world, ExpansionInv
<1>1. Shape' /\ Points' /\ Route' /\ Lookup'
  BY DEF Shape, Points, Route, Lookup, Places
<1>2. Anchored' /\ Cuts'
  BY AnchorsKept, SnippetsKept DEF Cuts, Trust, Asked, Rooted, TextOf
<1> QED
  BY <1>1, <1>2

LEMMA SearchStep == ASSUME ExpansionInv, Search PROVE ExpansionInv'
<1> USE DEF Search, session, question, results, world, ExpansionInv
<1>1. candidates' \in Seq(Files)
  <2>1. Candidates \subseteq Seq(Files)
    <3> DEFINE offered == {symbol.file : symbol \in {s \in Symbols : Fits(s)}}
    <3>1. offered \subseteq Files
      BY DEF Symbols
    <3>2. \A f \in Files : <<f>> \in Seq(Files)
      OBVIOUS
    <3>3. \A f, g \in Files : <<f, g>> \in Seq(Files)
      OBVIOUS
    <3> HIDE DEF offered
    <3>4. ASSUME NEW pair \in offered \X offered PROVE pair \in Seq(Files)
      <4>1. pair = <<pair[1], pair[2]>> /\ pair[1] \in offered /\ pair[2] \in offered
        OBVIOUS
      <4>2. pair[1] \in Files /\ pair[2] \in Files
        BY <4>1, <3>1
      <4>3. <<pair[1], pair[2]>> \in Seq(Files)
        BY <4>2, <3>3
      <4> QED
        BY ONLY <4>1, <4>3
    <3>5. Candidates = {<<>>} \cup {<<f>> : f \in offered}
                       \cup {pair \in offered \X offered : pair[1] # pair[2]}
      BY DEF Candidates, offered
    <3>6. <<>> \in Seq(Files)
      OBVIOUS
    <3> SUFFICES ASSUME NEW c \in Candidates PROVE c \in Seq(Files)
      OBVIOUS
    <3>7. CASE c = <<>>
      BY <3>6, <3>7
    <3>8. CASE c \in {<<f>> : f \in offered}
      BY <3>1, <3>2, <3>8
    <3>9. CASE c \in offered \X offered
      BY <3>4, <3>9
    <3> QED
      BY <3>5, <3>7, <3>8, <3>9, Zenon
  <2> QED
    BY <2>1 DEF Shape
<1>2. Shape' /\ Points'
  BY <1>1 DEF Shape, Points, Places
<1>3. Route'
  BY DEF Route, InFile, effective_file
<1>4. Lookup' /\ Asked' /\ Rooted'
  BY DEF Lookup, Cuts, Asked, Rooted, Points
<1>5. Anchored' /\ Trust' /\ SnippetsShow'
  BY AnchorsKept, SnippetsKept DEF Cuts, Trust, TextOf
<1> QED
  BY <1>2, <1>3, <1>4, <1>5 DEF Cuts

LEMMA AllTriedStep == ASSUME ExpansionInv, AllTried PROVE ExpansionInv'
<1> USE DEF AllTried, NextAttempt, session, question, results, world, ExpansionInv
<1>1. step \in InFile \cup {"resolve"}
  BY DEF Points
<1>2. Untried(step) \in Seq(Files)
      /\ (step # "resolve" => \A k \in DOMAIN Untried(step) : Untried(step)[k] = effective_file)
  BY <1>1, AttemptStarts DEF InFile
<1>3. Shape'
  BY <1>2 DEF Shape, Start, Places
<1>4. Points' /\ Route'
  BY <1>1 DEF Points, Route, Start, InFile, effective_file
<1>5. Lookup'
  BY <1>1, <1>2 DEF Lookup, Start, effective_file
<1>6. Asked' /\ Rooted'
  BY DEF Cuts, Asked, Rooted, Start
<1>7. Anchored' /\ Trust' /\ SnippetsShow'
  BY AnchorsKept, SnippetsKept DEF Cuts, Trust, TextOf
<1> QED
  BY <1>3, <1>4, <1>5, <1>6, <1>7 DEF Cuts

LEMMA EnsureOpenStep == ASSUME ExpansionInv, EnsureOpen PROVE ExpansionInv'
<1> DEFINE f == Head(candidates)
<1> USE DEF ExpansionInv
<1>1. /\ at = "open" /\ candidates # <<>> /\ candidates \in Seq(Files)
      /\ f = candidates[1] /\ f \in Files /\ step \in InFile \cup {"resolve"}
  BY DEF EnsureOpen, Points, Shape
<1>2. CASE f \in opened /\ at' = "symbols" /\ UNCHANGED <<session, search, question, results, world>>
  <2> USE DEF session, search, question, results, world
  <2>1. Shape' /\ Points' /\ Route'
    BY <1>1, <1>2 DEF Shape, Points, Route, Places, InFile, effective_file
  <2>2. Lookup' /\ Asked' /\ Rooted'
    BY <1>1, <1>2 DEF Lookup, Cuts, Asked, Rooted, effective_file
  <2>3. Anchored' /\ Trust' /\ SnippetsShow'
    BY <1>2, AnchorsKept, SnippetsKept DEF Cuts, Trust, TextOf
  <2> QED
    BY <2>1, <2>2, <2>3 DEF Cuts
<1>3. CASE Throw
  BY <1>1, <1>3, ThrowStep
<1>4. CASE /\ f \notin opened /\ disk[f] # Missing
           /\ known' = [known EXCEPT ![f] = disk[f]] /\ opened' = opened \cup {f}
           /\ trusted' = trusted \cup {f} /\ at' = "symbols"
           /\ UNCHANGED <<search, question, results, disk, calls, edits, quiet>>
  <2> USE <1>4 DEF search, question, results
  <2>1. disk[f] \in Texts
    BY <1>1 DEF Shape
  <2>2. Shape'
    BY <1>1, <2>1 DEF Shape, Places
  <2>3. Points' /\ Route'
    BY <1>1 DEF Points, Route, InFile, effective_file
  <2>4. Lookup' /\ Asked' /\ Rooted'
    BY <1>1 DEF Lookup, Cuts, Asked, Rooted, effective_file
  <2>5. \A g \in opened : known'[g] = known[g]
    BY <1>1 DEF Shape
  <2>6. Anchored'
    BY <2>5, AnchorsKept
  <2>7. Trust'
    BY <1>1, <2>1 DEF Cuts, Trust, TextOf, Shape
  <2>8. trees = <<>>
    <3> SUFFICES ASSUME trees # <<>> PROVE FALSE
      OBVIOUS
    <3>1. step \in InFile
      BY DEF Route
    <3>2. f = effective_file
      BY <1>1, <3>1 DEF Lookup, InFile
    <3>3. trees[1].root.item \in Anchors
      <4>1. 1 \in DOMAIN trees
        BY DEF Shape
      <4> QED
        BY <4>1 DEF Anchors, Roots
    <3>4. effective_file \in opened
      BY <3>3 DEF Anchored
    <3> QED
      BY <3>2, <3>4
  <2>9. SnippetsShow'
    BY <2>8 DEF SnippetsShow, Nodes
  <2> QED
    BY <2>2, <2>3, <2>4, <2>6, <2>7, <2>9 DEF Cuts
<1> QED
  BY <1>2, <1>3, <1>4 DEF EnsureOpen

\* The item of the files an attempt has found the method in.
LEMMA Found ==
    ASSUME ExpansionInv, at \in {"prepare", "cut", "ask", "children"}
    PROVE  item \in Items /\ Named(item, known[item.file])
<1>1. item.file \in Files /\ known[item.file] \in Texts \cup {<<>>}
  BY DEF ExpansionInv, Shape, Lookup
<1>2. /\ method_name \in Methods(known[item.file])
      /\ item = TheFirst(item.file, known[item.file])
  BY DEF ExpansionInv, Lookup
<1> QED
  BY <1>1, <1>2, FirstFound

LEMMA DocumentSymbolsStep == ASSUME ExpansionInv, DocumentSymbols PROVE ExpansionInv'
<1> DEFINE f == Head(candidates)
<1> USE DEF session, question, results, world, ExpansionInv
<1>1. /\ at = "symbols" /\ candidates # <<>> /\ candidates \in Seq(Files)
      /\ f = candidates[1] /\ f \in opened /\ f \in Files /\ step \in InFile \cup {"resolve"}
      /\ UNCHANGED <<session, edges, tree, question, results, world>>
  BY DEF DocumentSymbols, Points, Lookup, Shape
<1>2. Anchored' /\ Trust' /\ SnippetsShow'
  BY <1>1, AnchorsKept, SnippetsKept DEF Cuts, Trust, TextOf
<1>3. CASE step = "symbols" /\ at' = "next" /\ UNCHANGED <<candidates, item>>
  <2>1. Shape' /\ Points' /\ Route'
    BY <1>1, <1>3 DEF Shape, Points, Route, Places, InFile, effective_file
  <2>2. Lookup' /\ Asked' /\ Rooted'
    BY <1>1, <1>3 DEF Lookup, Cuts, Asked, Rooted, effective_file
  <2> QED
    BY <1>2, <2>1, <2>2 DEF Cuts
<1>4. CASE /\ step # "symbols" /\ method_name \in Methods(known[f])
           /\ item' = ItemAt(f, FirstMethod(f)) /\ at' = "prepare" /\ UNCHANGED candidates
  <2>1. item' = TheFirst(f, known[f]) /\ item'.file = f
    BY <1>1, <1>4, FirstIs, FirstFound DEF Shape
  <2>2. Shape' /\ Points' /\ Route'
    BY <1>1, <1>4 DEF Shape, Points, Route, Places, InFile, effective_file
  <2>3. Lookup'
    BY <1>1, <1>4, <2>1 DEF Lookup, effective_file
  <2>4. Asked' /\ Rooted'
    BY <1>1, <1>4 DEF Cuts, Asked, Rooted
  <2> QED
    BY <1>2, <2>2, <2>3, <2>4 DEF Cuts
<1>5. CASE /\ step # "symbols" /\ candidates' = Tail(candidates) /\ at' = "open"
           /\ UNCHANGED item
  <2>1. /\ Tail(candidates) \in Seq(Files)
        /\ \A k \in DOMAIN Tail(candidates) : \E j \in DOMAIN candidates :
              Tail(candidates)[k] = candidates[j]
    BY <1>1
  <2>2. Shape' /\ Points' /\ Route'
    BY <1>1, <1>5, <2>1 DEF Shape, Points, Route, Places, InFile, effective_file
  <2>3. Lookup' /\ Asked' /\ Rooted'
    BY <1>1, <1>5, <2>1 DEF Lookup, Cuts, Asked, Rooted, effective_file
  <2> QED
    BY <1>2, <2>2, <2>3 DEF Cuts
<1> QED
  BY <1>3, <1>4, <1>5 DEF DocumentSymbols

LEMMA PrepareStep == ASSUME ExpansionInv, Prepare PROVE ExpansionInv'
<1> USE DEF session, question, world, ExpansionInv
<1>1. /\ at = "prepare" /\ candidates # <<>> /\ candidates \in Seq(Files)
      /\ step \in TreeSteps \cup {"resolve"} /\ edges = <<>>
      /\ UNCHANGED <<session, item, edges, tree, question, trees, outcome, world>>
  BY DEF Prepare, Points, Lookup, Shape, InFile, TreeSteps, Cuts, Asked
<1>2. /\ item \in Items /\ item.file \in Files
      /\ item.file \in opened /\ item = TheFirst(item.file, known[item.file])
      /\ step # "resolve" => item.file = effective_file
  BY <1>1, Found DEF Items, Lookup
<1>3. Trust' /\ SnippetsShow'
  BY <1>1, SnippetsKept DEF Cuts, Trust, TextOf
<1>4. CASE step = "resolve" /\ resolved' = item /\ at' = "next" /\ UNCHANGED candidates
  <2>1. resolved' # None
    BY <1>2, <1>4, NoneIsNoItem
  <2>2. Shape' /\ Points'
    BY <1>1, <1>2, <1>4 DEF Shape, Points, Places
  <2>3. Route'
    BY <1>1, <1>4, <2>1 DEF Route, InFile
  <2>4. Lookup' /\ Asked' /\ Rooted'
    BY <1>1, <1>4 DEF Lookup, Cuts, Asked, Rooted
  <2>5. Anchored'
    <3>1. trees' = <<>>
      BY <1>1, <1>4 DEF Route
    <3>2. Anchors' = {item}
      BY <1>4, <2>1, <3>1 DEF Anchors, Roots
    <3>3. effective_file' = item.file
      BY <1>4, <2>1 DEF effective_file
    <3>4. opened' = opened /\ known' = known
      BY <1>1
    <3> QED
      BY <1>2, <3>2, <3>3, <3>4 DEF Anchored
  <2> QED
    BY <1>3, <2>2, <2>3, <2>4, <2>5 DEF Cuts
<1>5. CASE /\ step # "resolve" /\ at' = (IF step = "outgoing" THEN "cut" ELSE "ask")
           /\ UNCHANGED <<resolved, candidates>>
  <2>1. Shape' /\ Points'
    BY <1>1, <1>5 DEF Shape, Points, Places, TreeSteps
  <2>2. Route'
    BY <1>1, <1>5 DEF Route, InFile, TreeSteps, effective_file
  <2>3. Lookup'
    BY <1>1, <1>5 DEF Lookup, effective_file
  <2>4. Asked' /\ Rooted'
    BY <1>1, <1>5 DEF Cuts, Asked, Rooted
  <2>5. Anchored'
    BY <1>1, <1>5, AnchorsKept
  <2> QED
    BY <1>3, <2>1, <2>2, <2>3, <2>4, <2>5 DEF Cuts
<1>6. CASE candidates' = Tail(candidates) /\ at' = "open" /\ UNCHANGED resolved
  <2>1. /\ Tail(candidates) \in Seq(Files)
        /\ \A k \in DOMAIN Tail(candidates) : \E j \in DOMAIN candidates :
              Tail(candidates)[k] = candidates[j]
    BY <1>1
  <2>2. Shape' /\ Points'
    BY <1>1, <1>6, <2>1 DEF Shape, Points, Places, InFile, TreeSteps
  <2>3. Route'
    BY <1>1, <1>6 DEF Route, InFile, effective_file
  <2>4. Lookup' /\ Asked' /\ Rooted'
    BY <1>1, <1>6, <2>1 DEF Lookup, Cuts, Asked, Rooted, effective_file
  <2>5. Anchored'
    BY <1>1, <1>6, AnchorsKept
  <2> QED
    BY <1>3, <2>2, <2>3, <2>4, <2>5 DEF Cuts
<1> QED
  BY <1>4, <1>5, <1>6 DEF Prepare

-----------------------------------------------------------------------------
(* The tree, and what happens beside the caller.                            *)

\* What is cut of a trusted file at a line of the server's text is what the
\* server meant.
LEMMA CutShows ==
    ASSUME ExpansionInv, NEW it \in Items, it.file \in trusted, disk[it.file] # Missing,
           Named(it, known[it.file])
    PROVE  Shows(Node(it))
<1>1. it.file \in Files /\ disk[it.file] \in Texts
  BY DEF ExpansionInv, Shape
<1>2. known[it.file] = disk[it.file]
  BY DEF ExpansionInv, Cuts, Trust, TextOf
<1> QED
  BY <1>1, <1>2, NodeShows

LEMMA CutStep == ASSUME ExpansionInv, Cut PROVE ExpansionInv'
<1> USE DEF session, question, results, world, ExpansionInv
<1>1. at = "cut" /\ step \in TreeSteps /\ item \in Items /\ Named(item, known[item.file])
  BY Found DEF Cut, Points
<1>2. CASE Throw
  BY <1>1, <1>2, ThrowStep
<1>3. CASE /\ disk[item.file] # Missing
           /\ tree' = [root |-> Node(item), children |-> <<>>]
           /\ at' = (IF step = "outgoing" THEN "ask" ELSE "children")
           /\ UNCHANGED <<session, candidates, item, edges, question, results, world>>
  <2>1. Shape' /\ Points' /\ Route'
    BY <1>1, <1>3 DEF Shape, Points, Route, Places, TreeSteps, InFile, effective_file
  <2>2. Lookup' /\ Asked'
    BY <1>1, <1>3 DEF Lookup, Cuts, Asked, effective_file
  <2>3. Rooted'
    <3>1. tree'.root = Node(item) /\ tree'.root.item = item
      BY <1>3 DEF Node
    <3>2. item.file \in trusted => Shows(Node(item))
      BY <1>1, <1>3, CutShows
    <3>3. item' = item /\ trusted' = trusted /\ tree' = [root |-> tree'.root, children |-> <<>>]
      BY <1>3, <3>1
    <3> QED
      BY <3>1, <3>2, <3>3 DEF Rooted
  <2>4. Anchored' /\ Trust' /\ SnippetsShow'
    BY <1>3, AnchorsKept, SnippetsKept DEF Cuts, Trust, TextOf
  <2> QED
    BY <2>1, <2>2, <2>3, <2>4 DEF Cuts
<1> QED
  BY <1>2, <1>3 DEF Cut

LEMMA AskStep == ASSUME ExpansionInv, Ask PROVE ExpansionInv'
<1> USE DEF Ask, session, question, results, world, ExpansionInv
<1>1. step \in TreeSteps
  BY DEF Points
<1>2. edges' \in Seq(Items) /\ \A k \in DOMAIN edges' : Named(edges'[k], known[edges'[k].file])
  <2>1. CASE edges' = <<>>
    BY <2>1
  <2>2. ASSUME NEW f \in Files, NEW line \in DOMAIN known[f], edges' = <<ItemAt(f, line)>>
        PROVE  /\ edges' \in Seq(Items)
               /\ \A k \in DOMAIN edges' : Named(edges'[k], known[edges'[k].file])
    <3>1. ItemAt(f, line) \in Items /\ Named(ItemAt(f, line), known[f]) /\ ItemAt(f, line).file = f
      <4>1. known[f] \in Texts \cup {<<>>}
        BY DEF Shape
      <4> QED
        BY <4>1, TextFacts DEF ItemAt, Items, Named
    <3> QED
      BY <2>2, <3>1
  <2> QED
    BY <2>1, <2>2
<1>3. Shape' /\ Points'
  BY <1>1, <1>2 DEF Shape, Points, Places, TreeSteps
<1>4. Route' /\ Lookup'
  BY <1>1 DEF Route, Lookup, TreeSteps, InFile, effective_file
<1>5. Asked' /\ Rooted'
  BY <1>1, <1>2 DEF Cuts, Asked, Rooted
<1>6. Anchored' /\ Trust' /\ SnippetsShow'
  BY AnchorsKept, SnippetsKept DEF Cuts, Trust, TextOf
<1> QED
  BY <1>3, <1>4, <1>5, <1>6 DEF Cuts

LEMMA ChildrenStep == ASSUME ExpansionInv, Children PROVE ExpansionInv'
<1> USE DEF session, question, world, ExpansionInv
<1>1. /\ at = "children" /\ step \in TreeSteps /\ edges \in Seq(Items)
      /\ item.file = effective_file /\ tree.root.item = item
      /\ tree = [root |-> tree.root, children |-> <<>>]
  BY DEF Children, Points, Shape, Lookup, Cuts, Rooted, TreeSteps
<1>2. CASE Throw
  BY <1>1, <1>2, ThrowStep
<1>3. CASE /\ \A k \in DOMAIN edges : disk[edges[k].file] # Missing
           /\ tree' = [tree EXCEPT !.children = [k \in DOMAIN edges |-> Node(edges[k])]]
           /\ trees' = Append(trees, tree') /\ at' = "next"
           /\ UNCHANGED <<session, candidates, item, edges, question, resolved, outcome, world>>
  <2> DEFINE shown == [k \in DOMAIN edges |-> Node(edges[k])]
  <2>1. tree'.root = tree.root /\ tree'.children = shown
    <3>1. [tree EXCEPT !.children = shown] = [root |-> tree.root, children |-> shown]
      <4> HIDE DEF shown
      <4> QED
        BY <1>1
    <3> HIDE DEF shown
    <3>2. tree' = [root |-> tree.root, children |-> shown]
      BY <1>3, <3>1 DEF shown
    <3> QED
      BY <3>2
  <2>2. /\ trees' \in Seq({trees'[k] : k \in DOMAIN trees'}) /\ trees' # <<>>
        /\ {trees'[k] : k \in DOMAIN trees'} = {trees[k] : k \in DOMAIN trees} \cup {tree'}
    <3>1. trees \in Seq({trees[k] : k \in DOMAIN trees})
      BY DEF Shape
    <3>2. PICK t : t = tree' /\ trees' = Append(trees, t)
      BY <1>3
    <3> QED
      BY ONLY <3>1, <3>2, Appended
  <2>3. Shape'
    BY <1>3, <2>2 DEF Shape, Places
  <2>4. Points' /\ Lookup' /\ Asked' /\ Rooted'
    BY <1>3 DEF Points, Lookup, Cuts, Asked, Rooted
  <2>5. Route'
    BY <1>1, <1>3 DEF Route, TreeSteps, InFile
  <2>6. Anchored'
    <3>1. ASSUME NEW a \in Anchors' PROVE a \in Anchors \cup {item}
      <4>1. CASE a \in {resolved} \ {None}
        BY <4>1 DEF Anchors
      <4>2. CASE a \in Roots'
        <5>1. PICK t \in {trees'[k] : k \in DOMAIN trees'} : a = t.root.item
          BY <4>2 DEF Roots
        <5> QED
          BY <5>1, <2>1, <2>2, <1>1 DEF Anchors, Roots
      <4> QED
        BY <1>3, <3>1, <4>1, <4>2 DEF Anchors
    <3>2. effective_file' = effective_file /\ opened' = opened /\ known' = known
      BY <1>3 DEF effective_file
    <3>3. item.file \in opened /\ item = TheFirst(item.file, known[item.file])
      BY <1>1 DEF Lookup
    <3> QED
      BY <1>1, <3>1, <3>2, <3>3 DEF Anchored
  <2>7. Trust'
    BY <1>3 DEF Cuts, Trust, TextOf
  <2>8. SnippetsShow'
    <3> SUFFICES ASSUME NEW node \in Nodes', node.item.file \in trusted PROVE Shows(node)
      BY <1>3 DEF SnippetsShow
    <3>1. PICK t \in {trees'[k] : k \in DOMAIN trees'} :
            node = t.root \/ \E c \in DOMAIN t.children : node = t.children[c]
      BY DEF Nodes
    <3>2. CASE t \in {trees[k] : k \in DOMAIN trees}
      <4>1. node \in Nodes
        BY <3>1, <3>2 DEF Nodes
      <4> QED
        BY <4>1 DEF Cuts, SnippetsShow
    <3>3. CASE t = tree' /\ node = t.root
      BY <1>1, <2>1, <3>3 DEF Cuts, Rooted
    <3>4. CASE t = tree' /\ \E c \in DOMAIN t.children : node = t.children[c]
      <4>1. PICK k \in DOMAIN edges : node = Node(edges[k])
        BY <2>1, <3>4
      <4>2. edges[k] \in Items /\ node.item = edges[k]
        BY <1>1, <4>1 DEF Node
      <4>3. Named(edges[k], known[edges[k].file])
        BY <1>1, <4>2 DEF Cuts, Asked
      <4> QED
        BY <1>3, <4>1, <4>2, <4>3, CutShows
    <3> QED
      BY <2>2, <3>1, <3>2, <3>3, <3>4
  <2> QED
    BY <2>3, <2>4, <2>5, <2>6, <2>7, <2>8 DEF Cuts
<1> QED
  BY <1>2, <1>3 DEF Children

LEMMA EditStep == ASSUME ExpansionInv, Edit PROVE ExpansionInv'
<1> USE DEF Edit, session, search, question, results, ExpansionInv
<1>1. PICK f \in Files, text \in Texts \cup {Missing} :
        disk' = [disk EXCEPT ![f] = text] /\ trusted' = trusted \ {f}
  OBVIOUS
<1>2. Shape' /\ Points'
  BY <1>1 DEF Shape, Points, Places
<1>3. Route' /\ Lookup'
  BY DEF Route, Lookup, effective_file
<1>4. Trust' /\ Asked' /\ Rooted'
  BY <1>1 DEF Shape, Cuts, Trust, TextOf, Asked, Rooted
<1>5. Anchored' /\ SnippetsShow'
  BY <1>1, AnchorsKept, SnippetsKept DEF Cuts
<1> QED
  BY <1>2, <1>3, <1>4, <1>5 DEF Cuts

LEMMA ServerNoticesStep == ASSUME ExpansionInv, ServerNotices PROVE ExpansionInv'
<1> USE DEF ServerNotices, search, question, results, world, ExpansionInv
<1>1. PICK f \in Files \ opened :
        known[f] # TextOf(f) /\ known' = [known EXCEPT ![f] = TextOf(f)]
  OBVIOUS
<1>2. f \notin trusted /\ TextOf(f) \in Texts \cup {<<>>}
  BY <1>1 DEF Cuts, Trust, TextOf, Shape
<1>3. /\ known' \in [Files -> Texts \cup {<<>>}]
      /\ \A g \in Files : g # f => known'[g] = known[g]
  BY <1>1, <1>2 DEF Shape
<1>4. \A g \in opened \cup trusted : known'[g] = known[g]
  BY <1>1, <1>2, <1>3 DEF Shape
<1>5. Shape' /\ Points'
  BY <1>3 DEF Shape, Points
<1>6. Route' /\ Lookup'
  BY <1>4 DEF Route, Lookup, effective_file
<1>7. Trust' /\ Asked' /\ Rooted'
  BY <1>4 DEF Cuts, Trust, TextOf, Asked, Rooted
<1>8. Anchored' /\ SnippetsShow'
  BY <1>4, AnchorsKept, SnippetsKept DEF Cuts
<1> QED
  BY <1>5, <1>6, <1>7, <1>8 DEF Cuts

LEMMA StutterStep == ASSUME ExpansionInv, UNCHANGED vars PROVE ExpansionInv'
<1> USE DEF vars, session, search, question, results, world, ExpansionInv
<1>1. Shape' /\ Points' /\ Route' /\ Lookup'
  BY DEF Shape, Points, Route, Lookup, effective_file
<1>2. Anchored' /\ Cuts'
  BY AnchorsKept, SnippetsKept DEF Cuts, Trust, TextOf, Asked, Rooted
<1> QED
  BY <1>1, <1>2

-----------------------------------------------------------------------------
(* The theorems.                                                            *)

THEOREM Invariant == Spec => []ExpansionInv
<1>1. ExpansionInv /\ [Next]_vars => ExpansionInv'
  <2> SUFFICES ASSUME ExpansionInv, [Next]_vars PROVE ExpansionInv'
    OBVIOUS
  <2>1. CASE Caller
    BY <2>1, InvokeStep, NextStepStep, ReturnStep, RequestThrowsStep, GiveUpStep, SearchStep,
       AllTriedStep, EnsureOpenStep, DocumentSymbolsStep, PrepareStep, CutStep, AskStep,
       ChildrenStep DEF Caller
  <2>2. CASE Edit \/ ServerNotices
    BY <2>2, EditStep, ServerNoticesStep
  <2>3. CASE Over \/ UNCHANGED vars
    BY <2>3, StutterStep DEF Over
  <2> QED
    BY <2>1, <2>2, <2>3 DEF Next
<1> QED
  BY InitHolds, <1>1, PTL DEF Spec

\* What a caller keeps of a question has its type.
THEOREM ExpansionTyped == Spec => []TypeOK
<1> DEFINE Counts == /\ outcome \in {"none", "returned", "threw"} /\ quiet \in BOOLEAN
                     /\ calls \in Nat /\ edits \in 0 .. MaxEdits
<1>1. Init => Counts
  BY BoundsAssumption DEF Init
<1>2. Counts /\ [Next]_vars => Counts'
  <2> SUFFICES ASSUME Counts, [Next]_vars PROVE Counts'
    OBVIOUS
  <2>1. CASE Invoke
    <3>1. quiet' \in BOOLEAN
      BY <2>1, Zenon DEF Invoke
    <3>2. outcome' = "none" /\ calls' = calls + 1 /\ edits' = edits
      BY <2>1 DEF Invoke
    <3> QED
      BY <3>1, <3>2
  <2>2. CASE Edit
    <3>1. quiet' \in BOOLEAN
      BY <2>2, Zenon DEF Edit
    <3>2. outcome' = outcome /\ calls' = calls /\ edits' = edits + 1 /\ edits < MaxEdits
      BY <2>2 DEF Edit, results
    <3> QED
      BY <3>1, <3>2, BoundsAssumption
  <2>3. CASE UNCHANGED world /\ outcome' \in {outcome, "returned", "threw"}
    BY <2>3 DEF world
  <2>4. CASE EnsureOpen
    BY <2>4 DEF EnsureOpen, Throw, results, world
  <2>5. CASE Caller /\ ~Invoke /\ ~EnsureOpen
    <3>1. UNCHANGED world /\ outcome' \in {outcome, "returned", "threw"}
      BY <2>5 DEF Caller, NextStep, Return, RequestThrows, GiveUp, Search, AllTried,
         DocumentSymbols, Prepare, Cut, Ask, Children, Throw, results
    <3> QED
      BY <2>3, <3>1
  <2>6. CASE ServerNotices \/ Over \/ UNCHANGED vars
    BY <2>6 DEF ServerNotices, Over, vars, results, world
  <2> QED
    BY <2>1, <2>2, <2>4, <2>5, <2>6 DEF Next
<1>3. ExpansionInv /\ Counts => TypeOK
  BY DEF ExpansionInv, Shape, TypeOK, Places
<1> QED
  BY <1>1, <1>2, <1>3, Invariant, PTL DEF Spec

\* All steps of a question come to the same method (resolve_anchor and the two
\* expansions of src/service.cpp each look for it by name), whatever is edited.
THEOREM OneMethod == Spec => []SameMethod
<1>1. ExpansionInv => SameMethod
  <2> SUFFICES ASSUME ExpansionInv PROVE Cardinality(Anchors) <= 1
    BY DEF SameMethod
  <2> DEFINE the == TheFirst(effective_file, known[effective_file])
  <2>1. Anchors \subseteq {the}
    BY DEF ExpansionInv, Anchored
  <2>2. IsFiniteSet({the}) /\ Cardinality({the}) = 1
    BY FS_Singleton
  <2> HIDE DEF the
  <2>3. Cardinality(Anchors) <= Cardinality({the})
    BY <2>1, <2>2, FS_Subset
  <2> QED
    BY <2>2, <2>3
<1> QED
  BY <1>1, Invariant, PTL

\* A snippet that build_node cuts shows the method it is labelled with if the file
\* was on disk as the server knew it when the question began, or when the question
\* opened it, and nobody has edited it since.
THEOREM SnippetsTrue == Spec => []SnippetsShow
<1>1. ExpansionInv => SnippetsShow
  BY DEF ExpansionInv, Cuts
<1> QED
  BY <1>1, Invariant, PTL

-----------------------------------------------------------------------------
(* While nobody edits: every text the server answers from is the one on     *)
(* disk and stays so, also when a file is opened, so what was a class of    *)
(* the file when the candidates were chosen still is.                       *)

InClass(f) == class_name \in Classes(known[f])

Undisturbed ==
    quiet =>
        /\ trusted = Files
        /\ step = "resolve" /\ at \in {"open", "symbols", "prepare"} =>
             \A k \in DOMAIN candidates : InClass(candidates[k])
        /\ step = "resolve" /\ at = "prepare" => InClass(item.file)
        /\ resolved # None =>
             InClass(resolved.file) /\ method_name \in Methods(known[resolved.file])

\* Neither opening a file nor the server's own look at the disk changes a text.
LEMMA KnownStays ==
    ASSUME ExpansionInv, Undisturbed, quiet, EnsureOpen \/ ServerNotices
    PROVE  known' = known /\ trusted' = trusted
<1>1. known \in [Files -> Texts \cup {<<>>}] /\ trusted = Files /\ \A f \in Files : known[f] = TextOf(f)
  BY DEF ExpansionInv, Shape, Undisturbed, Cuts, Trust
<1>2. CASE ServerNotices
  BY <1>1, <1>2 DEF ServerNotices
<1>3. CASE EnsureOpen
  <2>1. Head(candidates) \in Files
    BY <1>3 DEF EnsureOpen, ExpansionInv, Shape
  <2>2. disk[Head(candidates)] # Missing => known[Head(candidates)] = disk[Head(candidates)]
    BY <1>1, <2>1 DEF TextOf
  <2> QED
    BY <1>1, <1>3, <2>1, <2>2 DEF EnsureOpen, Throw, session, world
<1> QED
  BY <1>2, <1>3

\* Steps that start no attempt, choose no candidate and resolve nothing.
LEMMA CalmStep ==
    ASSUME Undisturbed, UNCHANGED <<known, trusted, resolved>>, quiet' => quiet,
           at' \in {"open", "symbols", "prepare"} /\ step' = "resolve" =>
             /\ at \in {"open", "symbols", "prepare"} /\ step = "resolve"
             /\ \/ UNCHANGED candidates
                \/ candidates' = <<>>
                \/ candidates # <<>> /\ candidates' = Tail(candidates)
             /\ at' = "prepare" => at = "prepare" /\ UNCHANGED item,
           candidates \in Seq(Files)
    PROVE  Undisturbed'
<1> SUFFICES ASSUME quiet' PROVE Undisturbed'
  BY DEF Undisturbed
<1>1. trusted = Files /\ \A f : InClass(f)' <=> InClass(f)
  BY DEF Undisturbed, InClass
<1>2. \A k \in DOMAIN candidates' : candidates # <<>> /\ candidates' = Tail(candidates) =>
         \E j \in DOMAIN candidates : candidates'[k] = candidates[j]
  OBVIOUS
<1> QED
  BY <1>1, <1>2 DEF Undisturbed

LEMMA SearchCalm == ASSUME ExpansionInv, Undisturbed, Search PROVE Undisturbed'
<1>1. /\ at = "search" /\ UNCHANGED <<known, step, resolved, trusted, quiet>>
      /\ \/ at' = "next"
         \/ at' = "open" /\ candidates' \in Candidates
  BY DEF Search, session, question, results, world
<1>2. ASSUME NEW c \in Candidates, NEW k \in DOMAIN c PROVE InClass(c[k])
  <2> DEFINE offered == {symbol.file : symbol \in {s \in Symbols : Fits(s)}}
  <2>1. \A f \in offered : InClass(f)
    <3> SUFFICES ASSUME NEW s \in Symbols, Fits(s) PROVE InClass(s.file)
      OBVIOUS
    <3>1. PICK f \in Files : s \in {[class |-> n, file |-> f] : n \in Classes(known[f])}
      BY DEF Symbols
    <3>2. PICK n \in Classes(known[f]) : s = [class |-> n, file |-> f]
      BY <3>1
    <3> QED
      BY <3>2 DEF Fits, InClass
  <2>2. \/ c = <<>>
        \/ c \in {<<f>> : f \in offered}
        \/ c \in offered \X offered
    BY DEF Candidates
  <2> HIDE DEF offered
  <2>3. ASSUME NEW f \in offered, c = <<f>> PROVE InClass(c[k])
    BY <2>1, <2>3
  <2>4. ASSUME NEW f \in offered, NEW g \in offered, c = <<f, g>> PROVE InClass(c[k])
    <3>1. k \in {1, 2}
      BY <2>4
    <3> QED
      BY <2>1, <2>4, <3>1
  <2>5. c \in offered \X offered => \E f, g \in offered : c = <<f, g>>
    OBVIOUS
  <2> QED
    BY <2>2, <2>3, <2>4, <2>5
<1>3. \A f : InClass(f)' <=> InClass(f)
  BY <1>1 DEF InClass
<1> QED
  BY <1>1, <1>2, <1>3 DEF Undisturbed

LEMMA DocumentSymbolsCalm == ASSUME ExpansionInv, Undisturbed, DocumentSymbols PROVE Undisturbed'
<1>1. /\ at = "symbols" /\ candidates \in Seq(Files)
      /\ UNCHANGED <<known, trusted, resolved, step, quiet>>
      /\ candidates # <<>> /\ Head(candidates) = candidates[1] /\ 1 \in DOMAIN candidates
      /\ Head(candidates) \in Files
  BY DEF DocumentSymbols, session, question, results, world, ExpansionInv, Shape, Lookup
<1>2. CASE at' # "prepare"
  BY <1>1, <1>2, CalmStep DEF DocumentSymbols
<1>3. CASE at' = "prepare"
  <2>1. /\ method_name \in Methods(known[Head(candidates)]) /\ UNCHANGED candidates
        /\ item' = ItemAt(Head(candidates), FirstMethod(Head(candidates)))
    BY <1>3 DEF DocumentSymbols
  <2>2. item'.file = Head(candidates)
    BY <2>1 DEF ItemAt
  <2>3. \A f : InClass(f)' <=> InClass(f)
    BY <1>1 DEF InClass
  <2> QED
    BY <1>1, <1>3, <2>1, <2>2, <2>3 DEF Undisturbed
<1> QED
  BY <1>2, <1>3

LEMMA PrepareCalm == ASSUME ExpansionInv, Undisturbed, Prepare PROVE Undisturbed'
<1>1. /\ at = "prepare" /\ candidates \in Seq(Files) /\ candidates # <<>>
      /\ UNCHANGED <<known, trusted, step, quiet, item>>
  BY DEF Prepare, session, question, world, ExpansionInv, Shape, Lookup
<1>2. CASE UNCHANGED resolved /\ at' # "prepare"
  BY <1>1, <1>2, CalmStep DEF Prepare
<1>3. CASE step = "resolve" /\ resolved' = item /\ at' = "next"
  <2>1. method_name \in Methods(known[item.file])
    BY <1>1 DEF ExpansionInv, Lookup
  <2>2. \A f : InClass(f)' <=> InClass(f)
    BY <1>1 DEF InClass
  <2> QED
    BY <1>1, <1>3, <2>1, <2>2 DEF Undisturbed
<1> QED
  BY <1>2, <1>3 DEF Prepare

\* The other steps of the caller, and those beside him.
LEMMA OtherCalm ==
    ASSUME ExpansionInv, Undisturbed, [Next]_vars, ~Search, ~DocumentSymbols, ~Prepare
    PROVE  Undisturbed'
<1> USE DEF ExpansionInv, session, search, question, results, world
<1>1. candidates \in Seq(Files)
  BY DEF Shape
<1>2. CASE Invoke
  BY <1>2 DEF Invoke, Undisturbed
<1>3. CASE Edit
  BY <1>3 DEF Edit, Undisturbed
<1>4. CASE NextStep
  <2>1. UNCHANGED <<known, trusted, resolved, quiet>>
    BY <1>4 DEF NextStep
  <2>2. ~(at' \in {"open", "symbols", "prepare"} /\ step' = "resolve")
    BY <1>4 DEF NextStep, Start
  <2> QED
    BY <1>1, <2>1, <2>2, CalmStep
<1>5. ASSUME Throw PROVE Undisturbed'
  <2>1. UNCHANGED <<known, trusted, resolved, quiet, step>>
    BY <1>5 DEF Throw
  <2>2. ~(at' \in {"open", "symbols", "prepare"} /\ step' = "resolve")
    BY <1>5, <2>1 DEF Throw, NextAttempt, Start
  <2> QED
    BY <1>1, <2>1, <2>2, CalmStep
<1>6. CASE AllTried
  <2>1. UNCHANGED <<known, trusted, resolved, quiet, step>>
    BY <1>6 DEF AllTried
  <2>2. ~(at' \in {"open", "symbols", "prepare"} /\ step' = "resolve")
    BY <1>6, <2>1 DEF AllTried, NextAttempt, Start
  <2> QED
    BY <1>1, <2>1, <2>2, CalmStep
<1>7. CASE EnsureOpen
  <2>1. CASE Throw
    BY <1>5, <2>1
  <2>2. CASE ~Throw
    <3>1. UNCHANGED <<resolved, quiet, step, candidates>> /\ at = "open" /\ at' = "symbols"
      BY <1>7, <2>2 DEF EnsureOpen
    <3>2. CASE quiet
      BY <1>1, <1>7, <3>1, <3>2, KnownStays, CalmStep
    <3>3. CASE ~quiet
      BY <3>1, <3>3 DEF Undisturbed
    <3> QED
      BY <3>2, <3>3
  <2> QED
    BY <2>1, <2>2
<1>8. CASE ServerNotices
  <2>1. UNCHANGED <<resolved, quiet, step, candidates, at, item>>
    BY <1>8 DEF ServerNotices
  <2>2. CASE quiet
    BY <1>1, <1>8, <2>1, <2>2, KnownStays, CalmStep
  <2>3. CASE ~quiet
    BY <2>1, <2>3 DEF Undisturbed
  <2> QED
    BY <2>2, <2>3
<1>9. CASE Return \/ GiveUp
  <2>1. UNCHANGED <<known, trusted, resolved, quiet, step>> /\ at' = "idle"
    BY <1>9 DEF Return, GiveUp
  <2> QED
    BY <1>1, <2>1, CalmStep
<1>10. CASE (Cut \/ Ask \/ Children) /\ ~Throw
  <2>1. UNCHANGED <<known, trusted, resolved, quiet>> /\ at' \notin {"open", "symbols", "prepare"}
    BY <1>10 DEF Cut, Ask, Children
  <2> QED
    BY <1>1, <2>1, CalmStep
<1>11. CASE Over \/ UNCHANGED vars
  <2>1. UNCHANGED <<known, trusted, resolved, quiet, step, candidates, at, item>>
    BY <1>11 DEF Over, vars
  <2> QED
    BY <1>1, <2>1, CalmStep
<1> QED
  BY <1>2, <1>3, <1>4, <1>5, <1>6, <1>7, <1>8, <1>9, <1>10, <1>11 DEF Next, Caller, RequestThrows

\* Whoever asks while nobody edits gets a method of the file the class is in.
THEOREM AnchorTrue == Spec => []AnchorInClass
<1>1. Init => Undisturbed
  BY DEF Init, Undisturbed
<1>2. ExpansionInv /\ Undisturbed /\ [Next]_vars => Undisturbed'
  BY SearchCalm, DocumentSymbolsCalm, PrepareCalm, OtherCalm
<1>3. ExpansionInv /\ Undisturbed => AnchorInClass
  <2> SUFFICES ASSUME ExpansionInv, Undisturbed, quiet, resolved # None PROVE AnchorInClass
    BY DEF AnchorInClass
  <2> DEFINE f == resolved.file
             text == known[f]
  <2>1. f \in Files /\ f \in trusted /\ text \in Texts \cup {<<>>}
    BY DEF ExpansionInv, Shape, Items, Undisturbed
  <2>2. class_name \in Classes(text) /\ method_name \in Methods(text)
    BY DEF Undisturbed, InClass
  <2>3. disk[f] = text
    <3>1. text = TextOf(f)
      BY <2>1 DEF ExpansionInv, Cuts, Trust
    <3>2. text # <<>>
      BY <2>2 DEF Classes
    <3> QED
      BY <3>1, <3>2 DEF TextOf
  <2>4. resolved = TheFirst(f, text)
    BY DEF ExpansionInv, Anchored, Anchors, effective_file
  <2>5. /\ resolved.line \in DOMAIN text /\ text[resolved.line].method = method_name
        /\ \A k \in 1 .. resolved.line - 1 : text[k].method # method_name
    BY <2>1, <2>2, <2>4, FirstFound DEF Named
  <2> HIDE DEF f, text
  <2>6. disk[resolved.file] = text
    BY <2>3 DEF f
  <2> QED
    BY <2>2, <2>5, <2>6 DEF AnchorInClass
<1> QED
  BY <1>1, <1>2, <1>3, Invariant, PTL DEF Spec
===============================================================================
