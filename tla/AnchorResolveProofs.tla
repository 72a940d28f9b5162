-------------------------- MODULE AnchorResolveProofs --------------------------
(***************************************************************************)
(* The anchor is that of the first wanted symbol whose file has one         *)
(* (AnchorResolve).  An attempt works its way through the candidates: what  *)
(* it has tried and what it has left are together the candidates of the     *)
(* last answer.  That the candidates are all the wanted symbols, in order,  *)
(* is shown for the loop that chooses them.                                 *)
(***************************************************************************)
EXTENDS AnchorResolve, FiniteSetTheorems, SequenceTheorems, WellFoundedInduction, TLAPS

-----------------------------------------------------------------------------
(* The choice of candidates.                                                *)

\* A set of numbers has a least one.
LEMMA Least ==
    ASSUME NEW S \in SUBSET Nat, S # {}
    PROVE  \E m \in S : \A k \in S : m <= k
<1> DEFINE T == {1 .. k : k \in S}
<1>1. \A k \in S : 1 .. k \in SUBSET Nat /\ IsFiniteSet(1 .. k)
  BY FS_Interval
<1>2. T \subseteq FiniteSubsetsOf(Nat) /\ T # {}
  BY <1>1 DEF FiniteSubsetsOf
<1>3. PICK x \in T : \A y \in T : ~(<<y, x>> \in StrictSubsetOrdering(Nat))
  <2> HIDE DEF T
  <2> QED
    BY <1>2, FS_StrictSubsetOrderingWellFounded, WFMin
<1>4. PICK m \in S : x = 1 .. m
  OBVIOUS
<1>5. ASSUME NEW k \in S, k < m PROVE FALSE
  <2>1. 1 .. k \subseteq 1 .. m /\ 1 .. k # 1 .. m
    BY <1>5
  <2>2. <<1 .. k, 1 .. m>> \in StrictSubsetOrdering(Nat)
    BY <1>1, <2>1 DEF StrictSubsetOrdering
  <2>3. 1 .. k \in T
    OBVIOUS
  <2> QED
    BY <1>3, <1>4, <2>2, <2>3
<1> QED
  BY <1>5


\* One round of the loop in select_anchor_candidates, and all of its rounds.
Choose(g, symbols, n) ==
    IF n = 0 THEN <<>>
    ELSE IF Fits(symbols[n]) THEN Append(g[n - 1], path(symbols[n]))
    ELSE g[n - 1]
ChosenUpTo(g, symbols, n) == g = [k \in 0 .. n |-> Choose(g, symbols, k)]

LEMMA ChoiceExists ==
    ASSUME NEW symbols, NEW n \in Nat PROVE \E g : ChosenUpTo(g, symbols, n)
<1> DEFINE Missing == {k \in Nat : ~ \E g : ChosenUpTo(g, symbols, k)}
<1> SUFFICES ASSUME Missing # {} PROVE FALSE
  OBVIOUS
<1>1. PICK m \in Missing : \A k \in Missing : m <= k
  <2>1. Missing \in SUBSET Nat
    OBVIOUS
  <2> HIDE DEF Missing
  <2> QED
    BY <2>1, Least
<1>2. m \in Nat /\ ~ \E g : ChosenUpTo(g, symbols, m)
  OBVIOUS
<1>3. CASE m = 0
  <2> DEFINE g == [k \in 0 .. 0 |-> <<>>]
  <2>1. \A k \in 0 .. 0 : Choose(g, symbols, k) = <<>>
    BY DEF Choose
  <2>2. ChosenUpTo(g, symbols, 0)
    BY <2>1 DEF ChosenUpTo
  <2> QED
    BY <1>2, <1>3, <2>2
<1>4. CASE m # 0
  <2>1. m - 1 \in Nat /\ m - 1 \notin Missing
    BY <1>1, <1>2, <1>4
  <2>2. PICK h : ChosenUpTo(h, symbols, m - 1)
    BY <2>1
  <2> DEFINE g == [k \in 0 .. m |-> IF k < m THEN h[k] ELSE Choose(h, symbols, m)]
  <2>3. ASSUME NEW k \in 0 .. m PROVE g[k] = Choose(g, symbols, k)
    <3>1. CASE k = 0
      <4>1. 0 \in 0 .. m - 1 /\ k < m
        BY <1>2, <1>4, <3>1
      <4>2. g[k] = h[0] /\ h[0] = Choose(h, symbols, 0)
        BY <2>2, <3>1, <4>1 DEF ChosenUpTo
      <4> QED
        BY <3>1, <4>2 DEF Choose
    <3>2. CASE k # 0
      <4>1. k - 1 \in 0 .. m /\ k - 1 < m /\ k - 1 \in 0 .. m - 1
        BY <1>2, <3>2
      <4>2. g[k - 1] = h[k - 1]
        BY <4>1
      <4>3. Choose(g, symbols, k) = Choose(h, symbols, k)
        BY <3>2, <4>2 DEF Choose
      <4>4. CASE k < m
        <5>1. k \in 0 .. m - 1
          BY <1>2, <4>4
        <5>2. h[k] = Choose(h, symbols, k)
          BY <2>2, <5>1 DEF ChosenUpTo
        <5> QED
          BY <4>3, <4>4, <5>2
      <4>5. CASE k = m
        <5>1. g[k] = Choose(h, symbols, m)
          BY <4>5
        <5> QED
          BY <4>3, <4>5, <5>1
      <4> QED
        BY <1>2, <4>4, <4>5
    <3> QED
      BY <3>1, <3>2
  <2>4. ChosenUpTo(g, symbols, m)
    BY <2>3 DEF ChosenUpTo
  <2> QED
    BY <1>2, <2>4
<1> QED
  BY <1>3, <1>4

\* The candidates are what the loop has after the last symbol.
LEMMA CandidatesAre ==
    ASSUME NEW symbols \in Seq(Symbols)
    PROVE  \E g : /\ ChosenUpTo(g, symbols, Len(symbols))
                  /\ select_anchor_candidates(symbols) = g[Len(symbols)]
<1> DEFINE kept == CHOOSE g : g = [n \in 0 .. Len(symbols) |->
                                     IF n = 0 THEN <<>>
                                     ELSE IF Fits(symbols[n])
                                          THEN Append(g[n - 1], path(symbols[n]))
                                     ELSE g[n - 1]]
<1>1. PICK h : ChosenUpTo(h, symbols, Len(symbols))
  BY ChoiceExists
<1>2. h = [n \in 0 .. Len(symbols) |->
             IF n = 0 THEN <<>>
             ELSE IF Fits(symbols[n]) THEN Append(h[n - 1], path(symbols[n]))
             ELSE h[n - 1]]
  BY <1>1 DEF ChosenUpTo, Choose
<1>3. kept = [n \in 0 .. Len(symbols) |->
                IF n = 0 THEN <<>>
                ELSE IF Fits(symbols[n]) THEN Append(kept[n - 1], path(symbols[n]))
                ELSE kept[n - 1]]
  BY <1>2
<1>4. ChosenUpTo(kept, symbols, Len(symbols))
  <2> HIDE DEF kept
  <2> QED
    BY <1>3 DEF ChosenUpTo, Choose
<1>5. select_anchor_candidates(symbols) = kept[Len(symbols)]
  BY DEF select_anchor_candidates
<1> QED
  BY <1>4, <1>5

\* How many of the first k symbols fit.
Fitting(symbols, k) == {j \in 1 .. k : Fits(symbols[j])}

LEMMA FittingCounts ==
    ASSUME NEW symbols, NEW k \in Nat
    PROVE  /\ Cardinality(Fitting(symbols, k)) \in Nat
           /\ Fitting(symbols, 0) = {}
           /\ Fits(symbols[k + 1]) =>
                Cardinality(Fitting(symbols, k + 1)) = Cardinality(Fitting(symbols, k)) + 1
           /\ ~Fits(symbols[k + 1]) => Fitting(symbols, k + 1) = Fitting(symbols, k)
<1>1. IsFiniteSet(1 .. k) /\ Fitting(symbols, k) \subseteq 1 .. k
  BY FS_Interval DEF Fitting
<1>2. IsFiniteSet(Fitting(symbols, k)) /\ Cardinality(Fitting(symbols, k)) \in Nat
  BY <1>1, FS_Subset, FS_CardinalityType
<1>3. Fitting(symbols, 0) = {}
  BY DEF Fitting
<1>4. ASSUME Fits(symbols[k + 1])
      PROVE  Cardinality(Fitting(symbols, k + 1)) = Cardinality(Fitting(symbols, k)) + 1
  <2>1. Fitting(symbols, k + 1) = Fitting(symbols, k) \cup {k + 1}
    BY <1>4 DEF Fitting
  <2>2. k + 1 \notin Fitting(symbols, k)
    BY DEF Fitting
  <2> QED
    BY <1>2, <2>1, <2>2, FS_AddElement
<1>5. ~Fits(symbols[k + 1]) => Fitting(symbols, k + 1) = Fitting(symbols, k)
  BY DEF Fitting
<1> QED
  BY <1>2, <1>3, <1>4, <1>5

\* After n symbols the i-th file kept is that of the i-th symbol that fits, and
\* there are as many files as symbols that fit.
KeptWell(files, symbols, n) ==
    /\ files \in Seq(Scope)
    /\ Len(files) = Cardinality(Fitting(symbols, n))
    /\ \A i \in DOMAIN files : \E k \in 1 .. n :
         /\ Fits(symbols[k]) /\ files[i] = path(symbols[k])
         /\ Cardinality(Fitting(symbols, k)) = i

LEMMA KeptStep ==
    ASSUME NEW symbols, NEW n \in Nat, NEW files, KeptWell(files, symbols, n)
    PROVE  /\ Fits(symbols[n + 1]) =>
                KeptWell(Append(files, path(symbols[n + 1])), symbols, n + 1)
           /\ ~Fits(symbols[n + 1]) => KeptWell(files, symbols, n + 1)
<1>1. /\ files \in Seq(Scope)
      /\ Len(files) = Cardinality(Fitting(symbols, n))
  BY DEF KeptWell
<1>2. ASSUME NEW i \in DOMAIN files
      PROVE  \E k \in 1 .. n + 1 :
                /\ Fits(symbols[k]) /\ files[i] = path(symbols[k])
                /\ Cardinality(Fitting(symbols, k)) = i
  <2>1. PICK k \in 1 .. n : /\ Fits(symbols[k]) /\ files[i] = path(symbols[k])
                            /\ Cardinality(Fitting(symbols, k)) = i
    BY DEF KeptWell
  <2>2. k \in 1 .. n + 1
    OBVIOUS
  <2> QED
    BY <2>1, <2>2
<1>3. ASSUME ~Fits(symbols[n + 1]) PROVE KeptWell(files, symbols, n + 1)
  <2>1. Fitting(symbols, n + 1) = Fitting(symbols, n)
    BY <1>3, FittingCounts
  <2> QED
    BY <1>1, <1>2, <2>1 DEF KeptWell
<1>4. ASSUME Fits(symbols[n + 1])
      PROVE  KeptWell(Append(files, path(symbols[n + 1])), symbols, n + 1)
  <2> DEFINE file == path(symbols[n + 1])
             more == Append(files, file)
  <2>1. file \in Scope
    BY <1>4 DEF Fits
  <2>2. Cardinality(Fitting(symbols, n + 1)) = Len(files) + 1
    BY <1>1, <1>4, FittingCounts
  <2>3. /\ more \in Seq(Scope) /\ Len(more) = Len(files) + 1
        /\ DOMAIN more = 1 .. Len(files) + 1 /\ DOMAIN files = 1 .. Len(files)
        /\ \A i \in DOMAIN files : more[i] = files[i]
        /\ more[Len(files) + 1] = file
    <3> HIDE DEF file
    <3> QED
      BY <1>1, <2>1
  <2>4. ASSUME NEW i \in DOMAIN more
        PROVE  \E k \in 1 .. n + 1 :
                  /\ Fits(symbols[k]) /\ more[i] = path(symbols[k])
                  /\ Cardinality(Fitting(symbols, k)) = i
    <3>1. CASE i \in DOMAIN files
      <4>1. more[i] = files[i]
        BY <2>3, <3>1
      <4> HIDE DEF more
      <4> QED
        BY <1>2, <3>1, <4>1
    <3>2. CASE i \notin DOMAIN files
      <4>1. i = Len(files) + 1
        <5> HIDE DEF more
        <5> QED
          BY <1>1, <2>3, <3>2
      <4>2. more[i] = path(symbols[n + 1]) /\ n + 1 \in 1 .. n + 1
        BY <2>3, <4>1
      <4> HIDE DEF more
      <4> QED
        BY <1>4, <2>2, <4>1, <4>2
    <3> QED
      BY <3>1, <3>2
  <2> HIDE DEF more, file
  <2>5. KeptWell(more, symbols, n + 1)
    BY <2>2, <2>3, <2>4 DEF KeptWell
  <2> QED
    BY <2>5 DEF more, file
<1> QED
  BY <1>3, <1>4

\* The candidates are the symbols of the answer that fit, all of them, in its order.
LEMMA CandidatesWell ==
    ASSUME NEW symbols \in Seq(Symbols)
    PROVE  KeptWell(select_anchor_candidates(symbols), symbols, Len(symbols))
<1>1. PICK g : /\ ChosenUpTo(g, symbols, Len(symbols))
               /\ select_anchor_candidates(symbols) = g[Len(symbols)]
  BY CandidatesAre
<1>2. PICK N \in Nat : N = Len(symbols)
  OBVIOUS
<1>3. \A n \in 0 .. N : g[n] = Choose(g, symbols, n)
  BY <1>1, <1>2 DEF ChosenUpTo
<1> DEFINE Bad == {n \in Nat : n <= N /\ ~KeptWell(g[n], symbols, n)}
<1>4. Bad = {}
  <2> SUFFICES ASSUME Bad # {} PROVE FALSE
    OBVIOUS
  <2>1. PICK m \in Bad : \A n \in Bad : m <= n
    <3>1. Bad \in SUBSET Nat
      OBVIOUS
    <3> HIDE DEF Bad
    <3> QED
      BY <3>1, Least
  <2>2. m \in Nat /\ m \in 0 .. N /\ ~KeptWell(g[m], symbols, m)
    OBVIOUS
  <2>3. CASE m = 0
    <3>1. g[m] = <<>>
      BY <1>3, <2>2, <2>3 DEF Choose
    <3>2. Cardinality(Fitting(symbols, 0)) = 0
      BY FittingCounts, FS_EmptySet
    <3> QED
      BY <2>2, <2>3, <3>1, <3>2 DEF KeptWell
  <2>4. CASE m # 0
    <3>1. PICK p \in Nat : p + 1 = m /\ p <= N
      <4>1. m - 1 \in Nat /\ (m - 1) + 1 = m /\ m - 1 <= N
        BY <1>2, <2>2, <2>4
      <4> QED
        BY <4>1
    <3>2. KeptWell(g[p], symbols, p)
      <4>1. p \notin Bad
        BY <2>1, <2>2, <3>1
      <4> QED
        BY <3>1, <4>1
    <3>3. /\ m - 1 = p
          /\ g[m] = IF Fits(symbols[m]) THEN Append(g[p], path(symbols[m])) ELSE g[p]
      <4>1. m - 1 = p
        BY <2>2, <3>1
      <4> QED
        BY <1>3, <2>2, <2>4, <4>1 DEF Choose
    <3> QED
      BY <2>2, <3>1, <3>2, <3>3, KeptStep
  <2> QED
    BY <2>3, <2>4
<1> QED
  BY <1>1, <1>2, <1>4

\* A symbol fits exactly when it is wanted, if any does: a class asked for by a name
\* with parameters is that of no symbol.
LEMMA FitsIsWanted ==
    ASSUME answer \in Seq(Symbols), NEW k \in DOMAIN answer, Fits(answer[k]),
           NEW j \in 1 .. k
    PROVE  Fits(answer[j]) <=> Wanted(j)
<1>1. /\ answer[k] \in Symbols /\ answer[j] \in Symbols
      /\ \A s \in Symbols : s.name \in [folded : STRING, parameters : BOOLEAN]
      /\ "none" \notin Scope
  BY SymbolsAssumption
<1>2. /\ logical_name(answer[k].name).parameters = FALSE
      /\ logical_name(answer[j].name).parameters = FALSE
      /\ logical_name(answer[j].name).folded = answer[j].name.folded
  BY <1>1 DEF logical_name
<1>3. class_name.parameters = FALSE
  BY <1>2 DEF Fits, iequals_ascii
<1>4. iequals_ascii(logical_name(answer[j].name), class_name)
        <=> answer[j].name.folded = class_name.folded
  BY <1>2, <1>3 DEF iequals_ascii
<1>5. path(answer[j]) # "none" /\ path(answer[j]) \in Scope
        <=> answer[j].uri = "file" /\ answer[j].file \in Scope
  BY <1>1 DEF path
<1> QED
  BY <1>4, <1>5 DEF Fits, Wanted, is_type_like_kind

\* The i-th candidate is the file of the i-th wanted symbol.
LEMMA CandidateIsWanted ==
    ASSUME answer \in Seq(Symbols), NEW i \in DOMAIN select_anchor_candidates(answer)
    PROVE  \E k \in DOMAIN answer :
              /\ Wanted(k) /\ select_anchor_candidates(answer)[i] = answer[k].file
              /\ Cardinality({j \in 1 .. k : Wanted(j)}) = i
<1>1. PICK k \in 1 .. Len(answer) :
        /\ Fits(answer[k]) /\ select_anchor_candidates(answer)[i] = path(answer[k])
        /\ Cardinality(Fitting(answer, k)) = i
  BY CandidatesWell DEF KeptWell
<1>2. k \in DOMAIN answer /\ k \in 1 .. k
  OBVIOUS
<1>3. \A j \in 1 .. k : Fits(answer[j]) <=> Wanted(j)
  BY <1>1, <1>2, FitsIsWanted
<1>4. Wanted(k) /\ Fitting(answer, k) = {j \in 1 .. k : Wanted(j)}
  BY <1>1, <1>2, <1>3 DEF Fitting
<1>5. path(answer[k]) = answer[k].file
  BY <1>4 DEF Wanted, path
<1> QED
  BY <1>1, <1>2, <1>4, <1>5

LEMMA CandidatesTyped ==
    ASSUME NEW symbols \in Answers
    PROVE  /\ symbols \in Seq(Symbols)
           /\ select_anchor_candidates(symbols) \in Seq(Scope)
           /\ Len(select_anchor_candidates(symbols)) \in 0 .. MaxSymbols
<1>1. PICK n \in 0 .. MaxSymbols : symbols \in [1 .. n -> Symbols]
  BY DEF Answers
<1>2. n \in Nat /\ n <= MaxSymbols /\ MaxSymbols \in Nat
  BY <1>1, TimesAssumption
<1>3. symbols \in Seq(Symbols) /\ Len(symbols) = n
  BY <1>1, <1>2
<1>4. KeptWell(select_anchor_candidates(symbols), symbols, n)
  BY <1>3, CandidatesWell
<1>5. Cardinality(Fitting(symbols, n)) \in Nat /\ Cardinality(Fitting(symbols, n)) <= n
  <2>1. /\ IsFiniteSet(1 .. n) /\ Cardinality(1 .. n) = n
        /\ Fitting(symbols, n) \subseteq 1 .. n
    BY <1>2, FS_Interval DEF Fitting
  <2> QED
    BY <2>1, FS_Subset, FS_CardinalityType
<1> QED
  BY <1>2, <1>3, <1>4, <1>5 DEF KeptWell

-----------------------------------------------------------------------------
(* The invariant.                                                           *)

\* While the symbols are asked for nothing has been tried.
Searching == at = "search" => function = "class" /\ outcomes = <<>>

\* What has been tried and what is left are together the chosen files.
Remain(chosen, tried, left) ==
    /\ Len(chosen) = Len(tried) + Len(left)
    /\ \A j \in DOMAIN left : left[j] = chosen[Len(tried) + j]

\* Every try so far has come to nothing; with those left they are the candidates of
\* the answer, or the one file.
Trying ==
    at \in {"try", "prepare"} =>
        /\ \A n \in DOMAIN outcomes : outcomes[n] \in {"no method", "no item"}
        /\ function = "class" =>
             Remain(select_anchor_candidates(answer), outcomes, candidates)
        /\ function = "file" =>
             candidates = <<>> \/ (candidates = <<TheFile>> /\ outcomes = <<>>)
        /\ at = "prepare" => candidates # <<>>

AnchorInv ==
    /\ TypeOK
    /\ outcomes \in Seq({"no method", "no item", "anchor"})
    /\ Searching
    /\ Trying
    /\ FirstThatFits

LEMMA AnchorInit == Init => AnchorInv
<1> SUFFICES ASSUME Init PROVE AnchorInv
  OBVIOUS
<1>1. TypeOK
  BY TimesAssumption DEF Init, TypeOK
<1> QED
  BY <1>1 DEF Init, AnchorInv, Searching, Trying, FirstThatFits

LEMMA TailFacts ==
    ASSUME NEW S, NEW s \in Seq(S), s # <<>>
    PROVE  /\ Tail(s) \in Seq(S) /\ Len(Tail(s)) = Len(s) - 1 /\ Len(s) \in Nat
           /\ \A j \in DOMAIN Tail(s) : /\ j \in Nat /\ j + 1 \in DOMAIN s
                                       /\ Tail(s)[j] = s[j + 1]
<1>1. Len(s) \in Nat \ {0}
  OBVIOUS
<1>2. Tail(s) \in Seq(S) /\ Len(Tail(s)) = Len(s) - 1
  BY <1>1
<1>3. ASSUME NEW j \in 1 .. Len(s) - 1 PROVE j + 1 \in 1 .. Len(s) /\ Tail(s)[j] = s[j + 1]
  BY <1>1
<1>4. DOMAIN s = 1 .. Len(s) /\ DOMAIN Tail(s) = 1 .. Len(s) - 1
  BY <1>1, <1>2
<1> QED
  BY <1>1, <1>2, <1>3, <1>4

LEMMA TailOfOne == ASSUME NEW e PROVE Tail(<<e>>) = <<>>
<1> DEFINE s == <<e>>
<1>1. s \in Seq({e}) /\ s # <<>> /\ Len(s) = 1
  OBVIOUS
<1> HIDE DEF s
<1>2. Tail(s) \in Seq({e}) /\ Len(Tail(s)) = 0
  BY <1>1, TailFacts
<1>3. Tail(s) = <<>>
  BY <1>2, EmptySeq
<1> QED
  BY <1>3 DEF s

LEMMA AppendFacts ==
    ASSUME NEW S, NEW s \in Seq(S), NEW e \in S
    PROVE  /\ Append(s, e) \in Seq(S) /\ Len(Append(s, e)) = Len(s) + 1 /\ Len(s) \in Nat
           /\ \A n \in DOMAIN Append(s, e) :
                \/ n \in DOMAIN s /\ Append(s, e)[n] = s[n]
                \/ n = Len(s) + 1 /\ Append(s, e)[n] = e
  OBVIOUS

\* What is left after one more try is what the chosen ones have after it.
LEMMA NextIsNext ==
    ASSUME NEW C, NEW left \in Seq(C), left # <<>>, NEW O, NEW tried \in Seq(O), NEW e \in O,
           NEW chosen, Remain(chosen, tried, left)
    PROVE  Remain(chosen, Append(tried, e), Tail(left))
<1>1. PICK a \in Nat : a = Len(tried) /\ Len(Append(tried, e)) = a + 1
  BY AppendFacts
<1>2. PICK b \in Nat : b = Len(left) /\ Len(Tail(left)) = b - 1
  BY TailFacts
<1>3. (a + 1) + (b - 1) = a + b
  BY <1>1, <1>2
<1>4. ASSUME NEW j \in DOMAIN Tail(left)
      PROVE  Tail(left)[j] = chosen[(a + 1) + j]
  <2>1. j \in Nat /\ j + 1 \in DOMAIN left /\ Tail(left)[j] = left[j + 1]
    BY TailFacts
  <2>2. left[j + 1] = chosen[a + (j + 1)]
    BY <1>1, <2>1 DEF Remain
  <2>3. a + (j + 1) = (a + 1) + j
    BY <1>1, <2>1
  <2> QED
    BY <2>1, <2>2, <2>3
<1>5. Len(chosen) = a + b
  BY <1>1, <1>2 DEF Remain
<1> QED
  BY <1>1, <1>2, <1>3, <1>4, <1>5 DEF Remain

\* A try that comes to nothing: the next candidate is the next of the answer.
TryFails(outcome) ==
    /\ at \in {"try", "prepare"} /\ candidates # <<>>
    /\ candidates' = Tail(candidates) /\ outcomes' = Append(outcomes, outcome)
    /\ at' = "try"
    /\ UNCHANGED <<function, now, attempts, candidate_count, result, answer>>

LEMMA TriedInVain ==
    ASSUME AnchorInv, NEW outcome \in {"no method", "no item"}, TryFails(outcome)
    PROVE  AnchorInv'
<1> DEFINE chosen == select_anchor_candidates(answer)
           Outcome == {"no method", "no item", "anchor"}
           Files == Scope \cup {TheFile}
<1>1. /\ candidates \in Seq(Files) /\ outcomes \in Seq(Outcome) /\ candidates # <<>>
      /\ outcome \in Outcome
      /\ candidates' = Tail(candidates) /\ outcomes' = Append(outcomes, outcome)
      /\ answer' = answer /\ function' = function /\ at' = "try" /\ result' = result
      /\ at \in {"try", "prepare"}
  BY DEF AnchorInv, TypeOK, TryFails
<1>2. /\ candidates' \in Seq(Files)
      /\ outcomes' \in Seq(Outcome)
      /\ \A n \in DOMAIN outcomes' : \/ n \in DOMAIN outcomes /\ outcomes'[n] = outcomes[n]
                                     \/ outcomes'[n] = outcome
  <2> HIDE DEF Files, Outcome
  <2> QED
    BY <1>1, TailFacts, AppendFacts
<1>3. TypeOK'
  BY <1>2 DEF AnchorInv, TypeOK, TryFails
<1>4. \A n \in DOMAIN outcomes' : outcomes'[n] \in {"no method", "no item"}
  BY <1>1, <1>2 DEF AnchorInv, Trying
<1>5. ASSUME function = "class" PROVE Remain(chosen, outcomes', candidates')
  <2>1. Remain(chosen, outcomes, candidates)
    BY <1>1, <1>5 DEF AnchorInv, Trying
  <2> HIDE DEF chosen, Outcome, Files
  <2> QED
    BY <1>1, <2>1, NextIsNext
<1>6. function = "file" => candidates' = <<>>
  <2> HAVE function = "file"
  <2>1. candidates = <<TheFile>>
    BY <1>1 DEF AnchorInv, Trying
  <2> QED
    BY <1>1, <2>1, TailOfOne
<1> HIDE DEF chosen, Outcome
<1>7. Trying'
  BY <1>1, <1>4, <1>5, <1>6 DEF Trying, chosen
<1>8. Searching' /\ FirstThatFits'
  BY <1>1 DEF Searching, FirstThatFits
<1> QED
  BY <1>2, <1>3, <1>7, <1>8 DEF AnchorInv, Outcome

\* The anchor is found: what was tried tells which wanted symbol's file had it.
LEMMA PreparedInv == ASSUME AnchorInv, Prepared PROVE AnchorInv'
<1> DEFINE chosen == select_anchor_candidates(answer)
           Outcome == {"no method", "no item", "anchor"}
           Files == Scope \cup {TheFile}
<1>1. /\ candidates \in Seq(Files) /\ candidates # <<>>
      /\ outcomes \in Seq(Outcome) /\ answer \in Seq(Symbols) /\ "anchor" \in Outcome
  BY DEF AnchorInv, TypeOK, Prepared, Trying
<1>2. \A n \in DOMAIN outcomes : outcomes[n] \in {"no method", "no item"}
  BY DEF AnchorInv, Prepared, Trying
<1>3. function = "class" => Remain(chosen, outcomes, candidates)
  BY DEF AnchorInv, Prepared, Trying
<1>4. function = "file" => candidates = <<TheFile>> /\ outcomes = <<>>
  BY DEF AnchorInv, Prepared, Trying
<1>5. /\ outcomes' = Append(outcomes, "anchor") /\ answer' = answer /\ function' = function
      /\ at' = "resolved" /\ result'.file = Head(candidates) /\ result' # None
  BY DEF Prepared, None
<1>6. TypeOK'
  BY <1>5 DEF AnchorInv, TypeOK, Prepared
<1> HIDE DEF chosen, Outcome, Files
<1>7. PICK a \in Nat : a = Len(outcomes) /\ DOMAIN outcomes = 1 .. a
  BY <1>1
<1>8. /\ outcomes' \in Seq(Outcome) /\ Len(outcomes') = a + 1 /\ outcomes'[a + 1] = "anchor"
      /\ \A n \in 1 .. a : outcomes'[n] = outcomes[n]
  BY <1>1, <1>5, <1>7, AppendProperties
<1>9. ASSUME NEW n \in 1 .. Len(outcomes') - 1
      PROVE  outcomes'[n] \in {"no method", "no item"}
  <2>1. (a + 1) - 1 = a
    OBVIOUS
  <2>2. n \in 1 .. a
    BY <1>8, <2>1
  <2> QED
    BY <1>2, <1>7, <1>8, <2>2
<1>10. function = "file" => result'.file = TheFile /\ Len(outcomes') = 1
  <2> HAVE function = "file"
  <2>1. candidates = <<TheFile>> /\ Len(<<>>) = 0
    BY <1>4
  <2>2. Head(<<TheFile>>) = TheFile
    OBVIOUS
  <2>3. a = 0
    BY <1>4, <1>7, <2>1
  <2> QED
    BY <1>5, <1>8, <2>1, <2>2, <2>3
<1>11. ASSUME function = "class"
       PROVE  \E k \in DOMAIN answer :
                 /\ Wanted(k) /\ result'.file = answer[k].file
                 /\ Cardinality({j \in 1 .. k : Wanted(j)}) = a + 1
  <2>1. PICK b \in Nat \ {0} : b = Len(candidates) /\ DOMAIN candidates = 1 .. b
    BY <1>1, EmptySeq, LenProperties
  <2>2. Len(chosen) = a + b /\ candidates[1] = chosen[a + 1]
    BY <1>3, <1>7, <1>11, <2>1 DEF Remain
  <2>3. chosen \in Seq(Scope)
    BY <1>1, CandidatesWell DEF KeptWell, chosen
  <2>4. a + 1 \in DOMAIN chosen
    <3>1. DOMAIN chosen = 1 .. a + b
      BY <2>2, <2>3, LenProperties
    <3> QED
      BY <1>7, <2>1, <3>1
  <2>5. result'.file = chosen[a + 1]
    <3>1. Head(candidates) = candidates[1]
      BY <1>1
    <3> QED
      BY <1>5, <2>2, <3>1
  <2> QED
    BY <1>1, <2>4, <2>5, CandidateIsWanted DEF chosen
<1>12. FirstThatFits'
  <2>1. outcomes'[Len(outcomes')] = "anchor"
    BY <1>8
  <2>2. \A k : Wanted(k) <=> Wanted(k)'
    BY <1>5 DEF Wanted
  <2>3. function' = "class" =>
          \E k \in DOMAIN answer' :
             /\ Wanted(k)' /\ result'.file = answer'[k].file
             /\ Cardinality({j \in 1 .. k : Wanted(j)'}) = Len(outcomes')
    BY <1>5, <1>8, <1>11, <2>2
  <2>4. function' = "file" => result'.file = TheFile /\ Len(outcomes') = 1
    BY <1>5, <1>10
  <2> QED
    BY <1>9, <2>1, <2>3, <2>4 DEF FirstThatFits
<1> QED
  BY <1>5, <1>6, <1>8, <1>12 DEF AnchorInv, Trying, Searching, Outcome

\* The answer's candidates are all still to be tried.
LEMMA SearchInv == ASSUME AnchorInv, Search PROVE AnchorInv'
<1>1. PICK symbols \in Answers : /\ answer' = symbols
                                 /\ candidates' = select_anchor_candidates(symbols)
  BY DEF Search
<1>2. /\ symbols \in Seq(Symbols) /\ candidates' \in Seq(Scope)
      /\ Len(candidates') \in 0 .. MaxSymbols
  BY <1>1, CandidatesTyped
<1>3. candidate_count' \in 0 .. MaxSymbols
  BY <1>2 DEF AnchorInv, TypeOK, Search
<1>4. candidates' \in Seq(Scope \cup {TheFile})
  BY <1>2
<1>5. TypeOK'
  BY <1>1, <1>2, <1>3, <1>4 DEF AnchorInv, TypeOK, Search
<1>6. at' = "try" /\ outcomes' = <<>> /\ function' = "class"
  BY DEF AnchorInv, Searching, Search
<1>7. Remain(select_anchor_candidates(answer'), outcomes', candidates')
  <2> DEFINE chosen == select_anchor_candidates(symbols)
  <2>1. chosen \in Seq(Scope) /\ answer' = symbols /\ candidates' = chosen
    BY <1>1, <1>2
  <2> HIDE DEF chosen
  <2>2. Remain(chosen, <<>>, chosen)
    BY <2>1 DEF Remain
  <2> QED
    BY <1>1, <1>6, <2>1, <2>2
<1>8. /\ outcomes' \in Seq({"no method", "no item", "anchor"})
      /\ \A n \in DOMAIN outcomes' : outcomes'[n] \in {"no method", "no item"}
  BY <1>6
<1>9. Trying'
  BY <1>6, <1>7, <1>8 DEF Trying
<1> QED
  BY <1>5, <1>6, <1>8, <1>9 DEF AnchorInv, Searching, FirstThatFits

LEMMA AttemptInv == ASSUME AnchorInv, Attempt PROVE AnchorInv'
<1>1. outcomes' = <<>> /\ answer' = <<>> /\ function' = function
  BY DEF Attempt
<1>2. /\ function = "class" => at' = "search" /\ candidates' = <<>>
      /\ function = "file" => at' = "try" /\ candidates' = <<TheFile>>
      /\ function \in {"class", "file"} /\ at' # "resolved"
  BY DEF Attempt, AnchorInv, TypeOK
<1>3. candidates' \in Seq(Scope \cup {TheFile})
  <2> DEFINE Files == Scope \cup {TheFile}
  <2>1. TheFile \in Files
    OBVIOUS
  <2> HIDE DEF Files
  <2>2. <<>> \in Seq(Files) /\ <<TheFile>> \in Seq(Files)
    BY <2>1
  <2>3. candidates' \in Seq(Files)
    <3>1. CASE function = "class"
      BY <1>2, <2>2, <3>1
    <3>2. CASE function = "file"
      BY <1>2, <2>2, <3>2
    <3> QED
      BY <1>2, <3>1, <3>2
  <2> QED
    BY <2>3 DEF Files
<1>4. TypeOK'
  <2>1. attempts \in 0 .. MaxAttempts /\ attempts < MaxAttempts /\ attempts' = attempts + 1
    BY DEF Attempt, AnchorInv, TypeOK
  <2>2. attempts' \in 0 .. MaxAttempts
    BY <2>1, TimesAssumption
  <2>3. /\ function' \in {"class", "file"} /\ at' \in {"search", "try"}
        /\ now' = now /\ candidate_count' = candidate_count /\ result' = result
        /\ answer' \in Seq(Symbols)
    BY <1>1, <1>2
    DEF Attempt
  <2>4. /\ now \in 0 .. ready_timeout /\ candidate_count \in 0 .. MaxSymbols
        /\ result = None
    BY DEF Attempt, AnchorInv, TypeOK
  <2> QED
    BY <1>3, <2>2, <2>3, <2>4 DEF TypeOK
<1>5. Trying'
  <2>1. /\ at' = "try" => candidates' = <<TheFile>>
        /\ at' # "prepare" /\ at' = "try" => function' = "file"
    BY <1>1, <1>2
  <2> QED
    BY <1>1, <1>2, <2>1 DEF Trying
<1>6. Searching'
  BY <1>1, <1>2 DEF Searching
<1>7. outcomes' \in Seq({"no method", "no item", "anchor"})
  BY <1>1
<1> QED
  BY <1>2, <1>4, <1>5, <1>6, <1>7 DEF AnchorInv, FirstThatFits

\* A step that tries nothing and leaves the search and the tries.
LEMMA QuietInv ==
    ASSUME AnchorInv, Tick \/ GiveUp \/ AttemptThrows \/ NoneLeft \/ Sleep \/ UNCHANGED vars
    PROVE  AnchorInv'
<1>1. TypeOK'
  <2>1. CASE Tick
    <3>1. now \in 0 .. ready_timeout /\ now < ready_timeout /\ now' = now + 1
      BY <2>1 DEF Tick, AnchorInv, TypeOK
    <3>2. now' \in 0 .. ready_timeout
      BY <3>1, TimesAssumption
    <3> QED
      BY <2>1, <3>2 DEF Tick, AnchorInv, TypeOK
  <2>2. CASE Sleep
    <3>1. /\ now \in 0 .. ready_timeout
          /\ now' = IF now + retry_interval < ready_timeout THEN now + retry_interval
                    ELSE ready_timeout
      BY <2>2 DEF Sleep, AnchorInv, TypeOK
    <3>2. now' \in 0 .. ready_timeout
      BY <3>1, TimesAssumption
    <3> QED
      BY <2>2, <3>2 DEF Sleep, AnchorInv, TypeOK
  <2>3. CASE GiveUp \/ AttemptThrows \/ NoneLeft \/ UNCHANGED vars
    BY <2>3 DEF GiveUp, AttemptThrows, NoneLeft, vars, AnchorInv, TypeOK
  <2> QED
    BY <2>1, <2>2, <2>3
<1>2. /\ outcomes' = outcomes /\ candidates' = candidates /\ answer' = answer
      /\ function' = function /\ result' = result
      /\ at' \notin {"loop", "sleep", "failed"} => at' = at
  BY DEF Tick, GiveUp, AttemptThrows, NoneLeft, Sleep, vars
<1>3. Trying'
  BY <1>2 DEF AnchorInv, Trying
<1>4. Searching'
  BY <1>2 DEF AnchorInv, Searching
<1>5. FirstThatFits'
  BY <1>2 DEF AnchorInv, FirstThatFits, Wanted
<1> QED
  BY <1>1, <1>2, <1>3, <1>4, <1>5 DEF AnchorInv

LEMMA AnchorStep == AnchorInv /\ [Next]_vars => AnchorInv'
<1> SUFFICES ASSUME AnchorInv, [Next]_vars PROVE AnchorInv'
  OBVIOUS
<1>1. CASE Attempt
  BY <1>1, AttemptInv
<1>2. CASE Search
  BY <1>2, SearchInv
<1>3. CASE DocumentSymbols
  <2>1. CASE TryFails("no method")
    BY <2>1, TriedInVain
  <2>2. CASE at' = "prepare"
    <3>1. /\ outcomes' = outcomes /\ candidates' = candidates /\ answer' = answer
          /\ function' = function /\ result' = result /\ at = "try" /\ candidates # <<>>
      BY <1>3, <2>2 DEF DocumentSymbols
    <3>2. TypeOK'
      BY <1>3, <2>2, <3>1 DEF DocumentSymbols, AnchorInv, TypeOK
    <3> QED
      BY <2>2, <3>1, <3>2 DEF AnchorInv, Searching, Trying, FirstThatFits
  <2> QED
    BY <1>3, <2>1, <2>2 DEF DocumentSymbols, TryFails
<1>4. CASE Prepared
  BY <1>4, PreparedInv
<1>5. CASE NoItem
  <2>1. TryFails("no item")
    BY <1>5 DEF NoItem, TryFails, AnchorInv, Trying
  <2> QED
    BY <2>1, TriedInVain
<1>6. CASE Tick \/ GiveUp \/ AttemptThrows \/ NoneLeft \/ Sleep \/ Over \/ UNCHANGED vars
  BY <1>6, QuietInv DEF Over
<1> QED
  BY <1>1, <1>2, <1>3, <1>4, <1>5, <1>6 DEF Next, Step

-----------------------------------------------------------------------------
(* The theorems.                                                            *)

\* Tries and candidates left account for the answer at every point of
\* resolve_anchor and resolve_method_anchor_in_file.
THEOREM AnchorInvariant == Spec => []AnchorInv
<1> QED
  BY AnchorInit, AnchorStep, PTL DEF Spec

\* Every variable of the search for an anchor has its type.
THEOREM AnchorTyped == Spec => []TypeOK
<1>1. AnchorInv => TypeOK
  BY DEF AnchorInv
<1> QED
  BY <1>1, AnchorInvariant, PTL

\* The anchor is that of the first wanted symbol of the answer whose file had one:
\* select_anchor_candidates leaves no wanted symbol out and resolve_anchor skips none.
THEOREM FirstAnchor == Spec => []FirstThatFits
<1>1. AnchorInv => FirstThatFits
  BY DEF AnchorInv
<1> QED
  BY <1>1, AnchorInvariant, PTL

-----------------------------------------------------------------------------
(* An attempt ends by itself: only the deadline and the number of attempts   *)
(* are left to the clock.                                                   *)

\* What an attempt still has to do: a search, two requests for each candidate, and
\* the pause.
WorkLeft ==
    CASE at = "search"  -> 2 * MaxSymbols + 4
      [] at = "try"     -> 2 * Len(candidates) + 3
      [] at = "prepare" -> 2 * Len(candidates) + 2
      [] at = "sleep"   -> 2
      [] at = "loop"    -> 1
      [] OTHER          -> 0

MostWork == 2 * MaxSymbols + 5

LEMMA LeftFacts ==
    ASSUME AnchorInv
    PROVE  /\ candidates \in Seq(Scope \cup {TheFile}) /\ Len(candidates) \in Nat
           /\ at = "prepare" => candidates # <<>>
<1>1. TypeOK /\ (at = "prepare" => candidates # <<>>)
  BY Zenon DEF AnchorInv, Trying
<1>2. candidates \in Seq(Scope \cup {TheFile})
  BY <1>1 DEF TypeOK
<1> HIDE DEF AnchorInv
<1> QED
  BY <1>1, <1>2

LEMMA LeftNext == ASSUME AnchorInv' PROVE Len(candidates') \in Nat
<1>1. TypeOK'
  BY Zenon DEF AnchorInv
<1>2. candidates' \in Seq(Scope \cup {TheFile})
  BY <1>1 DEF TypeOK
<1> QED
  BY <1>2

LEMMA WorkIsFinite == AnchorInv => WorkLeft \in Nat
<1> SUFFICES ASSUME AnchorInv PROVE WorkLeft \in Nat
  OBVIOUS
<1>1. Len(candidates) \in Nat /\ MaxSymbols \in Nat
  BY LeftFacts, TimesAssumption
<1>2. 2 * MaxSymbols + 4 \in Nat /\ 2 * Len(candidates) + 3 \in Nat /\ 2 * Len(candidates) + 2 \in Nat
  BY <1>1
<1> QED
  BY <1>2 DEF WorkLeft

LEMMA WorkFalls ==
    ASSUME AnchorInv, AnchorInv',
           GiveUp \/ Search \/ AttemptThrows \/ DocumentSymbols \/ Prepared \/ NoItem
             \/ NoneLeft \/ Sleep
    PROVE  WorkLeft' < WorkLeft
<1>1. PICK n \in Nat, m \in Nat, M \in Nat :
         n = Len(candidates) /\ m = Len(candidates') /\ M = MaxSymbols
  <2>1. Len(candidates) \in Nat /\ Len(candidates') \in Nat /\ MaxSymbols \in Nat
    BY LeftFacts, LeftNext, TimesAssumption
  <2> QED
    BY <2>1
<1>2. /\ at = "search" => WorkLeft = 2 * M + 4
      /\ at = "try" => WorkLeft = 2 * n + 3
      /\ at = "prepare" => WorkLeft = 2 * n + 2
      /\ at = "sleep" => WorkLeft = 2
      /\ at = "loop" => WorkLeft = 1
  BY <1>1 DEF WorkLeft
<1>3. /\ at' = "try" => WorkLeft' = 2 * m + 3
      /\ at' = "prepare" => WorkLeft' = 2 * m + 2
      /\ at' = "sleep" => WorkLeft' = 2
      /\ at' = "loop" => WorkLeft' = 1
      /\ at' \in {"resolved", "failed"} => WorkLeft' = 0
  BY <1>1 DEF WorkLeft
<1>4. candidates \in Seq(Scope \cup {TheFile})
  BY LeftFacts
<1>5. candidates # <<>> => n >= 1
  BY <1>1, <1>4
<1>6. candidates # <<>> /\ candidates' = Tail(candidates) => m = n - 1 /\ n >= 1
  BY <1>1, <1>4
<1>7. at = "prepare" => candidates # <<>>
  BY LeftFacts
<1> HIDE DEF WorkLeft
<1>8. CASE GiveUp
  BY <1>2, <1>3, <1>8 DEF GiveUp
<1>9. CASE Search
  <2>1. m <= M
    <3>1. PICK symbols \in Answers : Parses(symbols) /\ candidates' = select_anchor_candidates(symbols)
      BY <1>9 DEF Search
    <3>2. Len(candidates') \in 0 .. MaxSymbols
      BY <3>1, CandidatesTyped
    <3> QED
      BY <1>1, <3>2
  <2>2. at = "search" /\ at' = "try"
    BY <1>9 DEF Search
  <2> QED
    BY <1>2, <1>3, <2>1, <2>2
<1>10. CASE AttemptThrows
  <2>1. at \in {"search", "try", "prepare"} /\ at' = "sleep" /\ (at = "try" => n >= 1)
    BY <1>5, <1>10 DEF AttemptThrows
  <2>2. at = "prepare" => n >= 1
    BY <1>5, <1>7
  <2> QED
    BY <1>2, <1>3, <2>1, <2>2
<1>11. CASE DocumentSymbols
  <2>0. /\ at = "try" /\ candidates # <<>>
        /\ \/ at' = "prepare" /\ candidates' = candidates
           \/ at' = at /\ candidates' = Tail(candidates)
    BY <1>11, Zenon DEF DocumentSymbols
  <2>1. CASE at' = "prepare" /\ candidates' = candidates
    <3>1. m = n /\ at = "try"
      BY <1>1, <2>0, <2>1
    <3> QED
      BY <1>2, <1>3, <2>1, <3>1
  <2>2. CASE at' = at /\ candidates' = Tail(candidates)
    <3>1. m = n - 1 /\ n >= 1 /\ at = "try"
      BY <1>6, <2>0, <2>2
    <3> QED
      BY <1>2, <1>3, <2>2, <3>1
  <2> QED
    BY <2>0, <2>1, <2>2
<1>12. CASE Prepared
  <2>1. at = "prepare" /\ at' = "resolved"
    BY <1>12 DEF Prepared
  <2> QED
    BY <1>2, <1>3, <2>1
<1>13. CASE NoItem
  <2>0. at = "prepare" /\ at' = "try" /\ candidates' = Tail(candidates)
    BY <1>13, Zenon DEF NoItem
  <2>1. at = "prepare" /\ at' = "try" /\ m = n - 1 /\ n >= 1
    BY <1>6, <1>7, <2>0
  <2> QED
    BY <1>2, <1>3, <2>1
<1>14. CASE NoneLeft
  <2>1. at = "try" /\ at' = "sleep"
    BY <1>14 DEF NoneLeft
  <2> QED
    BY <1>2, <1>3, <2>1
<1>15. CASE Sleep
  <2>1. at = "sleep" /\ at' = "loop"
    BY <1>15 DEF Sleep
  <2> QED
    BY <1>2, <1>3, <2>1
<1> QED
  BY <1>8, <1>9, <1>10, <1>11, <1>12, <1>13, <1>14, <1>15

LEMMA AttemptWork == ASSUME AnchorInv, Attempt PROVE WorkLeft' <= MostWork
<1>1. PICK M \in Nat : M = MaxSymbols
  BY TimesAssumption
<1>2. CASE at' = "search"
  <2>1. WorkLeft' = 2 * M + 4
    BY <1>1, <1>2 DEF WorkLeft
  <2> QED
    BY <1>1, <2>1 DEF MostWork
<1>3. CASE at' = "try" /\ candidates' = <<TheFile>>
  <2>1. Len(candidates') = 1
    BY <1>3
  <2>2. WorkLeft' = 2 * 1 + 3
    BY <1>3, <2>1 DEF WorkLeft
  <2> QED
    BY <1>1, <2>2 DEF MostWork
<1> QED
  BY <1>2, <1>3 DEF Attempt

\* Whatever the server answers or refuses, an attempt of resolve_anchor or of
\* resolve_method_anchor_in_file ends by itself: each step of the thread leaves it
\* less to do, but for the step that begins an attempt, and that one leaves at
\* most MostWork; the clock adds nothing.
THEOREM AttemptsEnd ==
    Spec => /\ [](WorkLeft \in Nat)
            /\ [][WorkLeft' < WorkLeft \/ Attempt \/ Tick]_vars
            /\ [][Attempt => WorkLeft' <= MostWork]_vars
            /\ [][Tick => WorkLeft' = WorkLeft]_vars
<1>1. AnchorInv => WorkLeft \in Nat
  BY WorkIsFinite
<1>2. AnchorInv /\ AnchorInv' /\ [Next]_vars => [WorkLeft' < WorkLeft \/ Attempt \/ Tick]_vars
  <2> SUFFICES ASSUME AnchorInv, AnchorInv', Next
               PROVE  [WorkLeft' < WorkLeft \/ Attempt \/ Tick]_vars
    BY Zenon
  <2>1. CASE Over
    BY <2>1 DEF Over
  <2>2. CASE Tick \/ Attempt
    BY <2>2
  <2>3. CASE GiveUp \/ Search \/ AttemptThrows \/ DocumentSymbols \/ Prepared \/ NoItem
             \/ NoneLeft \/ Sleep
    BY <2>3, WorkFalls
  <2> QED
    BY <2>1, <2>2, <2>3 DEF Next, Step
<1>3. AnchorInv /\ [Next]_vars => [Attempt => WorkLeft' <= MostWork]_vars
  BY AttemptWork, Zenon
<1>4. [Next]_vars => [Tick => WorkLeft' = WorkLeft]_vars
  <2>1. Tick => WorkLeft' = WorkLeft
    BY DEF Tick, WorkLeft
  <2> QED
    BY <2>1, Zenon
<1> QED
  BY <1>1, <1>2, <1>3, <1>4, AnchorInvariant, PTL DEF Spec
===============================================================================
