------------------------------ MODULE SymbolSearch ------------------------------
(***************************************************************************)
(* From an answer to textDocument/documentSymbol to the method asked for:    *)
(* parse_document_symbols (src/session.cpp) and find_method_symbol           *)
(* (src/semantic.cpp).  The answer is a forest of elements of three forms:   *)
(* "symbol", with all its fields; "location", the older flat form; "bare",   *)
(* without a kind.  A forest is what lies at its places; <<2, 1>> is the     *)
(* first child of the second root.  A name is what it is folded to, and      *)
(* whether it carries parameters.                                           *)
(***************************************************************************)
EXTENDS Naturals, Sequences

CONSTANTS
    Elements,     \* what may lie at a place
    MaxChildren,  \* bound: elements side by side
    MaxDepth,     \* bound: levels of an answer
    method        \* the name asked for

Names == [folded : STRING, parameters : BOOLEAN]

ASSUME SearchAssumption ==
    /\ MaxChildren \in Nat /\ MaxDepth \in Nat /\ method \in Names
    /\ Elements \subseteq [form : {"symbol", "location", "bare"}, kind : STRING, name : Names]

VARIABLES
    received,     \* the answer
    found         \* the place of the method found in it

searchVars == <<received, found>>

NotSought == <<0>>
NoMethod == <<>>

-----------------------------------------------------------------------------
logical_name(name) == [name EXCEPT !.parameters = FALSE]
iequals_ascii(a, b) == a.folded = b.folded /\ a.parameters = b.parameters

\* A child is taken as it is, whatever its form.
parse_document_symbol_object(element) ==
    [name |-> element.name, kind |-> IF element.form = "bare" THEN "Variable" ELSE element.kind]

\* Of the roots, one without a kind is dropped with all below it, and of one of the
\* flat form what is below it.  A symbol keeps its place, which stands for its range.
parse_document_symbols(answer) ==
    LET Root(place) == answer[<<place[1]>>]
        Kept(place) == Root(place).form = "symbol" \/ (Root(place).form = "location" /\ Len(place) = 1)
    IN  [place \in {p \in DOMAIN answer : Kept(p)} |-> parse_document_symbol_object(answer[place])]

IsTheMethod(symbol) == symbol.kind = "Method" /\ iequals_ascii(logical_name(symbol.name), method)

\* Defect: what lies below a symbol is searched before the symbol is looked at.
SearchDeepFirst(symbols, place, below) ==
    LET upTo[k \in 0 .. MaxChildren] ==
            IF k = 0 THEN NoMethod
            ELSE IF upTo[k - 1] # NoMethod \/ Append(place, k) \notin DOMAIN symbols
                 THEN upTo[k - 1]
            ELSE IF below[Append(place, k)] = NoMethod /\ IsTheMethod(symbols[Append(place, k)])
                 THEN Append(place, k)
            ELSE below[Append(place, k)]
    IN  upTo[MaxChildren]

\* The loop over the symbols under a place; below is what a call for the children of
\* each of them returns.
Search(symbols, place, below) ==
    LET upTo[k \in 0 .. MaxChildren] ==
            IF k = 0 THEN NoMethod
            ELSE IF upTo[k - 1] # NoMethod \/ Append(place, k) \notin DOMAIN symbols
                 THEN upTo[k - 1]
            ELSE IF IsTheMethod(symbols[Append(place, k)]) THEN Append(place, k)
            ELSE below[Append(place, k)]
    IN  upTo[MaxChildren]

PlacesAt(depth) == [1 .. depth -> 1 .. MaxChildren]

find_method_symbol(symbols) ==
    LET under[depth \in 0 .. MaxDepth] ==
            [place \in PlacesAt(depth) |->
                IF depth = MaxDepth THEN NoMethod ELSE Search(symbols, place, under[depth + 1])]
    IN  under[0][<<>>]

-----------------------------------------------------------------------------
\* Where a child is its parent is, and the children before it.
IsForest(places) ==
    \A p \in places : \A n \in DOMAIN p : \A k \in 1 .. p[n] :
        Append(SubSeq(p, 1, n - 1), k) \in places

Answers == UNION {[places -> Elements] :
    places \in {P \in SUBSET UNION {PlacesAt(n) : n \in 1 .. MaxDepth} : IsForest(P)}}

InitSearch == received \in Answers /\ found = NotSought

Find ==
    /\ found = NotSought
    /\ found' = find_method_symbol(parse_document_symbols(received))
    /\ UNCHANGED received

SearchSpec == InitSearch /\ [][Find]_searchVars

-----------------------------------------------------------------------------
(* Properties.                                                              *)

\* The order of the text: an element before those under it.
Under(p, q) == Len(p) < Len(q) /\ \A i \in DOMAIN p : p[i] = q[i]
Before(p, q) ==
    \/ Under(p, q)
    \/ \E n \in DOMAIN p \cap DOMAIN q : p[n] < q[n] /\ \A i \in 1 .. n - 1 : p[i] = q[i]

\* Elements that say they are the method and are in sight: not under a root of the
\* flat form or one that was dropped.  A name asked for with parameters is no method's.
Offers(place) ==
    /\ received[place].form # "bare" /\ received[place].kind = "Method"
    /\ received[place].name.folded = method.folded /\ ~method.parameters
    /\ Len(place) > 1 => received[<<place[1]>>].form = "symbol"

\* The method found is the first offered in the order of the text, however deep it
\* lies and whatever lies beside it, and none is found only when none is offered.
MethodFound ==
    found # NotSought =>
        IF found = NoMethod THEN \A p \in DOMAIN received : ~Offers(p)
        ELSE /\ found \in DOMAIN received /\ Offers(found)
             /\ \A p \in DOMAIN received : Offers(p) => p = found \/ Before(found, p)
===============================================================================
