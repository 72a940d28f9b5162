-------------------------------- MODULE Expansion --------------------------------
(***************************************************************************)
(* A caller's whole question over one Session: the steps that LiveSession's  *)
(* expand_calls and resolve_anchor (src/service.cpp), run_expand            *)
(* (src/workspace_manager.cpp) and the two demos (tools/) put together from *)
(* semantic.cpp, while other programs edit the files.                       *)
(*                                                                          *)
(* Three copies of a file meet here: the text on disk, from which snippets   *)
(* are cut; the text the server answers from; and what the index says of    *)
(* it.  The session sends a file when it is first queried and never again;  *)
(* of the others the server learns what is on disk sooner or later.         *)
(* AnchorResolve and CallTree have the loops in detail; here an attempt may  *)
(* fail and be repeated any number of times, and trees have one level.      *)
(***************************************************************************)
EXTENDS Integers, Sequences, FiniteSets

CONSTANTS
    Files,
    Texts,        \* texts of a file: a sequence of lines, each a method of a class
    Missing,      \* no such file
    class_name,   \* the class and the method the callers ask for
    method_name,
    padding,      \* lines shown before and after a method
    Modulus,      \* 2^w for the width w of size_t
    Questions,    \* the steps of a question, for each kind of program
    MaxCalls,     \* bound: questions put to one session
    MaxEdits      \* bound: edits by other programs

ASSUME MissingAssumption == Missing \notin Texts
ASSUME BoundsAssumption == padding \in Nat /\ MaxCalls \in Nat /\ MaxEdits \in Nat
ASSUME TextsAssumption ==
    /\ Texts \subseteq Seq([class : STRING, method : STRING])
    /\ Modulus \in Nat /\ \A text \in Texts : Len(text) + padding + 1 < Modulus

InFile == {"symbols", "outgoing", "incoming", "graph"}

\* A class is resolved, if at all, before anything is done in its file.
ASSUME QuestionsAssumption ==
    \A p \in {"live", "demo"} : \A q \in Questions[p] :
        /\ q \in Seq({"search", "resolve"} \cup InFile) /\ q # <<>>
        /\ \A j, k \in DOMAIN q : j < k /\ q[k] \in {"search", "resolve"} => q[j] = "search"
        /\ q[1] \in {"search", "resolve"} =>
             \A k \in DOMAIN q : q[k] \in InFile => \E j \in 1 .. k - 1 : q[j] = "resolve"

VARIABLES
    disk,         \* the texts on disk
    known,        \* the texts the server answers from
    opened,       \* the files of docs_by_uri
    program,      \* "live": a server kept for many questions; "demo": for one
    todo,         \* the steps of the question still to come
    given,        \* the file the question names, if it does
    step, at,     \* the step under way, and the point it has reached
    candidates,   \* files still to be tried in this attempt
    item,         \* the call hierarchy item an attempt has found
    edges,        \* what the server said of the item's calls
    tree,         \* the tree being built
    resolved,     \* the anchor of the step "resolve"
    trees,        \* the trees built
    outcome,      \* how the last question ended
    calls, edits, \* how many there have been
    trusted,      \* history: files whose known text was on disk when the question began,
                  \* or when it opened them, and that were not edited since
    quiet         \* history: all files were trusted when the question began

session == <<known, opened>>
search == <<candidates, item, edges, tree>>
question == <<program, todo, given, step>>
results == <<resolved, trees, outcome>>
world == <<disk, calls, edits, trusted, quiet>>
vars == <<session, search, question, results, world, at>>

None == [file |-> "none"]

Methods(text) == {text[l].method : l \in DOMAIN text}
Classes(text) == {text[l].class : l \in DOMAIN text}
TextOf(f) == IF disk[f] = Missing THEN <<>> ELSE disk[f]

\* The lines of the window around one line, as extract_source_window cuts it.
Window(lines, line) ==
    INSTANCE SourceWindow WITH
        MaxLines <- lines, RangeLines <- {line - 1}, Paddings <- {padding},
        readable <- TRUE, from <- line - 1, to <- line - 1, before <- padding, after <- padding,
        window <- <<>>

Init ==
    /\ disk \in [Files -> Texts] /\ known = disk /\ opened = {}
    /\ program \in {"live", "demo"} /\ todo = <<>> /\ given = None /\ step = "none" /\ at = "idle"
    /\ candidates = <<>> /\ item = None /\ edges = <<>> /\ tree = None
    /\ resolved = None /\ trees = <<>> /\ outcome = "none"
    /\ calls = 0 /\ edits = 0 /\ trusted = Files /\ quiet = TRUE

-----------------------------------------------------------------------------
(* The question.                                                            *)

\* A question that does not resolve the class itself names the file.
Invoke ==
    /\ at = "idle" /\ calls < (IF program = "demo" THEN 1 ELSE MaxCalls)
    /\ \E q \in Questions[program] :
         /\ todo' = q
         /\ \/ q[1] \in {"search", "resolve"} /\ given' = None
            \/ q[1] \notin {"search", "resolve"} /\ \E f \in Files : given' = [file |-> f]
    /\ step' = "none" /\ at' = "next" /\ calls' = calls + 1
    /\ resolved' = None /\ trees' = <<>> /\ outcome' = "none"
    /\ trusted' = {f \in Files : known[f] = TextOf(f)} /\ quiet' = (trusted' = Files)
    /\ UNCHANGED <<session, search, program, disk, edits>>

\* The in-file steps are given the file of the anchor, or the one that was named.
effective_file == IF resolved # None THEN resolved.file ELSE given.file

\* Where a step, or an attempt of it, starts.
Start(s) == IF s \in {"search", "resolve"} THEN "search" ELSE "open"
Untried(s) == IF s \in {"search", "resolve"} THEN <<>> ELSE <<effective_file>>

NextStep ==
    /\ at = "next" /\ todo # <<>>
    /\ step' = Head(todo) /\ todo' = Tail(todo)
    /\ at' = Start(step') /\ candidates' = Untried(step')
    /\ item' = None /\ edges' = <<>> /\ tree' = None
    /\ UNCHANGED <<session, program, given, results, world>>

Return ==
    /\ at = "next" /\ todo = <<>>
    /\ at' = "idle" /\ outcome' = "returned"
    /\ UNCHANGED <<session, search, question, resolved, trees, world>>

\* An exception: the loops of resolve_anchor and resolve_method_anchor_in_file
\* begin another attempt, everything else ends the question.
Retried == step \in {"resolve", "outgoing", "incoming", "graph"}
           /\ at \in {"search", "open", "symbols", "prepare"}

NextAttempt == at' = Start(step) /\ candidates' = Untried(step) /\ item' = None

Throw ==
    /\ \/ Retried /\ NextAttempt /\ UNCHANGED outcome
       \/ ~Retried /\ at' = "idle" /\ outcome' = "threw" /\ UNCHANGED <<candidates, item>>
    /\ UNCHANGED <<session, edges, tree, question, resolved, trees, world>>

\* A request fails, or its answer cannot be parsed.  The probe for the incoming
\* calls of the root swallows that and asks again.
RequestThrows ==
    /\ at \in {"search", "symbols", "prepare", "ask"}
    /\ ~(at = "ask" /\ step = "incoming")
    /\ Throw

\* The deadline has passed when an attempt ends.
GiveUp ==
    /\ step \in {"resolve", "outgoing", "incoming", "graph"} /\ at = Start(step)
    /\ candidates = Untried(step)
    /\ at' = "idle" /\ outcome' = "threw"
    /\ UNCHANGED <<session, search, question, resolved, trees, world>>

-----------------------------------------------------------------------------
(* Finding the method.                                                      *)

\* What the server may say of the name: classes of that name and others like it.
Symbols == UNION {{[class |-> c, file |-> f] : c \in Classes(known[f])} : f \in Files}

\* Defect: whatever the index offers is a candidate.
FitsAnything(symbol) == symbol.file \in Files

Fits(symbol) == symbol.class = class_name

\* The candidates of an answer with up to two symbols that fit.
Candidates ==
    LET offered == {symbol.file : symbol \in {s \in Symbols : Fits(s)}}
    IN  {<<>>} \cup {<<f>> : f \in offered}
        \cup {pair \in offered \X offered : pair[1] # pair[2]}

\* workspace_symbols; dep_expand_demo2 prints a first answer before it resolves.
Search ==
    /\ at = "search"
    /\ \/ step = "search" /\ at' = "next" /\ UNCHANGED candidates
       \/ step = "resolve" /\ at' = "open" /\ candidates' \in Candidates
    /\ UNCHANGED <<session, item, edges, tree, question, results, world>>

AllTried ==
    /\ at = "open" /\ candidates = <<>>
    /\ NextAttempt
    /\ UNCHANGED <<session, edges, tree, question, results, world>>

\* Defect: an open document is read and sent anew.
OpenAnew ==
    /\ at = "open" /\ candidates # <<>>
    /\ LET f == Head(candidates)
       IN  IF disk[f] = Missing THEN Throw
           ELSE /\ known' = [known EXCEPT ![f] = disk[f]] /\ opened' = opened \cup {f}
                /\ trusted' = trusted \cup {f} /\ at' = "symbols"
                /\ UNCHANGED <<search, question, results, disk, calls, edits, quiet>>

\* Defect: the document is taken as open, but its text is not sent.
OpenUnsent ==
    /\ at = "open" /\ candidates # <<>>
    /\ opened' = opened \cup {Head(candidates)} /\ trusted' = trusted \cup {Head(candidates)}
    /\ at' = "symbols"
    /\ UNCHANGED <<known, search, question, results, disk, calls, edits, quiet>>

\* ensure_query_document_available: a file that is not open is read and sent, and
\* from then on the server answers from that text.
EnsureOpen ==
    /\ at = "open" /\ candidates # <<>>
    /\ LET f == Head(candidates)
       IN  \/ /\ f \in opened /\ at' = "symbols"
              /\ UNCHANGED <<session, search, question, results, world>>
           \/ f \notin opened /\ disk[f] = Missing /\ Throw
           \/ /\ f \notin opened /\ disk[f] # Missing
              /\ known' = [known EXCEPT ![f] = disk[f]] /\ opened' = opened \cup {f}
              /\ trusted' = trusted \cup {f} /\ at' = "symbols"
              /\ UNCHANGED <<search, question, results, disk, calls, edits, quiet>>

\* The item at a line of the text the server has.
ItemAt(f, line) == [file |-> f, line |-> line, name |-> known[f][line].method]

\* find_method_symbol: the first method of the name, in whatever class it is.
FirstMethod(f) ==
    CHOOSE l \in DOMAIN known[f] :
        /\ known[f][l].method = method_name
        /\ \A k \in 1 .. l - 1 : known[f][k].method # method_name

\* document_symbols; a server that is warming up may know of none.
DocumentSymbols ==
    /\ at = "symbols"
    /\ LET f == Head(candidates)
       IN  \/ step = "symbols" /\ at' = "next" /\ UNCHANGED <<candidates, item>>
           \/ /\ step # "symbols" /\ method_name \in Methods(known[f])
              /\ item' = ItemAt(f, FirstMethod(f)) /\ at' = "prepare"
              /\ UNCHANGED candidates
           \/ /\ step # "symbols"
              /\ candidates' = Tail(candidates) /\ at' = "open" /\ UNCHANGED item
    /\ UNCHANGED <<session, edges, tree, question, results, world>>

\* prepare_call_hierarchy at the method's position.
Prepare ==
    /\ at = "prepare"
    /\ \/ /\ step = "resolve" /\ resolved' = item /\ at' = "next" /\ UNCHANGED candidates
       \/ /\ step # "resolve" /\ at' = (IF step = "outgoing" THEN "cut" ELSE "ask")
          /\ UNCHANGED <<resolved, candidates>>
       \/ /\ candidates' = Tail(candidates) /\ at' = "open" /\ UNCHANGED resolved
    /\ UNCHANGED <<session, item, edges, tree, question, trees, outcome, world>>

-----------------------------------------------------------------------------
(* The tree: "outgoing" cuts the root's snippet before it asks for the       *)
(* calls, "incoming" probes first, "graph", the first demo's, cuts all       *)
(* snippets when the tree is complete.                                      *)

Snippet(f, line) ==
    LET lines == Len(disk[f])
        start == Window(lines, line)!StartLine
        end == Window(lines, line)!EndLine
    IN  IF lines = 0 THEN [start |-> 0, text |-> <<>>]
        ELSE [start |-> start, text |-> SubSeq(disk[f], start, end)]

Node(it) == [item |-> it, snippet |-> Snippet(it.file, it.line)]

Cut ==
    /\ at = "cut"
    /\ \/ disk[item.file] = Missing /\ Throw
       \/ /\ disk[item.file] # Missing
          /\ tree' = [root |-> Node(item), children |-> <<>>]
          /\ at' = (IF step = "outgoing" THEN "ask" ELSE "children")
          /\ UNCHANGED <<session, candidates, item, edges, question, results, world>>

Ask ==
    /\ at = "ask"
    /\ \/ edges' = <<>>    \* also when the probe runs out of time
       \/ \E f \in Files : \E line \in DOMAIN known[f] : edges' = <<ItemAt(f, line)>>
    /\ at' = (IF step = "outgoing" THEN "children" ELSE "cut")
    /\ UNCHANGED <<session, candidates, item, tree, question, results, world>>

Children ==
    /\ at = "children"
    /\ \/ edges # <<>> /\ disk[edges[1].file] = Missing /\ Throw
       \/ /\ \A k \in DOMAIN edges : disk[edges[k].file] # Missing
          /\ tree' = [tree EXCEPT !.children = [k \in DOMAIN edges |-> Node(edges[k])]]
          /\ trees' = Append(trees, tree') /\ at' = "next"
          /\ UNCHANGED <<session, candidates, item, edges, question, resolved, outcome, world>>

-----------------------------------------------------------------------------
(* Beside the caller.                                                       *)

Edit ==
    /\ edits < MaxEdits
    /\ \E f \in Files : \E text \in (Texts \cup {Missing}) \ {disk[f]} :
         disk' = [disk EXCEPT ![f] = text] /\ trusted' = trusted \ {f}
    /\ edits' = edits + 1 /\ quiet' = FALSE
    /\ UNCHANGED <<session, search, question, results, calls, at>>

\* The server looks at files that are not open.
ServerNotices ==
    /\ \E f \in Files \ opened :
         known[f] # TextOf(f) /\ known' = [known EXCEPT ![f] = TextOf(f)]
    /\ UNCHANGED <<opened, search, question, results, world, at>>

Over == at = "idle" /\ calls > 0 /\ UNCHANGED vars

Caller ==
    \/ Invoke \/ NextStep \/ Return \/ RequestThrows \/ GiveUp
    \/ Search \/ AllTried \/ EnsureOpen \/ DocumentSymbols \/ Prepare
    \/ Cut \/ Ask \/ Children

Next == Caller \/ Edit \/ ServerNotices \/ Over

Spec == Init /\ [][Next]_vars

-----------------------------------------------------------------------------
(* Properties.                                                              *)

\* Every variable has its type.
TypeOK ==
    /\ disk \in [Files -> Texts \cup {Missing}] /\ known \in [Files -> Texts \cup {<<>>}]
    /\ opened \subseteq Files /\ trusted \subseteq Files /\ quiet \in BOOLEAN
    /\ at \in {"idle", "next", "search", "open", "symbols", "prepare", "cut", "ask", "children"}
    /\ \A k \in DOMAIN candidates : candidates[k] \in Files
    /\ outcome \in {"none", "returned", "threw"}
    /\ calls \in Nat /\ edits \in 0 .. MaxEdits

Roots == {trees[k].root.item : k \in DOMAIN trees}
Anchors == Roots \cup ({resolved} \ {None})

\* The method is looked for once per step, by name: all steps of a question
\* come to the same one, however the files are edited meanwhile, because the
\* file is sent to the server once and answered from that text ever after.
SameMethod == Cardinality(Anchors) <= 1

Nodes == UNION {{trees[k].root} \cup {trees[k].children[c] : c \in DOMAIN trees[k].children} :
                k \in DOMAIN trees}
Shows(node) ==
    LET k == node.item.line - node.snippet.start + 1
    IN  k \in DOMAIN node.snippet.text /\ node.snippet.text[k].method = node.item.name

\* A snippet shows the method it is labelled with if its file has not been edited
\* since the session opened it during the question, or since the question began
\* if the server's text of it was then the one on disk.  So an edit before the
\* session opens a file does no harm, nor does the edit of one file to the
\* snippets of another; an edit the server had not noticed of a file that the
\* session does not open is excepted.
SnippetsShow == \A node \in Nodes : node.item.file \in trusted => Shows(node)

\* With nobody editing, the anchor lies in a file that declares the class, and
\* no method of the name comes before it there: if the class alone declares the
\* method in its file, the anchor is a method of the class.
AnchorInClass ==
    quiet /\ resolved # None =>
        LET text == disk[resolved.file]
        IN  /\ class_name \in Classes(text)
            /\ (\A l \in DOMAIN text :
                   text[l].method = method_name => text[l].class = class_name)
               => text[resolved.line].class = class_name
            /\ text[resolved.line].method = method_name
            /\ \A k \in 1 .. resolved.line - 1 : text[k].method # method_name
===============================================================================
