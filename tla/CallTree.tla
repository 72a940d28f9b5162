------------------------------- MODULE CallTree -------------------------------
(***************************************************************************)
(* The traversal of src/semantic.cpp: expand_outgoing_node and              *)
(* expand_incoming_node walk the call hierarchy depth first from the       *)
(* anchor, asking the language server for the calls of one item at a time, *)
(* and build a tree; collect_unique_snippets then flattens it.             *)
(*                                                                         *)
(* The server knows the graph and the client does not: what it answers is  *)
(* chosen when it is asked and remembered in "fetched".  The C++ recursion  *)
(* is an explicit stack; the tree is the sequence of its nodes in preorder. *)
(***************************************************************************)
EXTENDS Integers, Sequences, FiniteSets, SequencesExt

CONSTANTS
    Items,       \* call hierarchy items, one per node_key
    Root,        \* the anchor's item
    Pathless,    \* items whose path is empty
    External,    \* items whose path is not under options.scope_root
    SnippetOf,   \* where the source of an item lies (snippet_key)
    MaxDepths,   \* values of options.max_depth, an int that nobody checks
    MaxFan,      \* bound: calls in one answer
    MaxProbes    \* bound: root probes that fit before the deadline

ASSUME ItemsAssumption ==
    /\ IsFiniteSet(Items) /\ Root \in Items
    /\ Pathless \subseteq Items /\ External \subseteq Items
    /\ DOMAIN SnippetOf = Items
ASSUME LimitsAssumption == MaxDepths \subseteq Int /\ MaxFan \in Nat /\ MaxProbes \in Nat

VARIABLES
    direction,   \* which of the two functions runs
    max_depth,   \* options.max_depth
    status,      \* what it does next
    probes,      \* attempts of wait_for_initial_incoming
    prefetched,  \* the root's incoming calls, once that has returned
    tree,        \* the nodes made so far, in preorder
    stack,       \* the calls in progress, innermost first: a node and the rest of its loop
    visited,
    fetched      \* every answer of the server, with the item it was about

vars == <<direction, max_depth, status, probes, prefetched, tree, stack, visited, fetched>>

-----------------------------------------------------------------------------
InScope(i) == i \notin Pathless /\ i \notin External

\* Answers the server may give; it may name an item twice.
Answers == UNION {[1 .. n -> Items] : n \in 0 .. MaxFan}

NoAnswer == <<>>

Top == Head(stack)

Depth(parent) == IF parent = 0 THEN 0 ELSE tree[parent].depth + 1

Init ==
    /\ direction \in {"outgoing", "incoming"} /\ max_depth \in MaxDepths
    /\ status = IF direction = "incoming" THEN "probe" ELSE "visit"
    /\ probes = 0 /\ prefetched = NoAnswer
    /\ tree = <<>>
    /\ stack = <<[node |-> 0, todo |-> <<Root>>]>>
    /\ visited = {} /\ fetched = <<>>

-----------------------------------------------------------------------------
(* wait_for_initial_incoming: ask for the root's calls until an answer comes *)
(* or the deadline has passed; no answer counts as no calls.               *)

ProbeAnswered ==
    /\ status = "probe" /\ probes < MaxProbes
    /\ \E calls \in Answers :
         /\ prefetched' = calls
         /\ fetched' = Append(fetched, [item |-> Root, calls |-> calls])
    /\ probes' = probes + 1 /\ status' = "visit"
    /\ UNCHANGED <<direction, max_depth, tree, stack, visited>>

ProbeFails ==
    /\ status = "probe" /\ probes < MaxProbes
    /\ probes' = probes + 1
    /\ UNCHANGED <<direction, max_depth, status, prefetched, tree, stack, visited, fetched>>

ProbeTimesOut ==
    /\ status = "probe"
    /\ prefetched' = NoAnswer /\ status' = "visit"
    /\ UNCHANGED <<direction, max_depth, probes, tree, stack, visited, fetched>>

-----------------------------------------------------------------------------
(* expand_outgoing_node and expand_incoming_node.                          *)

\* Defect: the visited set is not consulted.
StopWithoutVisited(i, depth) ==
    CASE depth >= max_depth -> "max-depth"
      [] i \in Pathless    -> "no-path"
      [] i \in External    -> "external-or-library"
      [] OTHER             -> "none"

\* Defect: one level too many.
StopTooDeep(i, depth) ==
    CASE i \in visited    -> "already-visited"
      [] depth > max_depth -> "max-depth"
      [] i \in Pathless   -> "no-path"
      [] i \in External   -> "external-or-library"
      [] OTHER            -> "none"

\* Defect: the depth is looked at before the visited set.
StopDepthFirst(i, depth) ==
    IF depth >= max_depth THEN "max-depth"
    ELSE CASE i \in visited  -> "already-visited"
           [] i \in Pathless -> "no-path"
           [] i \in External -> "external-or-library"
           [] OTHER          -> "none"

\* Why a node is not expanded, in the order the checks are made.
StopReason(i, depth) ==
    IF i \in visited THEN "already-visited"
    ELSE IF depth >= max_depth THEN "max-depth"
    ELSE IF i \in Pathless THEN "no-path"
    ELSE IF i \in External THEN "external-or-library"
    ELSE "none"

\* The loop over the calls of the innermost node goes on to the next call.
Advance == stack' = <<[node |-> Top.node, todo |-> Tail(Top.todo)]>> \o Tail(stack)

NextItem == status = "visit" /\ stack # <<>> /\ Top.todo # <<>>

\* Defect: the loop does not get past a call it has already followed.
EnterSpins ==
    /\ NextItem
    /\ LET i == Head(Top.todo)
           reason == StopReason(i, Depth(Top.node))
       IN  IF i \in visited
           THEN UNCHANGED <<tree, visited, status, stack>>
           ELSE /\ tree' = Append(tree, [item |-> i, parent |-> Top.node,
                                         depth |-> Depth(Top.node), stop |-> reason])
                /\ visited' = visited \cup {i}
                /\ status' = IF reason = "none" THEN "fetch" ELSE "visit"
                /\ Advance
    /\ UNCHANGED <<direction, max_depth, probes, prefetched, fetched>>

Enter ==
    /\ NextItem
    /\ LET i == Head(Top.todo)
           reason == StopReason(i, Depth(Top.node))
       IN  /\ tree' = Append(tree, [item |-> i, parent |-> Top.node,
                                    depth |-> Depth(Top.node), stop |-> reason])
           /\ visited' = visited \cup {i}
           /\ status' = IF reason = "none" THEN "fetch" ELSE "visit"
    /\ Advance
    /\ UNCHANGED <<direction, max_depth, probes, prefetched, fetched>>

\* The snippet is read before any of the checks; a file that cannot be read
\* ends the whole expansion.
SnippetThrows ==
    /\ NextItem /\ InScope(Head(Top.todo))
    /\ status' = "failed"
    /\ UNCHANGED <<direction, max_depth, probes, prefetched, tree, stack, visited, fetched>>

Current == tree[Len(tree)].item

\* Defect: only the first call of an answer is followed.
FollowFirst(calls) ==
    IF calls = <<>>
    THEN tree' = [tree EXCEPT ![Len(tree)].stop = "leaf"] /\ UNCHANGED stack
    ELSE stack' = <<[node |-> Len(tree), todo |-> <<Head(calls)>>]>> \o stack
         /\ UNCHANGED tree

Follow(calls) ==
    IF calls = <<>>
    THEN tree' = [tree EXCEPT ![Len(tree)].stop = "leaf"] /\ UNCHANGED stack
    ELSE stack' = <<[node |-> Len(tree), todo |-> calls]>> \o stack /\ UNCHANGED tree

\* Only the root of an incoming expansion has its calls already.
Fetch ==
    /\ status = "fetch" /\ (direction = "incoming" => Len(tree) > 1)
    /\ \E calls \in Answers :
         /\ fetched' = Append(fetched, [item |-> Current, calls |-> calls])
         /\ Follow(calls)
    /\ status' = "visit"
    /\ UNCHANGED <<direction, max_depth, probes, prefetched, visited>>

UsePrefetched ==
    /\ status = "fetch" /\ direction = "incoming" /\ Len(tree) = 1
    /\ Follow(prefetched)
    /\ status' = "visit"
    /\ UNCHANGED <<direction, max_depth, probes, prefetched, visited, fetched>>

\* The request fails, or its answer is one the session's parsers refuse.
FetchThrows ==
    /\ status = "fetch" /\ (direction = "incoming" => Len(tree) > 1)
    /\ status' = "failed"
    /\ UNCHANGED <<direction, max_depth, probes, prefetched, tree, stack, visited, fetched>>

Return ==
    /\ status = "visit" /\ stack # <<>> /\ Top.todo = <<>>
    /\ stack' = Tail(stack)
    /\ status' = IF Len(stack) = 1 THEN "done" ELSE "visit"
    /\ UNCHANGED <<direction, max_depth, probes, prefetched, tree, visited, fetched>>

Over == status \in {"done", "failed"} /\ UNCHANGED vars

Next ==
    \/ ProbeAnswered \/ ProbeFails \/ ProbeTimesOut
    \/ Enter \/ SnippetThrows
    \/ Fetch \/ UsePrefetched \/ FetchThrows
    \/ Return
    \/ Over

Spec == Init /\ [][Next]_vars

\* The thread runs, and every request comes back (with an answer or a throw).
FairSpec == Spec /\ WF_vars(Next)

-----------------------------------------------------------------------------
(* collect_unique_snippets: the nodes whose source is shown, in preorder.    *)

\* Defect: nothing is remembered as seen.
CollectAll(acc, node) ==
    IF InScope(node.item) THEN [acc EXCEPT !.out = Append(@, node)] ELSE acc

CollectNode(acc, node) ==
    IF InScope(node.item) /\ SnippetOf[node.item] \notin acc.seen
    THEN [seen |-> acc.seen \cup {SnippetOf[node.item]}, out |-> Append(acc.out, node)]
    ELSE acc

NothingCollected == [seen |-> {}, out |-> <<>>]

\* What has been collected after n nodes.
Collected[n \in Nat] ==
    IF n = 0 THEN NothingCollected ELSE CollectNode(Collected[n - 1], tree[n])

UniqueSnippets == Collected[Len(tree)].out

-----------------------------------------------------------------------------
(* Properties.                                                             *)

Stops == {"none", "leaf", "already-visited", "max-depth", "no-path", "external-or-library"}

\* Variables hold what their declarations say; a node's parent precedes it.
TypeOK ==
    /\ direction \in {"outgoing", "incoming"} /\ max_depth \in Int
    /\ status \in {"probe", "visit", "fetch", "done", "failed"}
    /\ probes \in Nat
    /\ prefetched \in Seq(Items)
    /\ tree \in Seq([item : Items, parent : Nat, depth : Nat, stop : Stops])
    /\ stack \in Seq([node : Nat, todo : Seq(Items)])
    /\ visited \subseteq Items
    /\ fetched \in Seq([item : Items, calls : Seq(Items)])
    /\ \A n \in DOMAIN tree : tree[n].parent < n
    /\ \A k \in DOMAIN stack : stack[k].node <= Len(tree)

AnsweredOnce ==
    \A m, n \in DOMAIN fetched : fetched[m].item = fetched[n].item => m = n

\* A question the walk is about to put, as Fetch does.
Asking == status = "fetch" /\ (direction = "incoming" => Len(tree) > 1)

AskedAnew ==
    Asking =>
        /\ \A f \in DOMAIN fetched : fetched[f].item # Current
        /\ direction = "incoming" => Current # Root

\* Whatever cycles and diamonds the call graph has, the walk asks about no item
\* that has been answered about, and in an incoming expansion never about the
\* root, which has been probed; so no item is answered about twice (the visited
\* set of expand_*_node).  Only the probes repeat a question: they ask about the
\* root until an answer is accepted or their time is up.
FetchedOnce == AnsweredOnce /\ AskedAnew

\* No node but the root lies deeper than max_depth, and no node at max_depth or
\* below is expanded, with a max_depth of 0 or less too (the root of an incoming
\* expansion has been probed all the same).
DepthBound ==
    \A n \in DOMAIN tree :
        /\ tree[n].depth = 0 \/ tree[n].depth <= max_depth
        /\ tree[n].depth >= max_depth => tree[n].stop \notin {"none", "leaf"}

\* Each item of the tree has exactly one node that says what became of it, and
\* that is its first: every other node of the item is marked already-visited.
OneAccountPerItem ==
    \A m, n \in DOMAIN tree :
        m < n /\ tree[m].item = tree[n].item => tree[n].stop = "already-visited"

Expanded == {n \in DOMAIN tree : tree[n].stop = "none"}
ChildrenOf(n) == {m \in DOMAIN tree : tree[m].parent = n}

\* Where a node comes among the children of its parent.
Place(m) == Cardinality({k \in ChildrenOf(tree[m].parent) : k <= m})

\* In a finished tree the children of an expanded node are the server's answer
\* about it, call for call and in order; a leaf is a node whose answer was
\* empty, or the root of an incoming expansion that nobody answered about.
TreeIsTheAnswers ==
    status = "done" =>
        /\ \A n \in Expanded : \E f \in DOMAIN fetched :
             /\ fetched[f].item = tree[n].item
             /\ Len(fetched[f].calls) = Cardinality(ChildrenOf(n))
             /\ \A m \in ChildrenOf(n) : tree[m].item = fetched[f].calls[Place(m)]
        /\ \A n \in DOMAIN tree : tree[n].stop = "leaf" =>
             \/ [item |-> tree[n].item, calls |-> <<>>] \in Range(fetched)
             \/ n = 1 /\ direction = "incoming" /\ fetched = <<>>

\* A finished tree without a max-depth node leaves nothing out: every item that
\* any answer names has been asked about itself, unless it is out of scope.  (Of
\* a root that is out of scope itself the probe's answer is not followed.)
ClosedUnlessCut ==
    status = "done" /\ InScope(Root) /\ (\A n \in DOMAIN tree : tree[n].stop # "max-depth") =>
        \A f \in DOMAIN fetched : \A k \in DOMAIN fetched[f].calls :
            LET i == fetched[f].calls[k]
            IN  InScope(i) => \/ \E g \in DOMAIN fetched : fetched[g].item = i
                              \/ i = Root /\ direction = "incoming"

\* A cyclic graph costs no more than the answers it takes to describe it: one
\* node for the root and one per call of one answer per item asked about.
WorkBound ==
    Len(tree) <= 1 + MaxFan * Cardinality({fetched[f].item : f \in DOMAIN fetched})

\* The flat list shows each place of the source once, and always through the
\* node that says what became of its item, never an already-visited one.
SnippetsUnique ==
    status = "done" =>
        LET out == UniqueSnippets
        IN  /\ \A m, n \in DOMAIN out :
                 SnippetOf[out[m].item] = SnippetOf[out[n].item] => m = n
            /\ \A n \in DOMAIN out : out[n].stop # "already-visited"
            /\ \A n \in DOMAIN tree : InScope(tree[n].item) =>
                 \E k \in DOMAIN out : SnippetOf[out[k].item] = SnippetOf[tree[n].item]

\* The expansion ends, cyclic graph or not.
Ends == <>(status \in {"done", "failed"})

===============================================================================
