---------------------------- MODULE CallTreeProofs ----------------------------
(***************************************************************************)
(* Safety of the traversal for any call graph, depth and size of answers.   *)
(*                                                                         *)
(* The argument: the visited set is the set of items of the tree, so the    *)
(* first node of an item is the only one that is not already-visited.  The *)
(* node a request is made for is such a node, and nothing was asked about  *)
(* its item before, because whatever was asked about has a node with an    *)
(* account of its own (or is the root, which is the first node).           *)
(***************************************************************************)
EXTENDS CallTree, FiniteSetTheorems, TLAPS

Nodes  == [item : Items, parent : Nat, depth : Nat, stop : Stops]
Frames == [node : Nat, todo : Seq(Items)]

BaseFrame == [node |-> 0, todo |-> <<Root>>]

VisitedIsTree == visited = {tree[n].item : n \in DOMAIN tree}

RootFirst ==
    /\ tree = <<>> => stack = <<BaseFrame>>
    /\ tree # <<>> => tree[1].item = Root

\* The nodes whose loops are running were not stopped.
FramesExpanded ==
    \A k \in DOMAIN stack :
        stack[k].node # 0 => stack[k].node \in DOMAIN tree /\ tree[stack[k].node].stop = "none"

\* The item asked about is that of the last node, whose loop has not begun.
FetchingLast ==
    status = "fetch" =>
        /\ tree # <<>> /\ tree[Len(tree)].stop = "none"
        /\ \A k \in DOMAIN stack : stack[k].node # Len(tree)

Accounted(n) == tree[n].stop \in {"none", "leaf"} /\ (status = "fetch" => n # Len(tree))

AskedIsAccounted ==
    \A f \in DOMAIN fetched :
        \/ direction = "incoming" /\ fetched[f].item = Root
        \/ \E n \in DOMAIN tree : tree[n].item = fetched[f].item /\ Accounted(n)

ProbeFirst == status = "probe" => direction = "incoming" /\ tree = <<>> /\ fetched = <<>>

TreeInv ==
    /\ TypeOK
    /\ VisitedIsTree /\ RootFirst /\ FramesExpanded /\ FetchingLast
    /\ AskedIsAccounted /\ ProbeFirst
    /\ OneAccountPerItem /\ DepthBound /\ AnsweredOnce

-----------------------------------------------------------------------------
(* Sequences.                                                              *)

LEMMA AnswersType == Answers \subseteq Seq(Items)
BY DEF Answers

LEMMA AppendFacts ==
    ASSUME NEW S, NEW s \in Seq(S), NEW e \in S
    PROVE  /\ Append(s, e) \in Seq(S)
           /\ Len(s) \in Nat /\ Len(Append(s, e)) = Len(s) + 1
           /\ DOMAIN s = 1 .. Len(s) /\ DOMAIN Append(s, e) = 1 .. Len(s) + 1
           /\ Append(s, e)[Len(s) + 1] = e
           /\ \A n \in 1 .. Len(s) : Append(s, e)[n] = s[n]
OBVIOUS

LEMMA PushFacts ==
    ASSUME NEW S, NEW s \in Seq(S), NEW e \in S
    PROVE  /\ <<e>> \o s \in Seq(S)
           /\ Len(s) \in Nat /\ Len(<<e>> \o s) = Len(s) + 1
           /\ (<<e>> \o s)[1] = e
           /\ \A n \in 2 .. Len(s) + 1 : (<<e>> \o s)[n] = s[n - 1]
OBVIOUS

LEMMA TailFacts ==
    ASSUME NEW S, NEW s \in Seq(S), s # <<>>
    PROVE  /\ Head(s) \in S /\ Tail(s) \in Seq(S)
           /\ Len(s) \in Nat \ {0} /\ Len(Tail(s)) = Len(s) - 1
           /\ Head(s) = s[1]
           /\ \A n \in 1 .. Len(s) - 1 : Tail(s)[n] = s[n + 1]
OBVIOUS

-----------------------------------------------------------------------------
LEMMA InitInv == Init => TreeInv
<1> SUFFICES ASSUME Init PROVE TreeInv
  OBVIOUS
<1>1. stack \in Seq(Frames) /\ Len(stack) = 1 /\ stack[1] = BaseFrame /\ stack = <<BaseFrame>>
  BY ItemsAssumption DEF Init, Frames, BaseFrame
<1>2. /\ tree \in Seq(Nodes) /\ DOMAIN tree = {} /\ tree = <<>>
      /\ prefetched \in Seq(Items) /\ DOMAIN fetched = {} /\ fetched = <<>>
      /\ fetched \in Seq([item : Items, calls : Seq(Items)])
  BY DEF Init, NoAnswer
<1>2a. direction \in {"outgoing", "incoming"} /\ max_depth \in Int
  BY LimitsAssumption DEF Init
<1>3. TypeOK
  BY <1>1, <1>2, <1>2a DEF Init, TypeOK, Nodes, Frames, BaseFrame
<1>4. VisitedIsTree /\ RootFirst /\ FramesExpanded /\ FetchingLast
  BY <1>1, <1>2 DEF Init, VisitedIsTree, RootFirst, FramesExpanded, FetchingLast, BaseFrame
<1>5. AskedIsAccounted /\ ProbeFirst /\ OneAccountPerItem /\ DepthBound /\ AnsweredOnce
  BY <1>2 DEF Init, AskedIsAccounted, ProbeFirst, OneAccountPerItem, DepthBound, AnsweredOnce
<1> QED
  BY <1>3, <1>4, <1>5 DEF TreeInv

\* Everything about the tree and the stack that a step leaves alone stays true.
LEMMA QuietInv ==
    ASSUME TreeInv, UNCHANGED <<direction, max_depth, tree, stack, visited, fetched>>,
           probes' \in Nat, prefetched' \in Seq(Items),
           status' \in {"probe", "visit", "fetch", "done", "failed"},
           status' \in {"probe", "fetch"} => status' = status
    PROVE  TreeInv'
<1>1. TypeOK'
  BY DEF TreeInv, TypeOK
<1>2. /\ VisitedIsTree' /\ RootFirst' /\ FramesExpanded' /\ FetchingLast'
      /\ ProbeFirst' /\ OneAccountPerItem' /\ DepthBound' /\ AnsweredOnce'
  BY DEF TreeInv, VisitedIsTree, RootFirst, FramesExpanded, FetchingLast,
         ProbeFirst, OneAccountPerItem, DepthBound, AnsweredOnce
<1>3. AskedIsAccounted'
  BY DEF TreeInv, AskedIsAccounted, Accounted
<1> QED
  BY <1>1, <1>2, <1>3 DEF TreeInv

LEMMA ProbeAnsweredInv == ASSUME TreeInv, ProbeAnswered PROVE TreeInv'
<1>1. PICK calls \in Answers :
         /\ prefetched' = calls
         /\ fetched' = Append(fetched, [item |-> Root, calls |-> calls])
  BY DEF ProbeAnswered
<1>2. /\ status = "probe" /\ status' = "visit" /\ fetched = <<>> /\ direction = "incoming"
      /\ tree = <<>> /\ UNCHANGED <<direction, max_depth, tree, stack, visited>> /\ probes' \in Nat
  BY DEF ProbeAnswered, TreeInv, ProbeFirst, TypeOK
<1>3. calls \in Seq(Items) /\ [item |-> Root, calls |-> calls] \in [item : Items, calls : Seq(Items)]
  BY AnswersType, ItemsAssumption
<1>4. /\ fetched' \in Seq([item : Items, calls : Seq(Items)])
      /\ DOMAIN fetched' = {1} /\ fetched'[1] = [item |-> Root, calls |-> calls]
  BY <1>1, <1>2, <1>3
<1>5. TypeOK'
  BY <1>1, <1>2, <1>3, <1>4 DEF TreeInv, TypeOK
<1>6. /\ VisitedIsTree' /\ RootFirst' /\ FramesExpanded' /\ FetchingLast'
      /\ ProbeFirst' /\ OneAccountPerItem' /\ DepthBound'
  BY <1>2
  DEF TreeInv, VisitedIsTree, RootFirst, FramesExpanded, FetchingLast, ProbeFirst,
      OneAccountPerItem, DepthBound
<1>7. AskedIsAccounted' /\ AnsweredOnce'
  BY <1>2, <1>4 DEF AskedIsAccounted, AnsweredOnce
<1> QED
  BY <1>5, <1>6, <1>7 DEF TreeInv

\* What entering a node does, and why it is stopped.
TheCall == Head(Top.todo)
Reason == StopReason(TheCall, Depth(Top.node))
NewNode == [item |-> TheCall, parent |-> Top.node, depth |-> Depth(Top.node), stop |-> Reason]
NewTop == [node |-> Top.node, todo |-> Tail(Top.todo)]

LEMMA EnterShape ==
    ASSUME TreeInv, Enter, NEW N \in Nat, N = Len(tree)
    PROVE  /\ status = "visit" /\ visited' = visited \cup {TheCall}
           /\ status' = IF Reason = "none" THEN "fetch" ELSE "visit"
           /\ UNCHANGED <<direction, max_depth, probes, prefetched, fetched>>
           /\ Top = stack[1] /\ 1 \in DOMAIN stack /\ Top \in Frames /\ stack \in Seq(Frames)
           /\ \A k \in DOMAIN stack : /\ stack[k] \in Frames /\ stack[k].node \in Nat
                                      /\ stack[k].node <= N
           /\ TheCall \in Items /\ Top.node \in Nat /\ Top.node <= N /\ NewTop \in Frames
           /\ Top.todo \in Seq(Items) /\ Top.todo # <<>>
           /\ tree \in Seq(Nodes) /\ DOMAIN tree = 1 .. N
           /\ Depth(Top.node) \in Nat /\ max_depth \in Int
           /\ Depth(Top.node) = 0 \/ Depth(Top.node) <= max_depth
           /\ Reason \in Stops \ {"leaf"}
           /\ Reason = "none" => TheCall \notin visited
           /\ TheCall \in visited <=> Reason = "already-visited"
           /\ Depth(Top.node) >= max_depth => Reason # "none"
           /\ tree' \in Seq(Nodes) /\ DOMAIN tree' = 1 .. N + 1 /\ Len(tree') = N + 1
           /\ tree'[N + 1] = NewNode /\ \A n \in 1 .. N : tree'[n] = tree[n]
           /\ stack' \in Seq(Frames) /\ stack'[1] = NewTop /\ DOMAIN stack' = DOMAIN stack
           /\ \A k \in DOMAIN stack' : k # 1 => stack'[k] = stack[k]
<1> DEFINE i == TheCall
           p == Top.node
           reason == Reason
           nd == NewNode
           frame == NewTop
<1>n. N = Len(tree)
  OBVIOUS
<1>1. /\ status = "visit" /\ stack # <<>> /\ Top.todo # <<>>
      /\ tree' = Append(tree, nd) /\ visited' = visited \cup {i}
      /\ status' = IF reason = "none" THEN "fetch" ELSE "visit"
      /\ stack' = <<frame>> \o Tail(stack)
      /\ UNCHANGED <<direction, max_depth, probes, prefetched, fetched>>
  BY DEF Enter, NextItem, Advance, TheCall, Reason, NewNode, NewTop
<1>2. Top = stack[1] /\ 1 \in DOMAIN stack /\ Top \in Frames /\ stack \in Seq(Frames)
  <2>1. stack \in Seq(Frames)
    BY DEF TreeInv, TypeOK, Frames
  <2> QED
    BY <1>1, <2>1, TailFacts DEF Top
<1>2a. \A k \in DOMAIN stack : /\ stack[k] \in Frames /\ stack[k].node \in Nat
                              /\ stack[k].node <= N
  <2>1. \A k \in DOMAIN stack : stack[k] \in Frames
    BY <1>2
  <2>2. \A k \in DOMAIN stack : stack[k].node <= N
    BY <1>n DEF TreeInv, TypeOK
  <2> QED
    BY <2>1, <2>2 DEF Frames
<1>3. i \in Items /\ p \in Nat /\ frame \in Frames /\ p <= N
  BY <1>1, <1>2, <1>n, TailFacts DEF TreeInv, TypeOK, Frames, TheCall, NewTop
<1>4. tree \in Seq(Nodes) /\ DOMAIN tree = 1 .. N
  BY <1>n DEF TreeInv, TypeOK, Nodes
<1>m. max_depth \in Int
  BY DEF TreeInv, TypeOK
<1>5. Depth(p) \in Nat /\ (Depth(p) = 0 \/ Depth(p) <= max_depth) /\ (p = 0 => Depth(p) = 0)
  <2>1. CASE p = 0
    BY <2>1 DEF Depth
  <2>2. CASE p # 0
    <3>1. p \in DOMAIN tree /\ tree[p].stop = "none"
      BY <1>2, <2>2 DEF TreeInv, FramesExpanded
    <3>2. tree[p].depth \in Nat /\ ~(tree[p].depth >= max_depth)
      <4>1. tree[p] \in Nodes
        BY <1>4, <3>1
      <4> QED
        BY <3>1, <4>1 DEF TreeInv, DepthBound, Nodes
    <3>3. Depth(p) = tree[p].depth + 1
      BY <2>2 DEF Depth
    <3> QED
      BY <1>m, <2>2, <3>2, <3>3
  <2> QED
    BY <2>1, <2>2
<1>6. /\ reason \in Stops /\ (reason = "none" => i \notin visited /\ Depth(p) < max_depth)
      /\ (i \in visited <=> reason = "already-visited")
      /\ (Depth(p) >= max_depth => reason \notin {"none", "leaf"})
      /\ reason # "leaf"
  BY <1>5, <1>m DEF Reason, StopReason, Stops
<1>7. nd \in Nodes
  BY <1>3, <1>5, <1>6 DEF Nodes, NewNode
<1> HIDE DEF i, p, reason
<1>8. /\ tree' \in Seq(Nodes) /\ DOMAIN tree' = 1 .. N + 1 /\ Len(tree') = N + 1
      /\ tree'[N + 1] = nd /\ \A n \in 1 .. N : tree'[n] = tree[n]
  BY <1>1, <1>4, <1>7, <1>n, AppendFacts
<1>9. /\ Tail(stack) \in Seq(Frames) /\ Len(Tail(stack)) + 1 = Len(stack)
      /\ DOMAIN stack = 1 .. Len(stack) /\ Len(stack) \in Nat
      /\ \A k \in DOMAIN Tail(stack) : k + 1 \in DOMAIN stack /\ Tail(stack)[k] = stack[k + 1]
  BY <1>1, <1>2, TailFacts
<1>10. /\ stack' \in Seq(Frames) /\ stack'[1] = frame /\ DOMAIN stack' = DOMAIN stack
       /\ \A k \in DOMAIN stack' : k # 1 => stack'[k] = stack[k]
  <2>1. /\ stack' \in Seq(Frames) /\ stack'[1] = frame /\ Len(stack') = Len(Tail(stack)) + 1
        /\ Len(Tail(stack)) \in Nat
        /\ \A n \in 2 .. Len(Tail(stack)) + 1 : stack'[n] = Tail(stack)[n - 1]
    BY <1>1, <1>3, <1>9, PushFacts
  <2>3. DOMAIN stack' = DOMAIN stack
    BY <2>1, <1>9
  <2>2. ASSUME NEW k \in DOMAIN stack', k # 1
        PROVE  stack'[k] = stack[k]
    <3>1. k \in 2 .. Len(Tail(stack)) + 1 /\ k - 1 \in DOMAIN Tail(stack) /\ (k - 1) + 1 = k
      BY <2>1, <2>2, <1>9
    <3> QED
      BY <1>9, <2>1, <3>1
  <2> QED
    BY <2>1, <2>2, <2>3
<1>11. Top.todo \in Seq(Items)
  BY <1>2 DEF Frames
<1> QED
  BY <1>1, <1>2, <1>2a, <1>3, <1>4, <1>5, <1>m, <1>6, <1>8, <1>10, <1>11 DEF i, p, reason

LEMMA EnterInv == ASSUME TreeInv, Enter PROVE TreeInv'
<1> DEFINE i == TheCall
           p == Top.node
           reason == Reason
           nd == [item |-> i, parent |-> p, depth |-> Depth(p), stop |-> reason]
           frame == [node |-> p, todo |-> Tail(Top.todo)]
<1>n. PICK N \in Nat : N = Len(tree)
  BY DEF TreeInv, TypeOK
<1>1. /\ status = "visit" /\ visited' = visited \cup {i}
      /\ status' = IF reason = "none" THEN "fetch" ELSE "visit"
      /\ UNCHANGED <<direction, max_depth, probes, prefetched, fetched>>
  BY <1>n, EnterShape
<1>2. Top = stack[1] /\ 1 \in DOMAIN stack /\ Top \in Frames /\ stack \in Seq(Frames)
  BY <1>n, EnterShape
<1>2a. \A k \in DOMAIN stack : /\ stack[k] \in Frames /\ stack[k].node \in Nat
                              /\ stack[k].node <= N
  BY <1>n, EnterShape
<1>3. i \in Items /\ p \in Nat /\ frame \in Frames /\ p <= N
  BY <1>n, EnterShape DEF NewTop
<1>4. tree \in Seq(Nodes) /\ DOMAIN tree = 1 .. N
  BY <1>n, EnterShape
<1>5. Depth(p) \in Nat /\ max_depth \in Int /\ (Depth(p) = 0 \/ Depth(p) <= max_depth)
  BY <1>n, EnterShape
<1>6. /\ reason \in Stops /\ (reason = "none" => i \notin visited)
      /\ (i \in visited => reason = "already-visited")
      /\ (Depth(p) >= max_depth => reason \notin {"none", "leaf"})
      /\ reason # "leaf"
  BY <1>n, EnterShape
<1>8. /\ tree' \in Seq(Nodes) /\ DOMAIN tree' = 1 .. N + 1 /\ Len(tree') = N + 1
      /\ tree'[N + 1] = nd /\ \A n \in 1 .. N : tree'[n] = tree[n]
  BY <1>n, EnterShape DEF NewNode
<1>10. /\ stack' \in Seq(Frames) /\ stack'[1] = frame
       /\ \A k \in DOMAIN stack' : k # 1 => k \in DOMAIN stack /\ stack'[k] = stack[k]
  BY <1>n, EnterShape DEF NewTop
<1> HIDE DEF i, p, reason
<1>11. TypeOK'
  <2>1. \A n \in DOMAIN tree' : tree'[n].parent < n
    <3>1. ASSUME NEW n \in 1 .. N PROVE tree'[n].parent < n
      BY <1>4, <1>8 DEF TreeInv, TypeOK
    <3>2. tree'[N + 1].parent < N + 1
      BY <1>3, <1>8
    <3> QED
      BY <1>8, <3>1, <3>2
  <2>2. \A k \in DOMAIN stack' : stack'[k].node <= Len(tree')
    <3>1. ASSUME NEW k \in DOMAIN stack', k # 1 PROVE stack'[k].node <= N + 1
      <4>1. stack[k].node \in Nat /\ stack[k].node <= N
        BY <1>2a, <1>10, <3>1
      <4> QED
        BY <1>10, <3>1, <4>1
    <3>2. stack'[1].node <= N + 1
      BY <1>3, <1>10
    <3> QED
      BY <1>8, <3>1, <3>2
  <2>3. status' \in {"visit", "fetch"} /\ visited' \subseteq Items
    BY <1>1, <1>3 DEF TreeInv, TypeOK
  <2> QED
    BY <1>1, <1>8, <1>10, <2>1, <2>2, <2>3 DEF TreeInv, TypeOK, Nodes, Frames
<1>12. VisitedIsTree'
  <2>1. {tree'[n].item : n \in DOMAIN tree'} = {tree[n].item : n \in DOMAIN tree} \cup {i}
    BY <1>4, <1>8
  <2> QED
    BY <1>1, <2>1 DEF TreeInv, VisitedIsTree
<1>13. RootFirst'
  <2>1. CASE tree = <<>>
    <3>1. i = Root
      BY <1>2, <2>1 DEF TreeInv, RootFirst, BaseFrame, i, TheCall, Top
    <3> QED
      <4>1. N = 0
        BY <1>n, <2>1
      <4>2. N + 1 = 1 /\ Len(tree') = 1
        BY <1>8, <4>1
      <4>3. tree'[1] = nd
        BY <1>8, <4>2
      <4>4. tree'[1].item = Root
        BY <3>1, <4>3
      <4> QED
        BY <4>2, <4>4 DEF RootFirst
  <2>2. CASE tree # <<>>
    <3>1. 1 \in 1 .. N
      BY <1>4, <1>n, <2>2
    <3> QED
      BY <1>8, <2>2, <3>1 DEF TreeInv, RootFirst
  <2> QED
    BY <2>1, <2>2
<1>14. FramesExpanded'
  <2>1. ASSUME NEW n \in Nat, n # 0, \E k \in DOMAIN stack : stack[k].node = n
        PROVE  n \in DOMAIN tree' /\ tree'[n].stop = "none"
    BY <1>4, <1>8, <2>1 DEF TreeInv, FramesExpanded
  <2>2. ASSUME NEW k \in DOMAIN stack', stack'[k].node # 0
        PROVE  stack'[k].node \in DOMAIN tree' /\ tree'[stack'[k].node].stop = "none"
    <3>1. CASE k = 1
      <4>1. stack'[k].node = stack[1].node /\ stack'[k].node \in Nat
        BY <1>2, <1>3, <1>10, <3>1 DEF p
      <4> QED
        BY <1>2, <2>1, <2>2, <4>1
    <3>2. CASE k # 1
      <4>1. k \in DOMAIN stack /\ stack'[k] = stack[k] /\ stack[k].node \in Nat
        BY <1>2a, <1>10, <3>2
      <4> QED
        BY <2>1, <2>2, <4>1
    <3> QED
      BY <3>1, <3>2
  <2> QED
    BY <2>2 DEF FramesExpanded
<1>15. FetchingLast' /\ ProbeFirst'
  <2>1. tree' # <<>> /\ tree'[Len(tree')].stop = reason
    BY <1>8
  <2>2. status' # "probe" /\ (status' = "fetch" => reason = "none")
    BY <1>1
  <2>3. \A k \in DOMAIN stack' : stack'[k].node # Len(tree')
    <3>1. ASSUME NEW k \in DOMAIN stack', k # 1 PROVE stack'[k].node \in Nat /\ stack'[k].node <= N
      BY <1>2a, <1>10, <3>1
    <3>2. stack'[1].node \in Nat /\ stack'[1].node <= N
      BY <1>3, <1>10
    <3>3. \A k \in DOMAIN stack' : stack'[k].node \in Nat /\ stack'[k].node <= N
      BY <3>1, <3>2
    <3> QED
      BY <1>8, <3>3
  <2> QED
    BY <2>1, <2>2, <2>3 DEF FetchingLast, ProbeFirst
<1>16. AskedIsAccounted'
  <2>1. ASSUME NEW n \in DOMAIN tree, Accounted(n)
        PROVE  n \in DOMAIN tree' /\ tree'[n].item = tree[n].item /\ Accounted(n)'
    BY <1>1, <1>4, <1>8, <2>1 DEF Accounted
  <2> QED
    BY <1>1, <2>1 DEF TreeInv, AskedIsAccounted
<1>17. OneAccountPerItem'
  <2>1. \A m \in 1 .. N : tree[m].item = i => reason = "already-visited"
    BY <1>4, <1>6 DEF TreeInv, VisitedIsTree
  <2> QED
    BY <1>4, <1>8, <2>1 DEF TreeInv, OneAccountPerItem
<1>18. DepthBound'
  <2>1. nd.depth = Depth(p) /\ nd.stop = reason
    OBVIOUS
  <2> HIDE DEF nd
  <2>2. ASSUME NEW n \in 1 .. N
        PROVE  /\ tree'[n].depth = 0 \/ tree'[n].depth <= max_depth
               /\ tree'[n].depth >= max_depth => tree'[n].stop \notin {"none", "leaf"}
    BY <1>4, <1>8, <2>2 DEF TreeInv, DepthBound
  <2>3. /\ tree'[N + 1].depth = 0 \/ tree'[N + 1].depth <= max_depth
        /\ tree'[N + 1].depth >= max_depth => tree'[N + 1].stop \notin {"none", "leaf"}
    BY <1>5, <1>6, <1>8, <2>1
  <2>4. \A n \in 1 .. N + 1 : n \in 1 .. N \/ n = N + 1
    OBVIOUS
  <2> QED
    BY <1>1, <1>8, <2>2, <2>3, <2>4 DEF DepthBound
<1>19. AnsweredOnce'
  BY <1>1 DEF TreeInv, AnsweredOnce
<1> QED
  BY <1>11, <1>12, <1>13, <1>14, <1>15, <1>16, <1>17, <1>18, <1>19 DEF TreeInv

\* What is known when an item is about to be asked about.
LEMMA FetchFacts ==
    ASSUME TreeInv, status = "fetch"
    PROVE  /\ tree \in Seq(Nodes) /\ Len(tree) \in Nat \ {0} /\ DOMAIN tree = 1 .. Len(tree)
           /\ stack \in Seq(Frames) /\ tree[Len(tree)].stop = "none"
           /\ Current \in Items
<1>1. tree \in Seq(Nodes) /\ stack \in Seq(Frames)
  BY DEF TreeInv, TypeOK, Nodes, Frames
<1>2. tree # <<>> /\ tree[Len(tree)].stop = "none"
  BY DEF TreeInv, FetchingLast
<1>3. Len(tree) \in Nat \ {0} /\ DOMAIN tree = 1 .. Len(tree)
  BY <1>1, <1>2
<1>4. tree[Len(tree)] \in Nodes
  BY <1>1, <1>3
<1> QED
  BY <1>1, <1>2, <1>3, <1>4 DEF Current, Nodes

\* Nothing has been answered about the item that is asked about next, and in
\* an incoming expansion it is not the root.
LEMMA AskedAnewInState == TreeInv => AskedAnew
<1> SUFFICES ASSUME TreeInv, Asking
             PROVE  /\ \A f \in DOMAIN fetched : fetched[f].item # Current
                    /\ direction = "incoming" => Current # Root
  BY DEF AskedAnew
<1>n. PICK N \in Nat : N = Len(tree)
  BY DEF TreeInv, TypeOK
<1>1. status = "fetch" /\ (direction = "incoming" => N > 1)
  BY <1>n DEF Asking
<1>2. N \in Nat \ {0} /\ DOMAIN tree = 1 .. N /\ tree[N].stop = "none" /\ Current = tree[N].item
  BY <1>1, <1>n, FetchFacts DEF Current
<1>3. direction = "incoming" => Current # Root
  <2> SUFFICES ASSUME direction = "incoming", Current = Root PROVE FALSE
    OBVIOUS
  <2>1. 1 \in DOMAIN tree /\ 1 < N /\ N \in DOMAIN tree
    BY <1>1, <1>2
  <2>2. tree # <<>>
    BY <1>1, <1>n DEF TreeInv, FetchingLast
  <2>3. tree[1].item = tree[N].item
    BY <1>2, <2>2 DEF TreeInv, RootFirst
  <2>4. tree[N].stop = "already-visited"
    BY <2>1, <2>3 DEF TreeInv, OneAccountPerItem
  <2> QED
    BY <1>2, <2>4
<1>4. ASSUME NEW f \in DOMAIN fetched, fetched[f].item = Current PROVE FALSE
  <2>1. CASE direction = "incoming" /\ fetched[f].item = Root
    BY <1>3, <1>4, <2>1
  <2>2. CASE \E n \in DOMAIN tree : tree[n].item = fetched[f].item /\ Accounted(n)
    <3>1. PICK n \in DOMAIN tree : tree[n].item = tree[N].item /\ n # N
      BY <1>1, <1>2, <1>n, <1>4, <2>2 DEF Accounted
    <3>2. n < N /\ N \in DOMAIN tree
      BY <1>2, <3>1
    <3>3. tree[N].stop = "already-visited"
      BY <3>1, <3>2 DEF TreeInv, OneAccountPerItem
    <3> QED
      BY <1>2, <3>3
  <2> QED
    BY <2>1, <2>2 DEF TreeInv, AskedIsAccounted
<1> QED
  BY <1>3, <1>4

\* An answer about the last node: it becomes a leaf or its loop begins.
LEMMA FollowInv ==
    ASSUME TreeInv, status = "fetch", NEW calls \in Seq(Items), Follow(calls),
           status' = "visit", UNCHANGED <<direction, max_depth, probes, prefetched, visited>>,
           fetched' \in Seq([item : Items, calls : Seq(Items)])
    PROVE  /\ DOMAIN tree' = DOMAIN tree /\ Len(tree') = Len(tree)
           /\ \A n \in DOMAIN tree : tree'[n].item = tree[n].item
           /\ \A n \in DOMAIN tree : Accounted(n) => Accounted(n)'
           /\ Accounted(Len(tree))'
           /\ TypeOK' /\ VisitedIsTree' /\ RootFirst' /\ FramesExpanded' /\ FetchingLast'
           /\ ProbeFirst' /\ OneAccountPerItem' /\ DepthBound'
<1>n. PICK N \in Nat : N = Len(tree)
  BY FetchFacts
<1>1. /\ tree \in Seq(Nodes) /\ N > 0 /\ DOMAIN tree = 1 .. N
      /\ stack \in Seq(Frames) /\ tree[N].stop = "none" /\ tree # <<>>
  BY <1>n, FetchFacts DEF TreeInv, FetchingLast
<1>2. /\ \A k \in DOMAIN stack : stack[k].node \in Nat /\ stack[k].node < N
      /\ \A n \in 1 .. N : tree[n].parent < n
  <2>1. \A k \in DOMAIN stack : stack[k] \in Frames
    BY <1>1
  <2>2. \A k \in DOMAIN stack : stack[k].node <= N /\ stack[k].node # N
    BY <1>n DEF TreeInv, TypeOK, FetchingLast
  <2>3. \A n \in 1 .. N : tree[n].parent < n
    BY <1>1 DEF TreeInv, TypeOK
  <2> QED
    BY <2>1, <2>2, <2>3 DEF Frames
<1>3. CASE calls = <<>>
  <2>1. tree' = [tree EXCEPT ![N].stop = "leaf"] /\ stack' = stack
    BY <1>3, <1>n DEF Follow
  <2>2. tree[N] \in Nodes /\ [tree[N] EXCEPT !.stop = "leaf"] \in Nodes
    <3>1. N \in DOMAIN tree
      BY <1>1
    <3>2. tree[N] \in Nodes
      BY <1>1, <3>1
    <3> QED
      BY <3>2 DEF Nodes, Stops
  <2>3. /\ tree' \in Seq(Nodes) /\ DOMAIN tree' = 1 .. N /\ Len(tree') = N
        /\ tree'[N] = [tree[N] EXCEPT !.stop = "leaf"]
        /\ \A n \in 1 .. N : n # N => tree'[n] = tree[n]
    BY <1>1, <1>n, <2>1, <2>2
  <2>4. /\ \A n \in 1 .. N : /\ tree'[n].item = tree[n].item /\ tree'[n].depth = tree[n].depth
                             /\ tree'[n].parent = tree[n].parent
        /\ tree'[N].stop = "leaf"
    BY <1>1, <2>2, <2>3 DEF Nodes
  <2>5. TypeOK'
    BY <1>1, <1>2, <1>n, <2>1, <2>3, <2>4 DEF TreeInv, TypeOK, Nodes, Frames
  <2>6. VisitedIsTree' /\ RootFirst' /\ ProbeFirst'
    <3>1. {tree'[n].item : n \in DOMAIN tree'} = {tree[n].item : n \in DOMAIN tree}
      <4>1. DOMAIN tree' = DOMAIN tree /\ \A n \in DOMAIN tree : tree'[n].item = tree[n].item
        BY <1>1, <2>3, <2>4
      <4> QED
        BY <4>1
    <3>2. 1 \in 1 .. N /\ tree'[1].item = tree[1].item
      BY <1>1, <2>4
    <3>3. tree' # <<>>
      BY <1>1, <2>3
    <3> QED
      BY <1>1, <3>1, <3>2, <3>3 DEF TreeInv, VisitedIsTree, RootFirst, ProbeFirst
  <2>7. FramesExpanded' /\ FetchingLast'
    BY <1>1, <1>2, <2>1, <2>3 DEF TreeInv, FramesExpanded, FetchingLast
  <2>8. OneAccountPerItem'
    <3>1. ASSUME NEW m \in 1 .. N, NEW n \in 1 .. N, m < n, tree'[m].item = tree'[n].item
          PROVE  tree'[n].stop = "already-visited"
      <4>1. tree[n].stop = "already-visited"
        BY <1>1, <2>4, <3>1 DEF TreeInv, OneAccountPerItem
      <4>2. n # N
        BY <1>1, <4>1
      <4> QED
        BY <2>3, <4>1, <4>2
    <3> QED
      BY <2>3, <3>1 DEF OneAccountPerItem
  <2>9. DepthBound'
    <3>1. (tree[N].depth = 0 \/ tree[N].depth <= max_depth) /\ ~(tree[N].depth >= max_depth)
      <4>1. DepthBound /\ N \in DOMAIN tree
        BY <1>1 DEF TreeInv
      <4> QED
        BY <1>1, <4>1 DEF DepthBound
    <3>2. ASSUME NEW n \in 1 .. N
          PROVE  /\ tree'[n].depth = 0 \/ tree'[n].depth <= max_depth
                 /\ tree'[n].depth >= max_depth => tree'[n].stop \notin {"none", "leaf"}
      <4>1. CASE n = N
        BY <2>4, <3>1, <4>1
      <4>2. CASE n # N
        BY <1>1, <2>3, <4>2 DEF TreeInv, DepthBound
      <4> QED
        BY <4>1, <4>2
    <3> QED
      BY <2>3, <3>2 DEF DepthBound
  <2>10. \A n \in DOMAIN tree : Accounted(n) => Accounted(n)'
    BY <1>1, <1>n, <2>3 DEF Accounted
  <2>11. Accounted(Len(tree))'
    BY <1>n, <2>3, <2>4 DEF Accounted
  <2> QED
    BY <1>1, <1>n, <2>3, <2>4, <2>5, <2>6, <2>7, <2>8, <2>9, <2>10, <2>11
<1>4. CASE calls # <<>>
  <2> DEFINE frame == [node |-> N, todo |-> calls]
  <2>1. tree' = tree /\ stack' = <<frame>> \o stack
    BY <1>4, <1>n DEF Follow
  <2>2. frame \in Frames /\ frame.node = N
    BY DEF Frames
  <2> HIDE DEF frame
  <2>3. /\ stack' \in Seq(Frames) /\ stack'[1] = frame
        /\ \A k \in DOMAIN stack' : k # 1 => k - 1 \in DOMAIN stack /\ stack'[k] = stack[k - 1]
    <3>1. /\ stack' \in Seq(Frames) /\ Len(stack) \in Nat /\ Len(stack') = Len(stack) + 1
          /\ stack'[1] = frame /\ \A n \in 2 .. Len(stack) + 1 : stack'[n] = stack[n - 1]
      BY <1>1, <2>1, <2>2, PushFacts
    <3> QED
      BY <1>1, <3>1
  <2>4. \A k \in DOMAIN stack' : stack'[k].node <= N
    <3>1. ASSUME NEW k \in DOMAIN stack', k # 1 PROVE stack'[k].node <= N
      BY <1>2, <2>3, <3>1
    <3> QED
      BY <2>2, <2>3, <3>1
  <2>5. TypeOK'
    BY <1>n, <2>1, <2>3, <2>4 DEF TreeInv, TypeOK, Nodes, Frames
  <2>6. VisitedIsTree' /\ RootFirst' /\ ProbeFirst' /\ OneAccountPerItem' /\ DepthBound'
    BY <1>1, <2>1
    DEF TreeInv, VisitedIsTree, RootFirst, ProbeFirst, OneAccountPerItem, DepthBound
  <2>7. FramesExpanded' /\ FetchingLast'
    <3>1. ASSUME NEW k \in DOMAIN stack', stack'[k].node # 0
          PROVE  stack'[k].node \in DOMAIN tree /\ tree[stack'[k].node].stop = "none"
      <4>1. CASE k = 1
        BY <1>1, <2>2, <2>3, <4>1
      <4>2. CASE k # 1
        BY <2>3, <3>1, <4>2 DEF TreeInv, FramesExpanded
      <4> QED
        BY <4>1, <4>2
    <3> QED
      BY <2>1, <3>1 DEF FramesExpanded, FetchingLast
  <2>8. \A n \in DOMAIN tree : Accounted(n) => Accounted(n)'
    BY <2>1 DEF Accounted
  <2>9. Accounted(Len(tree))'
    BY <1>1, <1>n, <2>1 DEF Accounted
  <2> QED
    BY <2>1, <2>5, <2>6, <2>7, <2>8, <2>9
<1> QED
  BY <1>3, <1>4

LEMMA FetchInv == ASSUME TreeInv, Fetch PROVE TreeInv'
<1>n. PICK N \in Nat : N = Len(tree)
  BY DEF TreeInv, TypeOK
<1>1. PICK calls \in Answers :
         /\ fetched' = Append(fetched, [item |-> Current, calls |-> calls])
         /\ Follow(calls)
  BY DEF Fetch
<1>2. /\ status = "fetch" /\ (direction = "incoming" => N > 1) /\ status' = "visit"
      /\ UNCHANGED <<direction, max_depth, probes, prefetched, visited>>
  BY <1>n DEF Fetch
<1>3. /\ N \in Nat \ {0} /\ DOMAIN tree = 1 .. N /\ tree[N].stop = "none" /\ Current \in Items
      /\ calls \in Seq(Items)
  BY <1>2, <1>n, FetchFacts, AnswersType
<1>f. PICK F \in Nat : F = Len(fetched)
  BY DEF TreeInv, TypeOK
<1> DEFINE record == [item |-> Current, calls |-> calls]
<1>4. record \in [item : Items, calls : Seq(Items)] /\ record.item = tree[N].item
  BY <1>3, <1>n DEF Current
<1>5. /\ fetched' \in Seq([item : Items, calls : Seq(Items)])
      /\ DOMAIN fetched = 1 .. F /\ DOMAIN fetched' = 1 .. F + 1
      /\ fetched'[F + 1] = record /\ \A f \in 1 .. F : fetched'[f] = fetched[f]
  BY <1>1, <1>4, <1>f, AppendFacts DEF TreeInv, TypeOK
<1>6. /\ DOMAIN tree' = DOMAIN tree /\ Len(tree') = N
      /\ \A n \in DOMAIN tree : tree'[n].item = tree[n].item
      /\ \A n \in DOMAIN tree : Accounted(n) => Accounted(n)'
      /\ Accounted(N)'
      /\ TypeOK' /\ VisitedIsTree' /\ RootFirst' /\ FramesExpanded' /\ FetchingLast'
      /\ ProbeFirst' /\ OneAccountPerItem' /\ DepthBound'
  <2>1. /\ DOMAIN tree' = DOMAIN tree /\ Len(tree') = Len(tree)
        /\ \A n \in DOMAIN tree : tree'[n].item = tree[n].item
        /\ \A n \in DOMAIN tree : Accounted(n) => Accounted(n)'
        /\ Accounted(Len(tree))'
        /\ TypeOK' /\ VisitedIsTree' /\ RootFirst' /\ FramesExpanded' /\ FetchingLast'
        /\ ProbeFirst' /\ OneAccountPerItem' /\ DepthBound'
    BY <1>1, <1>2, <1>3, <1>5, FollowInv
  <2> QED
    BY <2>1, <1>n
\* Nothing has been asked about the item of the last node.
<1>7. \A f \in 1 .. F : fetched[f].item # tree[N].item
  <2>1. Asking
    BY <1>2, <1>n DEF Asking
  <2> QED
    BY <1>5, <1>n, <2>1, AskedAnewInState DEF AskedAnew, Current
<1>8. AskedIsAccounted'
  <2>1. ASSUME NEW f \in 1 .. F
        PROVE  \/ direction' = "incoming" /\ fetched'[f].item = Root
               \/ \E n \in DOMAIN tree' : tree'[n].item = fetched'[f].item /\ Accounted(n)'
    BY <1>2, <1>5, <1>6 DEF TreeInv, AskedIsAccounted
  <2>2. \E n \in DOMAIN tree' : tree'[n].item = fetched'[F + 1].item /\ Accounted(n)'
    BY <1>3, <1>4, <1>5, <1>6
  <2> QED
    <3>1. \A f \in DOMAIN fetched' : f \in 1 .. F \/ f = F + 1
      BY <1>5
    <3> QED
      BY <2>1, <2>2, <3>1 DEF AskedIsAccounted
<1>9. AnsweredOnce'
  <2> HIDE DEF record
  <2>1. ASSUME NEW m \in 1 .. F, NEW n \in 1 .. F, fetched'[m].item = fetched'[n].item
        PROVE  m = n
    BY <1>5, <2>1 DEF TreeInv, AnsweredOnce
  <2>2. \A m \in 1 .. F : fetched'[m].item # fetched'[F + 1].item
    BY <1>4, <1>5, <1>7
  <2>3. ASSUME NEW m \in 1 .. F + 1, NEW n \in 1 .. F + 1, fetched'[m].item = fetched'[n].item
        PROVE  m = n
    <3>1. (m \in 1 .. F \/ m = F + 1) /\ (n \in 1 .. F \/ n = F + 1)
      OBVIOUS
    <3> QED
      BY <2>1, <2>2, <2>3, <3>1
  <2> QED
    BY <1>5, <2>3 DEF AnsweredOnce
<1> QED
  BY <1>6, <1>8, <1>9 DEF TreeInv

LEMMA UsePrefetchedInv == ASSUME TreeInv, UsePrefetched PROVE TreeInv'
<1>1. /\ status = "fetch" /\ direction = "incoming" /\ Follow(prefetched) /\ status' = "visit"
      /\ UNCHANGED <<direction, max_depth, probes, prefetched, visited, fetched>>
      /\ prefetched \in Seq(Items) /\ fetched \in Seq([item : Items, calls : Seq(Items)])
  BY DEF UsePrefetched, TreeInv, TypeOK
<1>2. /\ DOMAIN tree' = DOMAIN tree
      /\ \A n \in DOMAIN tree : tree'[n].item = tree[n].item
      /\ \A n \in DOMAIN tree : Accounted(n) => Accounted(n)'
      /\ TypeOK' /\ VisitedIsTree' /\ RootFirst' /\ FramesExpanded' /\ FetchingLast'
      /\ ProbeFirst' /\ OneAccountPerItem' /\ DepthBound'
  BY <1>1, FollowInv
<1>3. AskedIsAccounted' /\ AnsweredOnce'
  BY <1>1, <1>2 DEF TreeInv, AskedIsAccounted, AnsweredOnce
<1> QED
  BY <1>2, <1>3 DEF TreeInv

LEMMA ReturnInv == ASSUME TreeInv, Return PROVE TreeInv'
<1>1. /\ status = "visit" /\ stack # <<>> /\ Top.todo = <<>> /\ stack' = Tail(stack)
      /\ status' \in {"visit", "done"}
      /\ UNCHANGED <<direction, max_depth, probes, prefetched, tree, visited, fetched>>
  BY DEF Return
<1>2. /\ stack \in Seq(Frames) /\ stack' \in Seq(Frames)
      /\ \A k \in DOMAIN stack' : k + 1 \in DOMAIN stack /\ stack'[k] = stack[k + 1]
  <2>1. stack \in Seq(Frames)
    BY DEF TreeInv, TypeOK, Frames
  <2> QED
    BY <1>1, <2>1, TailFacts
<1>3. TypeOK'
  BY <1>1, <1>2 DEF TreeInv, TypeOK, Frames
<1>4. tree # <<>>
  <2>1. BaseFrame.todo # <<>>
    BY DEF BaseFrame
  <2> QED
    BY <1>1, <2>1 DEF TreeInv, RootFirst, Top
<1>5. /\ VisitedIsTree' /\ RootFirst' /\ FetchingLast' /\ ProbeFirst' /\ OneAccountPerItem'
      /\ DepthBound' /\ AnsweredOnce' /\ AskedIsAccounted'
  BY <1>1, <1>4
  DEF TreeInv, VisitedIsTree, RootFirst, FetchingLast, ProbeFirst, OneAccountPerItem,
      DepthBound, AnsweredOnce, AskedIsAccounted, Accounted
<1>6. FramesExpanded'
  BY <1>1, <1>2 DEF TreeInv, FramesExpanded
<1> QED
  BY <1>3, <1>5, <1>6 DEF TreeInv

\* The steps that only change the status and the probes.
LEMMA StatusInv ==
    ASSUME TreeInv,
           ProbeFails \/ ProbeTimesOut \/ SnippetThrows \/ FetchThrows \/ UNCHANGED vars
    PROVE  TreeInv'
<1>1. /\ UNCHANGED <<direction, max_depth, tree, stack, visited, fetched>>
      /\ probes' \in Nat /\ prefetched' \in Seq(Items)
      /\ status' \in {"probe", "visit", "fetch", "done", "failed"}
      /\ status' \in {"probe", "fetch"} => status' = status
  <2>1. TypeOK /\ NoAnswer \in Seq(Items)
    BY DEF TreeInv, NoAnswer
  <2>2. CASE ProbeFails
    BY <2>1, <2>2 DEF ProbeFails, TypeOK
  <2>3. CASE ProbeTimesOut
    BY <2>1, <2>3 DEF ProbeTimesOut, TypeOK
  <2>4. CASE SnippetThrows \/ FetchThrows
    BY <2>1, <2>4 DEF SnippetThrows, FetchThrows, TypeOK
  <2>5. CASE UNCHANGED vars
    BY <2>1, <2>5 DEF vars, TypeOK
  <2> QED
    BY <2>2, <2>3, <2>4, <2>5
<1> QED
  BY <1>1, QuietInv

\* The tree, the items seen and asked about, and the loops in progress agree in
\* every state a traversal reaches.
THEOREM TreeInvariant == Spec => []TreeInv
<1>1. TreeInv /\ [Next]_vars => TreeInv'
  BY ProbeAnsweredInv, EnterInv, FetchInv, UsePrefetchedInv, ReturnInv, StatusInv
  DEF Next, Over
<1> QED
  BY <1>1, InitInv, PTL DEF Spec

\* However the server describes the call graph, the walk (expand_*_node) puts no
\* question about an item that has been answered about, nor in an incoming
\* expansion about the root, and no item is answered about twice.  How often the
\* probes ask about the root is not said: they repeat it until it is answered.
THEOREM AskedOnce == Spec => []FetchedOnce
<1>1. TreeInv => FetchedOnce
  BY AskedAnewInState DEF TreeInv, FetchedOnce
<1> QED
  BY <1>1, TreeInvariant, PTL

\* In the tree each item is accounted for by its first node and by no other.
THEOREM AccountedOnce == Spec => []OneAccountPerItem
BY TreeInvariant, PTL DEF TreeInv

\* Whatever integer max_depth is, no node but the root lies deeper, and none at
\* it or below is expanded (expand_*_node test the depth before they go on).
THEOREM DepthBounded == Spec => []DepthBound
BY TreeInvariant, PTL DEF TreeInv

-----------------------------------------------------------------------------
(* What the tree has of the answers.  A loop has turned the first calls of   *)
(* its answer into the children of its node, in order, and has the rest of   *)
(* them before it; the loops in progress are those of a chain of nodes, so    *)
(* the step of one changes nothing for the others.                          *)

\* Nodes of loops in progress increase towards the innermost.
Ordered == \A j, k \in DOMAIN stack : j < k => stack[k].node < stack[j].node

OneRoot ==
    /\ \A n \in DOMAIN tree : tree[n].parent = 0 <=> n = 1
    /\ tree # <<>> => \A k \in DOMAIN stack : stack[k].node = 0 => stack[k].todo = <<>>

ParentsExpanded ==
    \A n \in DOMAIN tree : tree[n].parent # 0 => tree[tree[n].parent].stop = "none"

StopsMeant ==
    /\ \A n \in DOMAIN tree : tree[n].stop = "no-path" => tree[n].item \in Pathless
    /\ \A n \in DOMAIN tree : tree[n].stop = "external-or-library" => tree[n].item \in External
    /\ \A i \in visited :
         \E n \in DOMAIN tree : tree[n].item = i /\ tree[n].stop # "already-visited"

FanBound == \A f \in DOMAIN fetched : Len(fetched[f].calls) <= MaxFan

Prefetched ==
    /\ prefetched # <<>> => fetched # <<>>
    /\ direction = "incoming" /\ fetched # <<>> =>
         \E f \in DOMAIN fetched : fetched[f].item = Root /\ fetched[f].calls = prefetched

\* The children of a node, then the rest of its loop, are the calls.
Unfolds(n, calls, rest) ==
    /\ Len(calls) = Cardinality(ChildrenOf(n)) + Len(rest)
    /\ \A m \in ChildrenOf(n) : tree[m].item = calls[Place(m)]
    /\ \A j \in DOMAIN rest : rest[j] = calls[Cardinality(ChildrenOf(n)) + j]

AnswerFor(n, rest) ==
    \E f \in DOMAIN fetched :
        fetched[f].item = tree[n].item /\ Unfolds(n, fetched[f].calls, rest)

Running ==
    \A k \in DOMAIN stack : stack[k].node # 0 => AnswerFor(stack[k].node, stack[k].todo)

Unasked(n) == n = Len(tree) /\ status \in {"fetch", "failed"}

Finished ==
    \A n \in Expanded :
        Unasked(n) \/ (\E k \in DOMAIN stack : stack[k].node = n) \/ AnswerFor(n, <<>>)

Leaves ==
    \A n \in DOMAIN tree : tree[n].stop = "leaf" =>
        \/ \E f \in DOMAIN fetched : fetched[f].item = tree[n].item /\ fetched[f].calls = <<>>
        \/ n = 1 /\ direction = "incoming" /\ fetched = <<>>

\* Every call of every answer is visited or on its way to be.
OnTodo(i) == \E s \in DOMAIN stack : \E t \in DOMAIN stack[s].todo : stack[s].todo[t] = i

PrefetchWaits ==
    /\ direction = "incoming" /\ Len(tree) <= 1
    /\ Len(tree) = 1 => tree[1].stop \notin {"none", "leaf"} \/ status = "fetch"

Heard ==
    \A f \in DOMAIN fetched : \A k \in DOMAIN fetched[f].calls :
        \/ fetched[f].calls[k] \in visited
        \/ OnTodo(fetched[f].calls[k])
        \/ PrefetchWaits /\ \E t \in DOMAIN prefetched : prefetched[t] = fetched[f].calls[k]

Rested == status = "done" => stack = <<>>

AnswersInv ==
    /\ Rested /\ Ordered /\ OneRoot /\ ParentsExpanded /\ StopsMeant /\ FanBound /\ Prefetched
    /\ Running /\ Finished /\ Leaves /\ Heard

-----------------------------------------------------------------------------
(* Children and their places.                                              *)

LEMMA TreeFacts ==
    ASSUME TypeOK, NEW N \in Nat, N = Len(tree)
    PROVE  /\ tree \in Seq(Nodes) /\ DOMAIN tree = 1 .. N
           /\ \A n \in DOMAIN tree : tree[n] \in Nodes /\ tree[n].parent \in Nat
                                     /\ tree[n].parent < n
           /\ stack \in Seq(Frames)
           /\ \A k \in DOMAIN stack : /\ stack[k] \in Frames /\ stack[k].node \in Nat
                                      /\ stack[k].node <= N /\ stack[k].todo \in Seq(Items)
           /\ fetched \in Seq([item : Items, calls : Seq(Items)])
           /\ \A f \in DOMAIN fetched : fetched[f].item \in Items /\ fetched[f].calls \in Seq(Items)
<1>1. tree \in Seq(Nodes) /\ DOMAIN tree = 1 .. N /\ stack \in Seq(Frames)
  BY DEF TypeOK, Nodes, Frames
<1>2. \A n \in DOMAIN tree : tree[n] \in Nodes /\ tree[n].parent \in Nat
  <2>1. \A n \in DOMAIN tree : tree[n] \in Nodes
    BY <1>1
  <2> QED
    BY <2>1 DEF Nodes
<1>3. \A n \in DOMAIN tree : tree[n].parent < n
  BY DEF TypeOK
<1>4. \A k \in DOMAIN stack : /\ stack[k] \in Frames /\ stack[k].node \in Nat
                              /\ stack[k].todo \in Seq(Items)
  <2>1. \A k \in DOMAIN stack : stack[k] \in Frames
    BY <1>1
  <2> QED
    BY <2>1 DEF Frames
<1>5. \A k \in DOMAIN stack : stack[k].node <= N
  BY DEF TypeOK
<1>6. /\ fetched \in Seq([item : Items, calls : Seq(Items)])
      /\ \A f \in DOMAIN fetched : fetched[f].item \in Items /\ fetched[f].calls \in Seq(Items)
  <2>1. fetched \in Seq([item : Items, calls : Seq(Items)])
    BY DEF TypeOK
  <2>2. ASSUME NEW f \in DOMAIN fetched
        PROVE  fetched[f].item \in Items /\ fetched[f].calls \in Seq(Items)
    <3>1. fetched[f] \in [item : Items, calls : Seq(Items)]
      <4> DEFINE Records == [item : Items, calls : Seq(Items)]
      <4>1. fetched \in Seq(Records)
        BY <2>1
      <4> HIDE DEF Records
      <4>2. fetched[f] \in Records
        BY <4>1
      <4> QED
        BY <4>2 DEF Records
    <3> QED
      BY <3>1
  <2> QED
    BY <2>1, <2>2
<1> QED
  BY <1>1, <1>2, <1>3, <1>4, <1>5, <1>6

LEMMA ChildFacts ==
    ASSUME TypeOK, NEW n
    PROVE  /\ IsFiniteSet(ChildrenOf(n)) /\ Cardinality(ChildrenOf(n)) \in Nat
           /\ ChildrenOf(n) \subseteq DOMAIN tree /\ ChildrenOf(n) \subseteq Nat
           /\ \A m \in ChildrenOf(n) : Place(m) \in 1 .. Cardinality(ChildrenOf(n))
<1>1. PICK N \in Nat : N = Len(tree)
  BY DEF TypeOK
<1>2. ChildrenOf(n) \subseteq 1 .. N
  BY <1>1, TreeFacts DEF ChildrenOf
<1>3. IsFiniteSet(ChildrenOf(n)) /\ Cardinality(ChildrenOf(n)) \in Nat
  <2>1. IsFiniteSet(1 .. N)
    BY FS_Interval
  <2> QED
    BY <1>2, <2>1, FS_Subset, FS_CardinalityType
<1>4. ASSUME NEW m \in ChildrenOf(n) PROVE Place(m) \in 1 .. Cardinality(ChildrenOf(n))
  <2> DEFINE upTo == {k \in ChildrenOf(n) : k <= m}
  <2>1. Place(m) = Cardinality(upTo)
    BY DEF Place, ChildrenOf
  <2>2. m \in upTo /\ upTo \subseteq ChildrenOf(n)
    BY <1>2
  <2> HIDE DEF upTo
  <2>3. /\ IsFiniteSet(upTo) /\ Cardinality(upTo) \in Nat
        /\ Cardinality(upTo) <= Cardinality(ChildrenOf(n))
    BY <1>3, <2>2, FS_Subset, FS_CardinalityType
  <2>4. Cardinality(upTo) # 0
    BY <2>2, <2>3, FS_EmptySet
  <2> QED
    BY <1>3, <2>1, <2>3, <2>4
<1> QED
  BY <1>1, <1>2, <1>3, <1>4, TreeFacts

\* An answer stays one while its node gets no child and the history grows.
LEMMA AnswerKept ==
    ASSUME NEW n, NEW rest, AnswerFor(n, rest), ChildrenOf(n)' = ChildrenOf(n),
           tree'[n].item = tree[n].item,
           \A m \in ChildrenOf(n) : tree'[m].item = tree[m].item /\ tree'[m].parent = n,
           \A f \in DOMAIN fetched : f \in DOMAIN fetched' /\ fetched'[f] = fetched[f]
    PROVE  AnswerFor(n, rest)'
<1>1. PICK f \in DOMAIN fetched :
         fetched[f].item = tree[n].item /\ Unfolds(n, fetched[f].calls, rest)
  BY DEF AnswerFor
<1>2. PICK calls : calls = fetched[f].calls
  OBVIOUS
<1>3. \A m \in ChildrenOf(n) : Place(m)' = Place(m)
  BY DEF Place, ChildrenOf
<1>4. Unfolds(n, calls, rest)'
  BY <1>1, <1>2, <1>3 DEF Unfolds
<1> QED
  BY <1>1, <1>2, <1>4 DEF AnswerFor

LEMMA InitAnswers == Init => AnswersInv
<1> SUFFICES ASSUME Init PROVE AnswersInv
  OBVIOUS
<1>1. /\ DOMAIN tree = {} /\ tree = <<>> /\ Len(tree) = 0 /\ DOMAIN fetched = {}
      /\ prefetched = <<>> /\ visited = {} /\ fetched = <<>>
      /\ DOMAIN stack = {1} /\ stack[1].node = 0
  BY DEF Init, NoAnswer
<1> QED
  BY <1>1
  DEF Init, AnswersInv, Rested, Ordered, OneRoot, ParentsExpanded, StopsMeant, FanBound,
      Prefetched, Running, Finished, Expanded, Leaves, Heard

\* Steps that leave tree, loops and answers alone.
LEMMA QuietAnswers ==
    ASSUME TreeInv, AnswersInv, UNCHANGED <<direction, max_depth, tree, stack, visited, fetched, prefetched>>,
           status \in {"fetch", "failed"} => status' = status \/ status' = "failed",
           status' = "done" => status = "done",
           status = "fetch" /\ status' # "fetch" => direction = "outgoing" \/ Len(tree) > 1
    PROVE  AnswersInv'
<1>1. \A n, rest : AnswerFor(n, rest)' <=> AnswerFor(n, rest)
  BY DEF AnswerFor, Unfolds, ChildrenOf, Place
<1>2. /\ Rested' /\ Ordered' /\ OneRoot' /\ ParentsExpanded' /\ StopsMeant' /\ FanBound'
      /\ Prefetched'
  BY DEF AnswersInv, Rested, Ordered, OneRoot, ParentsExpanded, StopsMeant, FanBound, Prefetched
<1>3. Running' /\ Finished' /\ Leaves'
  BY <1>1 DEF AnswersInv, Running, Finished, Expanded, Unasked, Leaves
<1>4. Heard'
  <2>1. PrefetchWaits => PrefetchWaits'
    <3>1. Len(tree) \in Nat
      BY DEF TreeInv, TypeOK
    <3> QED
      BY <3>1 DEF PrefetchWaits
  <2>2. \A i : OnTodo(i)' <=> OnTodo(i)
    BY DEF OnTodo
  <2> QED
    BY <2>1, <2>2 DEF AnswersInv, Heard
<1> QED
  BY <1>2, <1>3, <1>4 DEF AnswersInv

LEMMA ProbeAnswers ==
    ASSUME TreeInv, AnswersInv, ProbeAnswered \/ ProbeTimesOut
    PROVE  AnswersInv'
<1>1. /\ direction = "incoming" /\ tree = <<>> /\ fetched = <<>> /\ DOMAIN tree = {}
      /\ status = "probe" /\ status' = "visit" /\ UNCHANGED <<direction, max_depth, tree, stack, visited>>
      /\ Len(tree) = 0
  BY DEF TreeInv, ProbeFirst, ProbeAnswered, ProbeTimesOut
<1>2. Rested' /\ Ordered' /\ OneRoot' /\ ParentsExpanded' /\ StopsMeant'
  BY <1>1 DEF AnswersInv, Rested, Ordered, OneRoot, ParentsExpanded, StopsMeant
<1>3. Running' /\ Finished' /\ Leaves'
  <2>1. \A k \in DOMAIN stack : stack[k].node = 0
    BY <1>1 DEF TreeInv, FramesExpanded
  <2> QED
    BY <1>1, <2>1 DEF Running, Finished, Expanded, Leaves
<1>4. FanBound' /\ Prefetched' /\ Heard'
  <2>1. CASE ProbeTimesOut
    <3>1. fetched' = <<>> /\ prefetched' = <<>> /\ DOMAIN fetched' = {}
      BY <1>1, <2>1 DEF ProbeTimesOut, NoAnswer
    <3> QED
      BY <3>1 DEF FanBound, Prefetched, Heard
  <2>2. CASE ProbeAnswered
    <3>1. PICK calls \in Answers :
            /\ prefetched' = calls
            /\ fetched' = Append(fetched, [item |-> Root, calls |-> calls])
      BY <2>2 DEF ProbeAnswered
    <3>2. fetched' = <<[item |-> Root, calls |-> calls]>>
      BY <1>1, <3>1
    <3>3. /\ DOMAIN fetched' = {1} /\ fetched'[1].item = Root /\ fetched'[1].calls = calls
          /\ fetched' # <<>>
      BY <3>2
    <3>4. Len(calls) <= MaxFan
      <4>1. PICK n \in 0 .. MaxFan : calls \in [1 .. n -> Items]
        BY DEF Answers
      <4>2. Len(calls) = n
        BY <4>1
      <4> QED
        BY <4>1, <4>2, LimitsAssumption
    <3>5. PrefetchWaits'
      BY <1>1 DEF PrefetchWaits
    <3> QED
      BY <3>1, <3>3, <3>4, <3>5 DEF FanBound, Prefetched, Heard
  <2> QED
    BY <2>1, <2>2
<1> QED
  BY <1>2, <1>3, <1>4 DEF AnswersInv

LEMMA ReturnAnswers == ASSUME TreeInv, AnswersInv, Return PROVE AnswersInv'
<1>1. /\ status = "visit" /\ stack # <<>> /\ stack[1].todo = <<>> /\ stack' = Tail(stack)
      /\ status' = IF Len(stack) = 1 THEN "done" ELSE "visit"
      /\ UNCHANGED <<direction, max_depth, probes, prefetched, tree, visited, fetched>>
  BY DEF Return, Top
<1>2. /\ 1 \in DOMAIN stack
      /\ \A k \in DOMAIN stack' : k \in Nat /\ k + 1 \in DOMAIN stack /\ stack'[k] = stack[k + 1]
      /\ \A k \in DOMAIN stack : k # 1 => k - 1 \in DOMAIN stack' /\ stack'[k - 1] = stack[k]
      /\ Len(stack) = 1 => stack' = <<>>
  <2>1. stack \in Seq(Frames)
    BY DEF TreeInv, TypeOK, Frames
  <2> QED
    BY <1>1, <2>1, TailFacts
<1>3. Ordered' /\ Rested'
  <2>1. ASSUME NEW j \in DOMAIN stack', NEW k \in DOMAIN stack', j < k
        PROVE  stack'[k].node < stack'[j].node
    <3>1. j + 1 \in DOMAIN stack /\ k + 1 \in DOMAIN stack /\ j + 1 < k + 1
      BY <1>2, <2>1
    <3>2. stack[k + 1].node < stack[j + 1].node
      BY <3>1 DEF AnswersInv, Ordered
    <3> QED
      BY <1>2, <3>2
  <2>2. Rested'
    BY <1>1, <1>2 DEF Rested
  <2> QED
    BY <2>1, <2>2 DEF Ordered
<1>4. OneRoot' /\ ParentsExpanded' /\ StopsMeant' /\ FanBound' /\ Prefetched' /\ Leaves'
  BY <1>1, <1>2
  DEF AnswersInv, OneRoot, ParentsExpanded, StopsMeant, FanBound, Prefetched, Leaves
<1>5. \A n, rest : AnswerFor(n, rest)' <=> AnswerFor(n, rest)
  BY <1>1 DEF AnswerFor, Unfolds, ChildrenOf, Place
<1>6. Running'
  BY <1>2, <1>5 DEF AnswersInv, Running
<1>7. Finished'
  <2> SUFFICES ASSUME NEW n \in Expanded, \A k \in DOMAIN stack' : stack'[k].node # n
               PROVE  AnswerFor(n, <<>>)
    BY <1>1, <1>5 DEF Finished, Expanded
  <2>1. CASE stack[1].node = n
    <3>1. n # 0
      BY DEF Expanded, TreeInv, TypeOK
    <3> QED
      BY <1>1, <1>2, <2>1, <3>1 DEF AnswersInv, Running
  <2>2. CASE stack[1].node # n
    <3>1. \A k \in DOMAIN stack : stack[k].node # n
      BY <1>2, <2>2
    <3> QED
      BY <1>1, <3>1 DEF AnswersInv, Finished, Unasked
  <2> QED
    BY <2>1, <2>2
<1>8. Heard'
  <2>1. ASSUME NEW i, OnTodo(i) PROVE OnTodo(i)'
    <3>1. PICK k \in DOMAIN stack : \E t \in DOMAIN stack[k].todo : stack[k].todo[t] = i
      BY <2>1 DEF OnTodo
    <3>2. k # 1
      BY <1>1, <3>1
    <3>3. k - 1 \in DOMAIN stack' /\ stack'[k - 1] = stack[k]
      BY <1>2, <3>2
    <3> QED
      BY <3>1, <3>3 DEF OnTodo
  <2>2. PrefetchWaits' <=> PrefetchWaits
    BY <1>1 DEF PrefetchWaits
  <2> QED
    BY <1>1, <2>1, <2>2 DEF AnswersInv, Heard
<1> QED
  BY <1>3, <1>4, <1>6, <1>7, <1>8 DEF AnswersInv

-----------------------------------------------------------------------------
(* Entering a node.                                                        *)

LEMMA EnterAnswers == ASSUME TreeInv, AnswersInv, Enter PROVE AnswersInv'
<1>p. PICK p, rest, calling : p = Top.node /\ rest = Tail(Top.todo) /\ calling = Top.todo
  OBVIOUS
<1>n. PICK N \in Nat : N = Len(tree)
  BY DEF TreeInv, TypeOK
<1>1. /\ status = "visit" /\ visited' = visited \cup {TheCall}
      /\ status' = IF Reason = "none" THEN "fetch" ELSE "visit"
      /\ UNCHANGED <<direction, max_depth, probes, prefetched, fetched>>
  BY <1>n, EnterShape
<1>2. /\ p = stack[1].node /\ calling = stack[1].todo /\ 1 \in DOMAIN stack
      /\ DOMAIN stack' = DOMAIN stack /\ stack'[1].node = p /\ stack'[1].todo = rest
      /\ \A k \in DOMAIN stack : k # 1 => stack'[k] = stack[k]
      /\ \A k \in DOMAIN stack : stack[k].node \in Nat /\ stack[k].node <= N
      /\ DOMAIN stack \subseteq Nat \ {0}
  <2>1. /\ Top = stack[1] /\ stack'[1] = NewTop /\ 1 \in DOMAIN stack
        /\ DOMAIN stack' = DOMAIN stack
        /\ \A k \in DOMAIN stack' : k # 1 => stack'[k] = stack[k]
        /\ \A k \in DOMAIN stack : stack[k].node \in Nat /\ stack[k].node <= N
        /\ stack \in Seq(Frames)
    BY <1>n, EnterShape
  <2>2. stack'[1].node = p /\ stack'[1].todo = rest
    BY <1>p, <2>1 DEF NewTop
  <2>3. DOMAIN stack \subseteq Nat \ {0}
    BY <2>1
  <2> QED
    BY <1>p, <2>1, <2>2, <2>3
<1>3. /\ DOMAIN tree = 1 .. N /\ DOMAIN tree' = 1 .. N + 1 /\ Len(tree') = N + 1
      /\ \A n \in 1 .. N : tree'[n] = tree[n]
      /\ tree'[N + 1].item = TheCall /\ tree'[N + 1].parent = p /\ tree'[N + 1].stop = Reason
  BY <1>p, <1>n, EnterShape DEF NewNode
<1>4. \A n \in 1 .. N : tree[n].parent \in Nat /\ tree[n].parent < n
  <2>1. TypeOK
    BY DEF TreeInv
  <2> QED
    BY <1>n, <1>3, <2>1, TreeFacts
<1>5. p \in Nat /\ p <= N /\ (p # 0 => p \in 1 .. N /\ tree[p].stop = "none")
  BY <1>2, <1>3 DEF TreeInv, FramesExpanded
<1>6. /\ calling \in Seq(Items) /\ calling # <<>>
      /\ rest \in Seq(Items) /\ Len(calling) \in Nat /\ Len(calling) = Len(rest) + 1
      /\ calling[1] = TheCall /\ 1 \in DOMAIN calling
      /\ DOMAIN rest = 1 .. Len(rest) /\ Len(rest) \in Nat
      /\ \A j \in DOMAIN rest : j + 1 \in DOMAIN calling /\ rest[j] = calling[j + 1]
      /\ \A j \in DOMAIN calling : j # 1 => j - 1 \in DOMAIN rest /\ rest[j - 1] = calling[j]
  <2>1. calling \in Seq(Items) /\ calling # <<>> /\ rest = Tail(calling) /\ TheCall = Head(calling)
    BY <1>p, <1>n, EnterShape DEF TheCall
  <2>2. /\ rest \in Seq(Items) /\ Len(calling) \in Nat \ {0} /\ Len(rest) = Len(calling) - 1
        /\ Head(calling) = calling[1]
        /\ \A n \in 1 .. Len(calling) - 1 : rest[n] = calling[n + 1]
    BY <2>1, TailFacts
  <2>3. DOMAIN rest = 1 .. Len(rest) /\ DOMAIN calling = 1 .. Len(calling)
    BY <2>1, <2>2
  <2> QED
    BY <2>1, <2>2, <2>3
<1>7. (p = 0 <=> tree = <<>>) /\ (p = 0 <=> N = 0)
  <2>1. tree = <<>> <=> N = 0
    BY <1>n, <1>3
  <2>2. N = 0 => p = 0
    BY <1>5
  <2>3. p = 0 => tree = <<>>
    BY <1>2, <1>6 DEF AnswersInv, OneRoot
  <2> QED
    BY <2>1, <2>2, <2>3
<1>8. Ordered' /\ Rested'
  <2>1. DOMAIN stack' = DOMAIN stack /\ \A k \in DOMAIN stack : stack'[k].node = stack[k].node
    BY <1>2
  <2> QED
    BY <1>1, <2>1 DEF AnswersInv, Ordered, Rested
<1>9. OneRoot'
  <2>1. \A n \in 1 .. N + 1 : tree'[n].parent = 0 <=> n = 1
    BY <1>3, <1>7, <1>n DEF AnswersInv, OneRoot
  <2>2. ASSUME NEW k \in DOMAIN stack', stack'[k].node = 0 PROVE stack'[k].todo = <<>>
    <3>1. CASE N = 0
      <4>1. stack = <<BaseFrame>>
        BY <1>7, <3>1 DEF TreeInv, RootFirst
      <4>2. stack[1].todo = <<Root>> /\ DOMAIN stack = {1}
        BY <4>1 DEF BaseFrame
      <4>3. k = 1 /\ Len(calling) = 1
        BY <1>2, <4>2
      <4>4. Len(rest) = 0
        BY <1>6, <4>3
      <4> QED
        BY <1>2, <1>6, <4>3, <4>4
    <3>2. CASE N # 0
      <4>1. k # 1
        BY <1>2, <1>7, <2>2, <3>2
      <4> QED
        BY <1>2, <1>7, <2>2, <3>2, <4>1 DEF AnswersInv, OneRoot
    <3> QED
      BY <3>1, <3>2
  <2> QED
    BY <1>3, <2>1, <2>2 DEF OneRoot
<1>10. ParentsExpanded'
  BY <1>3, <1>4, <1>5 DEF AnswersInv, ParentsExpanded
<1>11. StopsMeant'
  <2>1. /\ Reason = "no-path" => TheCall \in Pathless
        /\ Reason = "external-or-library" => TheCall \in External
        /\ Reason = "already-visited" <=> TheCall \in visited
    BY <1>n, EnterShape DEF Reason, StopReason
  <2>2. \A i \in visited' :
           \E n \in DOMAIN tree' : tree'[n].item = i /\ tree'[n].stop # "already-visited"
    <3>1. ASSUME NEW i \in visited
          PROVE  \E n \in DOMAIN tree' : tree'[n].item = i /\ tree'[n].stop # "already-visited"
      BY <1>3, <3>1 DEF AnswersInv, StopsMeant
    <3>2. TheCall \in visited \/
            (tree'[N + 1].item = TheCall /\ tree'[N + 1].stop # "already-visited")
      BY <1>3, <2>1
    <3> QED
      BY <1>1, <1>3, <3>1, <3>2
  <2> QED
    BY <1>3, <2>1, <2>2 DEF AnswersInv, StopsMeant
<1>12. FanBound' /\ Prefetched'
  BY <1>1 DEF AnswersInv, FanBound, Prefetched
\* The new node is a child of the innermost loop's, and of no other.
<1>13. /\ \A q : q # p => ChildrenOf(q)' = ChildrenOf(q)
       /\ ChildrenOf(p)' = ChildrenOf(p) \cup {N + 1}
       /\ ChildrenOf(N + 1) = {}
  BY <1>3, <1>4 DEF ChildrenOf
<1>14. ASSUME NEW n \in 1 .. N, NEW todo, n # p, AnswerFor(n, todo) PROVE AnswerFor(n, todo)'
  <2>1. \A m \in ChildrenOf(n) : tree'[m].item = tree[m].item /\ tree'[m].parent = n
    BY <1>3 DEF ChildrenOf
  <2> QED
    BY <1>1, <1>3, <1>13, <1>14, <2>1, AnswerKept
<1>15. p # 0 => AnswerFor(p, rest)'
  <2> SUFFICES ASSUME p # 0 PROVE AnswerFor(p, rest)'
    OBVIOUS
  <2>1. PICK f \in DOMAIN fetched :
          fetched[f].item = tree[p].item /\ Unfolds(p, fetched[f].calls, calling)
    BY <1>2 DEF AnswersInv, Running, AnswerFor
  <2>2. PICK calls, todo : calls = fetched[f].calls /\ todo = calling
    OBVIOUS
  <2>3. PICK c \in Nat : c = Cardinality(ChildrenOf(p))
    BY ChildFacts DEF TreeInv
  <2>4. /\ Len(calls) = c + Len(todo)
        /\ \A m \in ChildrenOf(p) : tree[m].item = calls[Place(m)]
        /\ \A j \in DOMAIN todo : todo[j] = calls[c + j]
    BY <2>1, <2>2, <2>3 DEF Unfolds
  <2>5. /\ IsFiniteSet(ChildrenOf(p)) /\ ChildrenOf(p) \subseteq 1 .. N
    BY <1>3, ChildFacts DEF TreeInv
  <2>6. Cardinality(ChildrenOf(p)') = c + 1
    <3>1. N + 1 \notin ChildrenOf(p)
      BY <2>5
    <3>2. Cardinality(ChildrenOf(p) \cup {N + 1}) = Cardinality(ChildrenOf(p)) + 1
      BY <2>5, <3>1, FS_AddElement
    <3> QED
      BY <1>13, <2>3, <3>2
  <2>7. ASSUME NEW m \in ChildrenOf(p) PROVE Place(m)' = Place(m) /\ tree'[m] = tree[m]
    <3>1. tree'[m] = tree[m] /\ tree[m].parent = p
      BY <1>3, <2>5 DEF ChildrenOf
    <3>2. {k \in ChildrenOf(p)' : k <= m} = {k \in ChildrenOf(p) : k <= m}
      BY <1>13, <2>5
    <3> QED
      BY <3>1, <3>2 DEF Place
  <2>8. Place(N + 1)' = c + 1
    <3>1. {k \in ChildrenOf(p)' : k <= N + 1} = ChildrenOf(p)'
      BY <1>13, <2>5
    <3> QED
      BY <1>3, <2>6, <3>1 DEF Place
  <2>9. \A m \in ChildrenOf(p)' : tree'[m].item = calls[Place(m)']
    BY <1>3, <1>6, <1>13, <2>2, <2>4, <2>7, <2>8
  <2>10. ASSUME NEW j \in DOMAIN rest PROVE rest[j] = calls[(c + 1) + j]
    <3>1. j + 1 \in DOMAIN todo /\ rest[j] = todo[j + 1] /\ j \in Nat
      BY <1>6, <2>2
    <3>2. c + (j + 1) = (c + 1) + j
      BY <3>1
    <3> QED
      BY <2>4, <3>1, <3>2
  <2>11. Len(calls) = (c + 1) + Len(rest)
    BY <1>6, <2>2, <2>4
  <2>12. Unfolds(p, calls, rest)'
    BY <2>6, <2>9, <2>10, <2>11 DEF Unfolds
  <2> QED
    BY <1>1, <1>3, <1>5, <2>1, <2>2, <2>12 DEF AnswerFor
<1>16. Running'
  <2>1. ASSUME NEW k \in DOMAIN stack, stack[k].node # 0, k # 1
        PROVE  AnswerFor(stack[k].node, stack[k].todo)'
    <3>1. PICK n, todo : n = stack[k].node /\ todo = stack[k].todo
      OBVIOUS
    <3>2. stack'[k].node = n /\ stack'[k].todo = todo /\ n \in 1 .. N
      BY <1>2, <2>1, <3>1
    <3>3. k > 1
      BY <1>2, <2>1
    <3>4. n # p
      <4>1. stack[k].node < stack[1].node
        BY <1>2, <3>3 DEF AnswersInv, Ordered
      <4> QED
        BY <1>2, <3>1, <4>1
    <3>5. AnswerFor(n, todo)
      BY <2>1, <3>1 DEF AnswersInv, Running
    <3>6. AnswerFor(n, todo)'
      BY <1>14, <3>2, <3>4, <3>5
    <3> QED
      BY <3>2, <3>6
  <2>2. p # 0 => AnswerFor(stack[1].node, stack[1].todo)'
    BY <1>2, <1>15
  <2>3. ASSUME NEW k \in DOMAIN stack', stack'[k].node # 0
        PROVE  AnswerFor(stack[k].node, stack[k].todo)'
    <3>1. CASE k = 1
      BY <1>2, <2>2, <2>3, <3>1
    <3>2. CASE k # 1
      BY <1>2, <2>1, <2>3, <3>2
    <3> QED
      BY <3>1, <3>2
  <2> QED
    BY <2>3 DEF Running
<1>17. Finished'
  <2> SUFFICES ASSUME NEW n \in Expanded', ~ Unasked(n)',
                      \A k \in DOMAIN stack' : stack'[k].node # n
               PROVE  AnswerFor(n, <<>>)'
    BY DEF Finished
  <2>1. n # N + 1
    BY <1>1, <1>3 DEF Expanded, Unasked
  <2>2. n \in 1 .. N /\ n \in Expanded
    BY <1>3, <2>1 DEF Expanded
  <2>3. \A k \in DOMAIN stack : stack[k].node # n
    BY <1>2
  <2>4. AnswerFor(n, <<>>)
    BY <1>1, <2>2, <2>3 DEF AnswersInv, Finished, Unasked
  <2>5. n # p
    BY <1>2, <2>3
  <2> QED
    BY <1>14, <2>2, <2>4, <2>5
<1>18. Leaves'
  <2>1. Reason # "leaf"
    BY <1>n, EnterShape
  <2> QED
    BY <1>1, <1>3, <2>1 DEF AnswersInv, Leaves
<1>19. Heard'
  <2>1. ASSUME NEW i, OnTodo(i) PROVE i \in visited' \/ OnTodo(i)'
    <3>1. PICK k \in DOMAIN stack : \E t \in DOMAIN stack[k].todo : stack[k].todo[t] = i
      BY <2>1 DEF OnTodo
    <3>2. PICK t \in DOMAIN stack[k].todo : stack[k].todo[t] = i
      BY <3>1
    <3>3. CASE k # 1
      BY <1>2, <3>2, <3>3 DEF OnTodo
    <3>4. CASE k = 1 /\ t = 1
      BY <1>1, <1>2, <1>6, <3>2, <3>4
    <3>5. CASE k = 1 /\ t # 1
      <4>1. t - 1 \in DOMAIN rest /\ rest[t - 1] = i
        BY <1>2, <1>6, <3>2, <3>5
      <4> QED
        BY <1>2, <4>1 DEF OnTodo
    <3> QED
      BY <3>3, <3>4, <3>5
  <2>2. PrefetchWaits => PrefetchWaits'
    <3> SUFFICES ASSUME PrefetchWaits PROVE PrefetchWaits'
      OBVIOUS
    <3>1. N = 0
      <4> SUFFICES ASSUME N = 1 PROVE FALSE
        BY <1>n DEF PrefetchWaits
      <4>1. tree[1].stop \notin {"none", "leaf"}
        BY <1>1, <1>n DEF PrefetchWaits
      <4>2. p = 1
        BY <1>5, <1>7
      <4> QED
        BY <1>5, <4>1, <4>2
    <3>2. Reason \notin {"none", "leaf"} \/ status' = "fetch"
      BY <1>1, <1>n, EnterShape
    <3> QED
      BY <1>1, <1>3, <3>1, <3>2 DEF PrefetchWaits
  <2> QED
    BY <1>1, <2>1, <2>2 DEF AnswersInv, Heard
<1> QED
  BY <1>8, <1>9, <1>10, <1>11, <1>12, <1>16, <1>17, <1>18, <1>19 DEF AnswersInv

-----------------------------------------------------------------------------
(* Following an answer: the last node becomes a leaf, or its loop begins.     *)

LEMMA FollowShape ==
    ASSUME TreeInv, status = "fetch", NEW calls \in Seq(Items), Follow(calls),
           NEW N \in Nat, N = Len(tree)
    PROVE  /\ N > 0 /\ DOMAIN tree = 1 .. N /\ DOMAIN tree' = 1 .. N /\ Len(tree') = N
           /\ \A n \in 1 .. N : /\ tree'[n].item = tree[n].item
                                /\ tree'[n].parent = tree[n].parent
                                /\ n # N => tree'[n].stop = tree[n].stop
                                /\ tree[n].parent \in Nat /\ tree[n].parent < n
           /\ tree[N].stop = "none"
           /\ tree'[N].stop = IF calls = <<>> THEN "leaf" ELSE "none"
           /\ \A k \in DOMAIN stack : stack[k].node \in Nat /\ stack[k].node < N
           /\ DOMAIN stack \subseteq Nat \ {0} /\ DOMAIN stack' \subseteq Nat \ {0}
           /\ calls = <<>> => stack' = stack
           /\ calls # <<>> =>
                /\ 1 \in DOMAIN stack' /\ stack'[1].node = N /\ stack'[1].todo = calls
                /\ \A k \in DOMAIN stack' : k # 1 => k - 1 \in DOMAIN stack /\ stack'[k] = stack[k - 1]
                /\ \A k \in DOMAIN stack : k + 1 \in DOMAIN stack' /\ stack'[k + 1] = stack[k]
<1>n. N = Len(tree)
  OBVIOUS
<1>1. /\ tree \in Seq(Nodes) /\ N > 0 /\ DOMAIN tree = 1 .. N /\ N \in DOMAIN tree
      /\ stack \in Seq(Frames) /\ tree[N].stop = "none"
  BY <1>n, FetchFacts
<1>2. \A k \in DOMAIN stack : stack[k].node \in Nat /\ stack[k].node < N
  <2>1. \A k \in DOMAIN stack : stack[k].node \in Nat /\ stack[k].node <= N
    BY <1>n, TreeFacts DEF TreeInv
  <2>2. \A k \in DOMAIN stack : stack[k].node # N
    BY <1>n DEF TreeInv, FetchingLast
  <2> QED
    BY <2>1, <2>2
<1>3. \A n \in 1 .. N : tree[n] \in Nodes /\ tree[n].parent \in Nat /\ tree[n].parent < n
  BY <1>n, <1>1, TreeFacts DEF TreeInv
<1>4. DOMAIN stack \subseteq Nat \ {0}
  BY <1>1
<1>5. CASE calls = <<>>
  <2>1. tree' = [tree EXCEPT ![N].stop = "leaf"] /\ stack' = stack
    BY <1>5, <1>n DEF Follow
  <2>2. tree[N] \in Nodes /\ [tree[N] EXCEPT !.stop = "leaf"] \in Nodes
    <3>1. tree[N] \in Nodes
      BY <1>1, <1>3
    <3> QED
      BY <3>1 DEF Nodes, Stops
  <2>3. /\ tree' \in Seq(Nodes) /\ DOMAIN tree' = 1 .. N /\ Len(tree') = N
        /\ tree'[N] = [tree[N] EXCEPT !.stop = "leaf"]
        /\ \A n \in 1 .. N : n # N => tree'[n] = tree[n]
    <3> DEFINE leaf == [tree[N] EXCEPT !.stop = "leaf"]
    <3>1. tree' = [tree EXCEPT ![N] = leaf] /\ leaf \in Nodes
      BY <2>1, <2>2
    <3> HIDE DEF leaf
    <3>2. tree' \in Seq(Nodes) /\ Len(tree') = Len(tree) /\ DOMAIN tree' = DOMAIN tree
      BY <1>1, <3>1
    <3>3. tree'[N] = leaf /\ \A n \in 1 .. N : n # N => tree'[n] = tree[n]
      BY <1>1, <3>1
    <3> QED
      BY <1>1, <1>n, <3>2, <3>3 DEF leaf
  <2>4. /\ tree'[N].item = tree[N].item /\ tree'[N].parent = tree[N].parent
        /\ tree'[N].stop = "leaf"
    BY <1>1, <1>3, <2>3 DEF Nodes
  <2> QED
    BY <1>1, <1>2, <1>3, <1>4, <1>5, <2>1, <2>3, <2>4
<1>6. CASE calls # <<>>
  <2>1. tree' = tree /\ stack' = <<[node |-> N, todo |-> calls]>> \o stack
    BY <1>6, <1>n DEF Follow
  <2>2. [node |-> N, todo |-> calls] \in Frames
    BY DEF Frames
  <2>3. /\ stack' \in Seq(Frames) /\ Len(stack) \in Nat /\ Len(stack') = Len(stack) + 1
        /\ stack'[1] = [node |-> N, todo |-> calls]
        /\ \A k \in 2 .. Len(stack) + 1 : stack'[k] = stack[k - 1]
    BY <1>1, <2>1, <2>2, PushFacts
  <2>4. DOMAIN stack = 1 .. Len(stack) /\ DOMAIN stack' = 1 .. Len(stack) + 1
    BY <1>1, <2>3
  <2>5. /\ 1 \in DOMAIN stack' /\ stack'[1].node = N /\ stack'[1].todo = calls
        /\ DOMAIN stack' \subseteq Nat \ {0}
    BY <2>3, <2>4
  <2>6. \A k \in DOMAIN stack' : k # 1 => k - 1 \in DOMAIN stack /\ stack'[k] = stack[k - 1]
    BY <2>3, <2>4
  <2>7. ASSUME NEW k \in DOMAIN stack PROVE k + 1 \in DOMAIN stack' /\ stack'[k + 1] = stack[k]
    <3>1. k + 1 \in 2 .. Len(stack) + 1 /\ (k + 1) - 1 = k
      BY <2>3, <2>4
    <3> QED
      BY <2>3, <2>4, <3>1
  <2> QED
    BY <1>1, <1>2, <1>3, <1>4, <1>6, <1>n, <2>1, <2>5, <2>6, <2>7
<1> QED
  BY <1>5, <1>6

LEMMA FollowAnswers ==
    ASSUME TreeInv, AnswersInv, status = "fetch", NEW calls \in Seq(Items), Follow(calls),
           status' = "visit", UNCHANGED <<direction, max_depth, prefetched, visited>>,
           NEW N \in Nat, N = Len(tree),
           \A f \in DOMAIN fetched : f \in DOMAIN fetched' /\ fetched'[f] = fetched[f],
           \/ \E f \in DOMAIN fetched' : fetched'[f].item = tree[N].item /\ fetched'[f].calls = calls
           \/ calls = <<>> /\ N = 1 /\ direction = "incoming" /\ fetched' = <<>>,
           direction = "outgoing" \/ fetched # <<>> \/ fetched' = fetched
    PROVE  /\ Rested' /\ Ordered' /\ OneRoot' /\ ParentsExpanded' /\ StopsMeant'
           /\ Running' /\ Finished' /\ Leaves'
           /\ \A i : OnTodo(i) => OnTodo(i)'
           /\ \A t \in DOMAIN calls : OnTodo(calls[t])'
<1>1. /\ N > 0 /\ DOMAIN tree = 1 .. N /\ DOMAIN tree' = 1 .. N /\ Len(tree') = N
      /\ \A n \in 1 .. N : /\ tree'[n].item = tree[n].item
                           /\ tree'[n].parent = tree[n].parent
                           /\ n # N => tree'[n].stop = tree[n].stop
                           /\ tree[n].parent \in Nat /\ tree[n].parent < n
      /\ tree[N].stop = "none"
      /\ tree'[N].stop = IF calls = <<>> THEN "leaf" ELSE "none"
      /\ \A k \in DOMAIN stack : stack[k].node \in Nat /\ stack[k].node < N
      /\ DOMAIN stack \subseteq Nat \ {0} /\ DOMAIN stack' \subseteq Nat \ {0}
  BY FollowShape
<1>2. calls = <<>> => stack' = stack
  BY FollowShape
<1>3. calls # <<>> =>
        /\ 1 \in DOMAIN stack' /\ stack'[1].node = N /\ stack'[1].todo = calls
        /\ \A k \in DOMAIN stack' : k # 1 => k - 1 \in DOMAIN stack /\ stack'[k] = stack[k - 1]
        /\ \A k \in DOMAIN stack : k + 1 \in DOMAIN stack' /\ stack'[k + 1] = stack[k]
  BY FollowShape
<1>4. tree # <<>> /\ N = Len(tree) /\ fetched \in Seq([item : Items, calls : Seq(Items)])
  BY DEF TreeInv, FetchingLast, TypeOK
\* The loops there were are those of other nodes.
<1>5. /\ \A k \in DOMAIN stack : \E j \in DOMAIN stack' : stack'[j] = stack[k]
      /\ \A k \in DOMAIN stack' :
           \/ calls # <<>> /\ k = 1
           \/ \E j \in DOMAIN stack : stack'[k] = stack[j]
  BY <1>2, <1>3
<1>6. Ordered' /\ Rested'
  <2>1. CASE calls = <<>>
    BY <1>2, <2>1 DEF AnswersInv, Ordered, Rested
  <2>2. ASSUME calls # <<>>, NEW j \in DOMAIN stack', NEW k \in DOMAIN stack', j < k
        PROVE  stack'[k].node < stack'[j].node
    <3>1. k # 1 /\ k - 1 \in DOMAIN stack /\ stack'[k] = stack[k - 1]
      BY <1>1, <1>3, <2>2
    <3>2. CASE j = 1
      BY <1>1, <1>3, <2>2, <3>1, <3>2
    <3>3. CASE j # 1
      <4>1. j - 1 \in DOMAIN stack /\ stack'[j] = stack[j - 1] /\ j - 1 < k - 1
        BY <1>1, <1>3, <2>2, <3>3
      <4> QED
        BY <3>1, <4>1 DEF AnswersInv, Ordered
    <3> QED
      BY <3>2, <3>3
  <2> QED
    BY <2>1, <2>2 DEF Ordered, Rested
<1>7. OneRoot'
  <2>1. \A k \in DOMAIN stack : stack[k].node = 0 => stack[k].todo = <<>>
    BY <1>4 DEF AnswersInv, OneRoot
  <2>2. \A k \in DOMAIN stack' : stack'[k].node = 0 => stack'[k].todo = <<>>
    BY <1>1, <1>3, <1>5, <2>1
  <2>3. \A n \in DOMAIN tree' : tree'[n].parent = 0 <=> n = 1
    BY <1>1 DEF AnswersInv, OneRoot
  <2> QED
    BY <2>2, <2>3 DEF OneRoot
<1>8. ParentsExpanded'
  <2> SUFFICES ASSUME NEW n \in 1 .. N, tree[n].parent # 0
               PROVE  tree'[tree[n].parent].stop = "none"
    BY <1>1 DEF ParentsExpanded
  <2>1. tree[n].parent \in 1 .. N /\ tree[n].parent # N
    BY <1>1
  <2>2. tree[tree[n].parent].stop = "none"
    BY <1>1 DEF AnswersInv, ParentsExpanded
  <2> QED
    BY <1>1, <2>1, <2>2
<1>9. StopsMeant'
  <2>1. ASSUME NEW n \in 1 .. N
        PROVE  /\ tree'[n].stop = tree[n].stop \/ (tree[n].stop = "none" /\ tree'[n].stop = "leaf")
               /\ tree'[n].item = tree[n].item
    BY <1>1
  <2>2. StopsMeant
    BY DEF AnswersInv
  <2>3. ASSUME NEW i \in visited'
        PROVE  \E n \in DOMAIN tree' : tree'[n].item = i /\ tree'[n].stop # "already-visited"
    <3>1. PICK n \in 1 .. N : tree[n].item = i /\ tree[n].stop # "already-visited"
      BY <1>1, <2>2 DEF StopsMeant
    <3>2. tree'[n].item = i /\ tree'[n].stop # "already-visited"
      BY <2>1, <3>1
    <3> QED
      BY <1>1, <3>2
  <2>4. ASSUME NEW n \in 1 .. N
        PROVE  /\ tree'[n].stop = "no-path" => tree'[n].item \in Pathless
               /\ tree'[n].stop = "external-or-library" => tree'[n].item \in External
    BY <1>1, <2>1, <2>2 DEF StopsMeant
  <2> QED
    BY <1>1, <2>3, <2>4 DEF StopsMeant
<1>10. ASSUME NEW n \in 1 .. N PROVE ChildrenOf(n)' = ChildrenOf(n)
  BY <1>1 DEF ChildrenOf
<1>11. ASSUME NEW n \in 1 .. N, NEW todo, AnswerFor(n, todo) PROVE AnswerFor(n, todo)'
  <2>1. \A m \in ChildrenOf(n) : tree'[m].item = tree[m].item /\ tree'[m].parent = n
    BY <1>1 DEF ChildrenOf
  <2>2. tree'[n].item = tree[n].item /\ ChildrenOf(n)' = ChildrenOf(n)
    BY <1>1, <1>10
  <2> QED
    BY <1>11, <2>1, <2>2, AnswerKept
<1>12. calls # <<>> => AnswerFor(N, calls)'
  <2> SUFFICES ASSUME calls # <<>> PROVE AnswerFor(N, calls)'
    OBVIOUS
  <2>1. PICK f \in DOMAIN fetched' : fetched'[f].item = tree[N].item /\ fetched'[f].calls = calls
    OBVIOUS
  <2>2. ChildrenOf(N)' = {}
    BY <1>1 DEF ChildrenOf
  <2>3. Cardinality(ChildrenOf(N)') = 0
    BY <2>2, FS_EmptySet
  <2>4. Len(calls) = 0 + Len(calls) /\ \A j \in DOMAIN calls : calls[j] = calls[0 + j]
    OBVIOUS
  <2>5. Unfolds(N, calls, calls)'
    BY <2>2, <2>3, <2>4 DEF Unfolds
  <2> QED
    BY <1>1, <2>1, <2>5 DEF AnswerFor
<1>13. Running'
  <2> SUFFICES ASSUME NEW k \in DOMAIN stack', stack'[k].node # 0
               PROVE  AnswerFor(stack[k].node, stack[k].todo)'
    BY DEF Running
  <2>1. CASE calls # <<>> /\ k = 1
    BY <1>3, <1>12, <2>1
  <2>2. CASE \E j \in DOMAIN stack : stack'[k] = stack[j]
    <3>1. PICK j \in DOMAIN stack : stack'[k] = stack[j]
      BY <2>2
    <3>2. PICK n, todo : n = stack[j].node /\ todo = stack[j].todo
      OBVIOUS
    <3>3. n \in 1 .. N /\ AnswerFor(n, todo) /\ stack'[k].node = n /\ stack'[k].todo = todo
      BY <1>1, <3>1, <3>2 DEF AnswersInv, Running
    <3>4. AnswerFor(n, todo)'
      BY <1>11, <3>3
    <3> QED
      BY <3>3, <3>4
  <2> QED
    BY <1>5, <2>1, <2>2
<1>14. Finished'
  <2> SUFFICES ASSUME NEW n \in 1 .. N, tree'[n].stop = "none",
                      \A k \in DOMAIN stack' : stack'[k].node # n
               PROVE  AnswerFor(n, <<>>)'
    BY <1>1 DEF Finished, Expanded
  <2>1. n # N
    BY <1>1, <1>3
  <2>2. n \in Expanded /\ ~ Unasked(n)
    BY <1>1, <1>4, <2>1 DEF Expanded, Unasked
  <2>3. \A k \in DOMAIN stack : stack[k].node # n
    BY <1>5
  <2>4. AnswerFor(n, <<>>)
    BY <2>2, <2>3 DEF AnswersInv, Finished
  <2> QED
    BY <1>11, <2>4
<1>15. Leaves'
  <2> SUFFICES ASSUME NEW n \in 1 .. N, tree'[n].stop = "leaf"
               PROVE  \/ \E f \in DOMAIN fetched' : /\ fetched'[f].item = tree'[n].item
                                                    /\ fetched'[f].calls = <<>>
                      \/ n = 1 /\ direction' = "incoming" /\ fetched' = <<>>
    BY <1>1 DEF Leaves
  <2>1. CASE n = N
    BY <1>1, <2>1
  <2>2. CASE n # N
    <3>1. tree[n].stop = "leaf" /\ tree'[n].item = tree[n].item
      BY <1>1, <2>2
    <3>2. \/ \E f \in DOMAIN fetched : fetched[f].item = tree[n].item /\ fetched[f].calls = <<>>
          \/ n = 1 /\ direction = "incoming" /\ fetched = <<>>
      BY <1>1, <3>1 DEF AnswersInv, Leaves
    <3> QED
      BY <3>1, <3>2
  <2> QED
    BY <2>1, <2>2
<1>16. ASSUME NEW i, OnTodo(i) PROVE OnTodo(i)'
  <2>1. PICK k \in DOMAIN stack : \E t \in DOMAIN stack[k].todo : stack[k].todo[t] = i
    BY <1>16 DEF OnTodo
  <2> QED
    BY <1>5, <2>1 DEF OnTodo
<1>17. ASSUME NEW t \in DOMAIN calls PROVE OnTodo(calls[t])'
  <2>1. calls # <<>>
    BY <1>17
  <2> QED
    BY <1>3, <2>1 DEF OnTodo
<1> QED
  BY <1>6, <1>7, <1>8, <1>9, <1>13, <1>14, <1>15, <1>16, <1>17

LEMMA CallsWithinFan == ASSUME NEW calls \in Answers PROVE Len(calls) \in Nat /\ Len(calls) <= MaxFan
<1>1. PICK n \in 0 .. MaxFan : calls \in [1 .. n -> Items]
  BY DEF Answers
<1>2. n \in Nat /\ n <= MaxFan
  BY LimitsAssumption
<1>3. Len(calls) = n
  BY <1>1, <1>2
<1> QED
  BY <1>2, <1>3

\* Whatever is below the root is there because somebody was answered about.
LEMMA ParentAnswered ==
    ASSUME TreeInv, AnswersInv, NEW m \in DOMAIN tree, m # 1, NEW q, q = tree[m].parent
    PROVE  q \in Expanded /\ q < m /\ \E rest \in Seq(Items) : AnswerFor(q, rest)
<1>n. PICK N \in Nat : N = Len(tree)
  BY DEF TreeInv, TypeOK
<1>1. DOMAIN tree = 1 .. N /\ q \in Nat /\ q < m /\ m \in 1 .. N
  BY <1>n, TreeFacts DEF TreeInv
<1>2. q # 0
  BY DEF AnswersInv, OneRoot
<1>3. q \in DOMAIN tree /\ tree[q].stop = "none"
  BY <1>1, <1>2 DEF AnswersInv, ParentsExpanded
<1>4. q \in Expanded /\ ~ Unasked(q)
  BY <1>1, <1>3, <1>n DEF Expanded, Unasked
<1>5. CASE \E k \in DOMAIN stack : stack[k].node = q
  <2>1. PICK k \in DOMAIN stack : stack[k].node = q
    BY <1>5
  <2>2. AnswerFor(q, stack[k].todo)
    BY <1>2, <2>1 DEF AnswersInv, Running
  <2>3. stack[k].todo \in Seq(Items)
    BY <1>n, TreeFacts DEF TreeInv
  <2> QED
    BY <1>1, <1>4, <2>2, <2>3
<1>6. CASE AnswerFor(q, <<>>)
  <2>1. <<>> \in Seq(Items)
    OBVIOUS
  <2> QED
    BY <1>1, <1>4, <1>6, <2>1
<1> QED
  BY <1>4, <1>5, <1>6 DEF AnswersInv, Finished

LEMMA FetchAnswers == ASSUME TreeInv, AnswersInv, Fetch PROVE AnswersInv'
<1>1. PICK calls \in Answers :
         /\ fetched' = Append(fetched, [item |-> Current, calls |-> calls])
         /\ Follow(calls)
  BY DEF Fetch
<1>2. calls \in Seq(Items) /\ Len(calls) \in Nat /\ Len(calls) <= MaxFan
  BY AnswersType, CallsWithinFan
<1>3. PICK N \in Nat, F \in Nat : N = Len(tree) /\ F = Len(fetched)
  BY DEF TreeInv, TypeOK
<1>4. /\ status = "fetch" /\ (direction = "incoming" => N > 1) /\ status' = "visit"
      /\ UNCHANGED <<direction, max_depth, prefetched, visited>> /\ direction \in {"outgoing", "incoming"}
      /\ DOMAIN tree = 1 .. N /\ Current = tree[N].item /\ Current \in Items
  BY <1>3, FetchFacts DEF Fetch, Current, TreeInv, TypeOK
<1>5. /\ DOMAIN fetched = 1 .. F /\ DOMAIN fetched' = 1 .. F + 1
      /\ fetched'[F + 1].item = tree[N].item /\ fetched'[F + 1].calls = calls
      /\ \A f \in 1 .. F : fetched'[f] = fetched[f]
  <2> DEFINE Records == [item : Items, calls : Seq(Items)]
             record == [item |-> Current, calls |-> calls]
  <2>1. record \in Records /\ record.item = tree[N].item /\ record.calls = calls
    BY <1>2, <1>4
  <2>2. fetched \in Seq(Records) /\ fetched' = Append(fetched, record)
    BY <1>1 DEF TreeInv, TypeOK
  <2> HIDE DEF record, Records
  <2>3. /\ DOMAIN fetched = 1 .. F /\ DOMAIN fetched' = 1 .. F + 1
        /\ fetched'[F + 1] = record /\ \A f \in 1 .. F : fetched'[f] = fetched[f]
    BY <1>3, <2>1, <2>2, AppendFacts
  <2> QED
    BY <2>1, <2>3
<1>6. direction = "outgoing" \/ fetched # <<>>
  <2> SUFFICES ASSUME N > 1 PROVE fetched # <<>>
    BY <1>4
  <2>1. PICK q, rest : AnswerFor(q, rest)
    BY <1>4, ParentAnswered
  <2> QED
    BY <2>1 DEF AnswerFor
<1>7. /\ Rested' /\ Ordered' /\ OneRoot' /\ ParentsExpanded' /\ StopsMeant'
      /\ Running' /\ Finished' /\ Leaves'
      /\ \A i : OnTodo(i) => OnTodo(i)'
      /\ \A t \in DOMAIN calls : OnTodo(calls[t])'
  <2>1. \A f \in DOMAIN fetched : f \in DOMAIN fetched' /\ fetched'[f] = fetched[f]
    BY <1>5
  <2>2. \E f \in DOMAIN fetched' : fetched'[f].item = tree[N].item /\ fetched'[f].calls = calls
    BY <1>5
  <2> QED
    BY <1>1, <1>2, <1>3, <1>4, <1>6, <2>1, <2>2, FollowAnswers
<1>8. FanBound'
  BY <1>2, <1>5 DEF AnswersInv, FanBound
<1>9. Prefetched'
  <2>1. fetched' # <<>>
    BY <1>5
  <2>2. direction = "incoming" =>
          \E f \in DOMAIN fetched' : fetched'[f].item = Root /\ fetched'[f].calls = prefetched
    BY <1>5, <1>6 DEF AnswersInv, Prefetched
  <2> QED
    BY <1>4, <2>1, <2>2 DEF Prefetched
<1>10. Heard'
  <2>1. ~ PrefetchWaits
    BY <1>3, <1>4 DEF PrefetchWaits
  <2>2. ASSUME NEW f \in 1 .. F, NEW k \in DOMAIN fetched'[f].calls
        PROVE  fetched'[f].calls[k] \in visited' \/ OnTodo(fetched[f].calls[k])'
    <3>1. PICK i : i = fetched[f].calls[k]
      OBVIOUS
    <3>2. k \in DOMAIN fetched[f].calls /\ fetched'[f].calls[k] = i
      BY <1>5, <2>2, <3>1
    <3>3. i \in visited \/ OnTodo(i)
      BY <1>5, <2>1, <3>1, <3>2 DEF AnswersInv, Heard
    <3> QED
      BY <1>4, <1>7, <3>2, <3>3
  <2>3. ASSUME NEW k \in DOMAIN calls PROVE OnTodo(fetched[F + 1].calls[k])'
    BY <1>5, <1>7, <2>3
  <2> QED
    BY <1>5, <2>2, <2>3 DEF Heard
<1> QED
  BY <1>7, <1>8, <1>9, <1>10 DEF AnswersInv

LEMMA UsePrefetchedAnswers == ASSUME TreeInv, AnswersInv, UsePrefetched PROVE AnswersInv'
<1>1. /\ status = "fetch" /\ direction = "incoming" /\ Follow(prefetched) /\ status' = "visit"
      /\ UNCHANGED <<direction, max_depth, prefetched, visited, fetched>> /\ Len(tree) = 1
  BY DEF UsePrefetched
<1>2. PICK calls : calls = prefetched
  OBVIOUS
<1>3. calls \in Seq(Items) /\ Follow(calls) /\ tree[1].item = Root
  <2>1. tree # <<>>
    BY <1>1 DEF TreeInv, FetchingLast
  <2> QED
    BY <1>1, <1>2, <2>1 DEF TreeInv, TypeOK, RootFirst
<1>4. /\ Rested' /\ Ordered' /\ OneRoot' /\ ParentsExpanded' /\ StopsMeant'
      /\ Running' /\ Finished' /\ Leaves'
      /\ \A i : OnTodo(i) => OnTodo(i)'
      /\ \A t \in DOMAIN calls : OnTodo(calls[t])'
  <2>1. \/ \E f \in DOMAIN fetched' : fetched'[f].item = tree[1].item /\ fetched'[f].calls = calls
        \/ calls = <<>> /\ 1 = 1 /\ direction = "incoming" /\ fetched' = <<>>
    BY <1>1, <1>2, <1>3 DEF AnswersInv, Prefetched
  <2>2. \A f \in DOMAIN fetched : f \in DOMAIN fetched' /\ fetched'[f] = fetched[f]
    BY <1>1
  <2> QED
    BY <1>1, <1>3, <2>1, <2>2, FollowAnswers
<1>5. FanBound' /\ Prefetched'
  BY <1>1 DEF AnswersInv, FanBound, Prefetched
<1>6. Heard'
  BY <1>1, <1>2, <1>4 DEF AnswersInv, Heard
<1> QED
  BY <1>4, <1>5, <1>6 DEF AnswersInv

\* The steps that leave tree, loops and answers alone.
LEMMA StatusAnswers ==
    ASSUME TreeInv, AnswersInv, ProbeFails \/ SnippetThrows \/ FetchThrows \/ UNCHANGED vars
    PROVE  AnswersInv'
<1>1. /\ UNCHANGED <<direction, max_depth, tree, stack, visited, fetched, prefetched>>
      /\ status \in {"fetch", "failed"} => status' = status \/ status' = "failed"
      /\ status' = "done" => status = "done"
      /\ status = "fetch" /\ status' # "fetch" => direction = "outgoing" \/ Len(tree) > 1
  <2>1. direction \in {"outgoing", "incoming"}
    BY DEF TreeInv, TypeOK
  <2> QED
    BY <2>1 DEF ProbeFails, SnippetThrows, NextItem, FetchThrows, vars
<1> QED
  BY <1>1, QuietAnswers

\* The tree and the loops in progress agree with the answers, call for call, in
\* every state a traversal reaches.
THEOREM AnswersInvariant == Spec => []AnswersInv
<1>1. TreeInv /\ AnswersInv /\ [Next]_vars => AnswersInv'
  BY ProbeAnswers, EnterAnswers, FetchAnswers, UsePrefetchedAnswers, ReturnAnswers, StatusAnswers
  DEF Next, Over
<1> QED
  BY <1>1, InitAnswers, TreeInvariant, PTL DEF Spec

-----------------------------------------------------------------------------
(* What follows for a finished tree.                                       *)

LEMMA AnswersSettle ==
    ASSUME TreeInv, AnswersInv, status = "done"
    PROVE  /\ \A n \in Expanded : AnswerFor(n, <<>>)
           /\ tree # <<>> /\ \A i : ~ OnTodo(i)
<1>1. stack = <<>> /\ DOMAIN stack = {}
  BY DEF AnswersInv, Rested
<1>2. tree # <<>>
  BY <1>1 DEF TreeInv, RootFirst
<1> QED
  BY <1>1, <1>2 DEF AnswersInv, Finished, Unasked, OnTodo

LEMMA TreeTrueInState == TreeInv /\ AnswersInv => TreeIsTheAnswers
<1> SUFFICES ASSUME TreeInv, AnswersInv, status = "done" PROVE TreeIsTheAnswers
  BY DEF TreeIsTheAnswers
<1>1. ASSUME NEW n \in Expanded
      PROVE  \E f \in DOMAIN fetched :
               /\ fetched[f].item = tree[n].item
               /\ Len(fetched[f].calls) = Cardinality(ChildrenOf(n))
               /\ \A m \in ChildrenOf(n) : tree[m].item = fetched[f].calls[Place(m)]
  <2>1. PICK f \in DOMAIN fetched :
          fetched[f].item = tree[n].item /\ Unfolds(n, fetched[f].calls, <<>>)
    BY AnswersSettle DEF AnswerFor
  <2>2. Cardinality(ChildrenOf(n)) \in Nat
    BY ChildFacts DEF TreeInv
  <2>3. Len(fetched[f].calls) = Cardinality(ChildrenOf(n))
    BY <2>1, <2>2 DEF Unfolds
  <2>4. \A m \in ChildrenOf(n) : tree[m].item = fetched[f].calls[Place(m)]
    BY <2>1 DEF Unfolds
  <2> QED
    BY <2>1, <2>3, <2>4
<1>2. ASSUME NEW n \in DOMAIN tree, tree[n].stop = "leaf"
      PROVE  \/ [item |-> tree[n].item, calls |-> <<>>] \in Range(fetched)
             \/ n = 1 /\ direction = "incoming" /\ fetched = <<>>
  <2>1. CASE \E f \in DOMAIN fetched : fetched[f].item = tree[n].item /\ fetched[f].calls = <<>>
    <3>1. PICK f \in DOMAIN fetched : fetched[f].item = tree[n].item /\ fetched[f].calls = <<>>
      BY <2>1
    <3>2. fetched[f] = [item |-> fetched[f].item, calls |-> fetched[f].calls]
      <4> DEFINE Records == [item : Items, calls : Seq(Items)]
      <4>1. fetched \in Seq(Records)
        BY DEF TreeInv, TypeOK
      <4> HIDE DEF Records
      <4>2. fetched[f] \in Records
        BY <4>1
      <4> QED
        BY <4>2 DEF Records
    <3>3. [item |-> tree[n].item, calls |-> <<>>] = fetched[f]
      BY <3>1, <3>2
    <3> QED
      BY <3>3 DEF Range
  <2> QED
    BY <1>2, <2>1 DEF AnswersInv, Leaves
<1> QED
  BY <1>1, <1>2 DEF TreeIsTheAnswers

LEMMA ClosedInState == TreeInv /\ AnswersInv => ClosedUnlessCut
<1> SUFFICES ASSUME TreeInv, AnswersInv, status = "done", InScope(Root),
                    \A n \in DOMAIN tree : tree[n].stop # "max-depth",
                    NEW f \in DOMAIN fetched, NEW k \in DOMAIN fetched[f].calls,
                    NEW i, i = fetched[f].calls[k], InScope(i)
             PROVE  \/ \E g \in DOMAIN fetched : fetched[g].item = i
                    \/ i = Root /\ direction = "incoming"
  BY DEF ClosedUnlessCut
<1>n. PICK N \in Nat : N = Len(tree)
  <2>1. tree \in Seq(Nodes)
    BY DEF TreeInv, TypeOK, Nodes
  <2> QED
    BY <2>1
<1>1. DOMAIN tree = 1 .. N /\ \A n \in 1 .. N : tree[n].stop \in Stops
  <2>1. DOMAIN tree = 1 .. N /\ \A n \in 1 .. N : tree[n] \in Nodes
    BY <1>n, TreeFacts DEF TreeInv
  <2> QED
    BY <2>1 DEF Nodes
<1>2. N > 0 /\ tree[1].item = Root /\ 1 \in DOMAIN tree
  <2>1. tree # <<>>
    BY AnswersSettle
  <2>2. N # 0
    BY <1>1, <1>n, <2>1 DEF TreeInv, TypeOK
  <2> QED
    BY <1>1, <2>1, <2>2 DEF TreeInv, RootFirst
\* The first node of an item in scope is expanded or a leaf.
<1>3. ASSUME NEW j \in visited, InScope(j)
      PROVE  \E n \in DOMAIN tree : tree[n].item = j /\ tree[n].stop \in {"none", "leaf"}
  <2>1. PICK n \in DOMAIN tree : tree[n].item = j /\ tree[n].stop # "already-visited"
    BY DEF AnswersInv, StopsMeant
  <2>2. tree[n].stop \notin {"no-path", "external-or-library", "max-depth"}
    BY <1>3, <2>1 DEF InScope, AnswersInv, StopsMeant
  <2> QED
    BY <1>1, <2>1, <2>2 DEF Stops
<1>4. ~ PrefetchWaits
  <2> SUFFICES ASSUME N = 1, tree[1].stop \notin {"none", "leaf"} PROVE FALSE
    BY <1>n, <1>2 DEF PrefetchWaits
  <2>1. Root \in visited
    BY <1>2 DEF TreeInv, VisitedIsTree
  <2>2. PICK n \in DOMAIN tree : tree[n].stop \in {"none", "leaf"}
    BY <1>3, <2>1
  <2> QED
    BY <1>1, <2>2
<1>5. i \in visited
  BY <1>4, AnswersSettle DEF AnswersInv, Heard
<1>6. PICK n \in DOMAIN tree : tree[n].item = i /\ tree[n].stop \in {"none", "leaf"}
  BY <1>3, <1>5
<1>7. CASE tree[n].stop = "none"
  <2>1. AnswerFor(n, <<>>)
    BY <1>7, AnswersSettle DEF Expanded
  <2> QED
    BY <1>6, <2>1 DEF AnswerFor
<1>8. CASE tree[n].stop = "leaf"
  BY <1>2, <1>6, <1>8 DEF AnswersInv, Leaves
<1> QED
  BY <1>6, <1>7, <1>8

\* Siblings have different places.
LEMMA PlacesDiffer ==
    ASSUME TypeOK, NEW m \in DOMAIN tree, NEW n \in DOMAIN tree, m < n,
           tree[m].parent = tree[n].parent
    PROVE  Place(m) # Place(n)
<1> DEFINE q == tree[n].parent
           upTo(x) == {k \in ChildrenOf(q) : k <= x}
<1>n. PICK N \in Nat : N = Len(tree)
  BY DEF TypeOK
<1>1. m \in Nat /\ n \in Nat
  BY <1>n, TreeFacts
<1>2. Place(m) = Cardinality(upTo(m)) /\ Place(n) = Cardinality(upTo(n))
  BY DEF Place
<1>3. IsFiniteSet(ChildrenOf(q)) /\ ChildrenOf(q) \subseteq Nat /\ n \in ChildrenOf(q)
  BY ChildFacts DEF ChildrenOf
<1>4. /\ upTo(m) \subseteq upTo(n) /\ upTo(n) \subseteq ChildrenOf(q)
      /\ n \in upTo(n) /\ n \notin upTo(m)
  BY <1>1, <1>3
<1> HIDE DEF upTo, q
<1>5. IsFiniteSet(upTo(n))
  BY <1>3, <1>4, FS_Subset
<1>6. Cardinality(upTo(n)) # Cardinality(upTo(m))
  BY <1>4, <1>5, FS_Subset
<1> QED
  BY <1>2, <1>6

\* A node below the root is told by the item whose answer named it and by where
\* in the answer it was named.
LEMMA WorkBoundInState == TreeInv /\ AnswersInv => WorkBound
<1> SUFFICES ASSUME TreeInv, AnswersInv PROVE WorkBound
  OBVIOUS
<1> DEFINE asked == {fetched[f].item : f \in DOMAIN fetched}
           accounts == (1 .. MaxFan) \X asked
           account == [m \in 2 .. Len(tree) |-> <<Place(m), tree[tree[m].parent].item>>]
<1>n. PICK N \in Nat : N = Len(tree)
  BY DEF TreeInv, TypeOK
<1>1. DOMAIN tree = 1 .. N /\ MaxFan \in Nat
  BY <1>n, TreeFacts, LimitsAssumption DEF TreeInv
<1>2. /\ IsFiniteSet(accounts) /\ Cardinality(accounts) = MaxFan * Cardinality(asked)
      /\ Cardinality(accounts) \in Nat
  <2>1. asked \subseteq Items
    BY <1>n, TreeFacts DEF TreeInv
  <2>2. IsFiniteSet(asked)
    BY <2>1, ItemsAssumption, FS_Subset
  <2>3. IsFiniteSet(1 .. MaxFan) /\ Cardinality(1 .. MaxFan) = MaxFan
    BY <1>1, FS_Interval
  <2> HIDE DEF asked
  <2>4. IsFiniteSet(accounts) /\ Cardinality(accounts) = Cardinality(1 .. MaxFan) * Cardinality(asked)
    BY <2>2, <2>3, FS_Product
  <2> QED
    BY <2>3, <2>4, FS_CardinalityType
<1>3. ASSUME NEW m \in 2 .. N
      PROVE  /\ Place(m) \in 1 .. MaxFan /\ tree[tree[m].parent].item \in asked
             /\ tree[m].parent \in Expanded
  <2>1. PICK q : q = tree[m].parent
    OBVIOUS
  <2>2. m \in DOMAIN tree /\ m # 1
    BY <1>1
  <2>3. q \in Expanded /\ \E rest \in Seq(Items) : AnswerFor(q, rest)
    BY <2>1, <2>2, ParentAnswered
  <2>4. PICK rest \in Seq(Items), f \in DOMAIN fetched :
          fetched[f].item = tree[q].item /\ Unfolds(q, fetched[f].calls, rest)
    BY <2>3 DEF AnswerFor
  <2>5. Cardinality(ChildrenOf(q)) \in Nat /\ Place(m) \in 1 .. Cardinality(ChildrenOf(q))
    BY <2>1, <2>2, ChildFacts DEF TreeInv, ChildrenOf
  <2>6. Len(fetched[f].calls) = Cardinality(ChildrenOf(q)) + Len(rest) /\ Len(rest) \in Nat
    BY <2>4 DEF Unfolds
  <2>7. Len(fetched[f].calls) <= MaxFan
    BY DEF AnswersInv, FanBound
  <2>8. Cardinality(ChildrenOf(q)) <= MaxFan
    BY <1>1, <2>5, <2>6, <2>7
  <2> QED
    BY <1>1, <2>1, <2>3, <2>4, <2>5, <2>8
<1>4. ASSUME NEW m \in 2 .. N, NEW n \in 2 .. N, m < n PROVE account[m] # account[n]
  <2> SUFFICES ASSUME Place(m) = Place(n), tree[tree[m].parent].item = tree[tree[n].parent].item
               PROVE  FALSE
    BY <1>n
  <2>1. PICK p, q : p = tree[m].parent /\ q = tree[n].parent
    OBVIOUS
  <2>2. p \in 1 .. N /\ q \in 1 .. N /\ tree[p].stop = "none" /\ tree[q].stop = "none"
    BY <1>1, <1>3, <2>1 DEF Expanded
  <2>3. tree[p].item = tree[q].item
    BY <2>1
  <2>4. p = q
    BY <1>1, <2>2, <2>3 DEF TreeInv, OneAccountPerItem
  <2>5. m \in DOMAIN tree /\ n \in DOMAIN tree
    BY <1>1
  <2> QED
    BY <1>4, <2>1, <2>4, <2>5, PlacesDiffer DEF TreeInv
<1>5. account \in [2 .. N -> accounts]
  BY <1>3, <1>n
<1> HIDE DEF account, accounts, asked
<1>6. N <= 1 + Cardinality(accounts)
  <2> SUFFICES ASSUME N > 1 + Cardinality(accounts) PROVE FALSE
    BY <1>2
  <2>1. IsFiniteSet(2 .. N) /\ Cardinality(2 .. N) = N - 1
    BY <1>2, FS_Interval
  <2>2. Cardinality(accounts) < Cardinality(2 .. N)
    BY <1>2, <2>1
  <2>3. \E x, y \in 2 .. N : x # y /\ account[x] = account[y]
    BY <1>2, <1>5, <2>1, <2>2, FS_PigeonHole
  <2>4. PICK x \in 2 .. N, y \in 2 .. N : x # y /\ account[x] = account[y]
    BY <2>3
  <2>5. x < y \/ y < x
    BY <2>4
  <2> QED
    BY <1>4, <2>4, <2>5
<1> QED
  BY <1>2, <1>6, <1>n DEF WorkBound, asked

\* In a finished tree the children of every expanded node are the answer about
\* it, call for call.
THEOREM TreeTrue == Spec => []TreeIsTheAnswers
BY TreeInvariant, AnswersInvariant, TreeTrueInState, PTL

\* A finished tree without a max-depth node leaves nothing in scope out.
THEOREM ClosedTree == Spec => []ClosedUnlessCut
BY TreeInvariant, AnswersInvariant, ClosedInState, PTL

\* The tree is no larger than the answers it takes to describe the graph, cyclic
\* or not.
THEOREM WorkBounded == Spec => []WorkBound
BY TreeInvariant, AnswersInvariant, WorkBoundInState, PTL

-----------------------------------------------------------------------------
(* The flat list.  What has been collected after n nodes is defined by       *)
(* recursion on n; that the recursion has a solution, and what it collects,   *)
(* follow from the least number for which it would not.                     *)

LEMMA Least ==
    ASSUME NEW S \in SUBSET Nat, S # {}
    PROVE  \E m \in S : \A k \in S : m <= k
<1> DEFINE T == {1 .. k : k \in S}
<1>1. \A k \in S : 1 .. k \in SUBSET Nat /\ IsFiniteSet(1 .. k)
  BY FS_Interval
<1>2. T \subseteq FiniteSubsetsOf(Nat) /\ T # {}
  BY <1>1 DEF FiniteSubsetsOf
<1>3. PICK x \in T : \A y \in T : ~(<<y, x>> \in StrictSubsetOrdering(Nat))
  <2> HIDE DEF T
  <2> QED
    BY <1>2, FS_StrictSubsetOrderingWellFounded, WFMin
<1>4. PICK m \in S : x = 1 .. m
  OBVIOUS
<1>5. ASSUME NEW k \in S, k < m PROVE FALSE
  <2>1. 1 .. k \subseteq 1 .. m /\ 1 .. k # 1 .. m
    BY <1>5
  <2>2. <<1 .. k, 1 .. m>> \in StrictSubsetOrdering(Nat)
    BY <1>1, <2>1 DEF StrictSubsetOrdering
  <2>3. 1 .. k \in T
    OBVIOUS
  <2> QED
    BY <1>3, <1>4, <2>2, <2>3
<1> QED
  BY <1>5

NextCollected(g, n) == IF n = 0 THEN NothingCollected ELSE CollectNode(g[n - 1], tree[n])
CollectedUpTo(g, n) == g = [m \in 0 .. n |-> NextCollected(g, m)]

LEMMA CollectedExists == ASSUME NEW n \in Nat PROVE \E g : CollectedUpTo(g, n)
<1> DEFINE Missing == {k \in Nat : ~ \E g : CollectedUpTo(g, k)}
<1> SUFFICES ASSUME Missing # {} PROVE FALSE
  OBVIOUS
<1>1. Missing \in SUBSET Nat
  OBVIOUS
<1>2. PICK m \in Missing : \A k \in Missing : m <= k
  <2> HIDE DEF Missing
  <2> QED
    BY <1>1, Least
<1>3. m \in Nat /\ ~ \E g : CollectedUpTo(g, m)
  OBVIOUS
<1>4. CASE m = 0
  <2> DEFINE g == [k \in 0 .. 0 |-> NothingCollected]
  <2>1. \A k \in 0 .. 0 : NextCollected(g, k) = NothingCollected
    BY DEF NextCollected
  <2>2. CollectedUpTo(g, 0)
    BY <2>1 DEF CollectedUpTo
  <2> QED
    BY <1>3, <1>4, <2>2
<1>5. CASE m # 0
  <2>1. m - 1 \in Nat /\ m - 1 \notin Missing
    BY <1>2, <1>3, <1>5
  <2>2. PICK h : CollectedUpTo(h, m - 1)
    BY <2>1
  <2> DEFINE g == [k \in 0 .. m |-> IF k < m THEN h[k] ELSE NextCollected(h, m)]
  <2>3. ASSUME NEW k \in 0 .. m PROVE g[k] = NextCollected(g, k)
    <3>1. CASE k = 0
      <4>1. 0 \in 0 .. m - 1 /\ k < m
        BY <1>3, <1>5, <3>1
      <4>2. g[k] = h[0] /\ h[0] = NextCollected(h, 0)
        BY <2>2, <3>1, <4>1 DEF CollectedUpTo
      <4> QED
        BY <3>1, <4>2 DEF NextCollected
    <3>2. CASE k # 0
      <4>1. k - 1 \in 0 .. m /\ k - 1 < m /\ k - 1 \in 0 .. m - 1
        BY <1>3, <3>2
      <4>2. g[k - 1] = h[k - 1]
        BY <4>1
      <4>3. NextCollected(g, k) = NextCollected(h, k)
        BY <3>2, <4>2 DEF NextCollected
      <4>4. CASE k < m
        <5>1. k \in 0 .. m - 1
          BY <1>3, <4>4
        <5>2. h[k] = NextCollected(h, k)
          BY <2>2, <5>1 DEF CollectedUpTo
        <5> QED
          BY <4>3, <4>4, <5>2
      <4>5. CASE k = m
        <5>1. g[k] = NextCollected(h, m)
          BY <4>5
        <5> QED
          BY <4>3, <4>5, <5>1
      <4> QED
        BY <1>3, <4>4, <4>5
    <3> QED
      BY <3>1, <3>2
  <2>4. CollectedUpTo(g, m)
    BY <2>3 DEF CollectedUpTo
  <2> QED
    BY <1>3, <2>4
<1> QED
  BY <1>4, <1>5

LEMMA CollectedUnique ==
    ASSUME NEW n \in Nat, NEW g, CollectedUpTo(g, n),
           NEW m \in Nat, NEW h, CollectedUpTo(h, m), NEW k \in 0 .. n, k <= m
    PROVE  g[k] = h[k]
<1> DEFINE Differ == {j \in Nat : j <= n /\ j <= m /\ g[j] # h[j]}
<1> SUFFICES ASSUME Differ # {} PROVE FALSE
  OBVIOUS
<1>1. PICK d \in Differ : \A j \in Differ : d <= j
  <2>1. Differ \in SUBSET Nat
    OBVIOUS
  <2> HIDE DEF Differ
  <2> QED
    BY <2>1, Least
<1>2. d \in 0 .. n /\ d \in 0 .. m /\ g[d] # h[d]
  OBVIOUS
<1>3. g[d] = NextCollected(g, d) /\ h[d] = NextCollected(h, d)
  BY <1>2 DEF CollectedUpTo
<1>4. d # 0
  BY <1>2, <1>3 DEF NextCollected
<1>5. d - 1 \in Nat /\ d - 1 <= n /\ d - 1 <= m /\ d - 1 \notin Differ
  BY <1>1, <1>2, <1>4
<1>6. g[d - 1] = h[d - 1]
  BY <1>5
<1> QED
  BY <1>2, <1>3, <1>6 DEF NextCollected

LEMMA CollectedIs ==
    /\ Collected[0] = NothingCollected
    /\ \A n \in Nat \ {0} : Collected[n] = CollectNode(Collected[n - 1], tree[n])
<1> DEFINE part(n) == CHOOSE g : CollectedUpTo(g, n)
           whole == [n \in Nat |-> part(n)[n]]
<1>1. ASSUME NEW n \in Nat PROVE CollectedUpTo(part(n), n)
  BY CollectedExists
<1> HIDE DEF part
<1>2. ASSUME NEW n \in Nat PROVE whole[n] = NextCollected(whole, n)
  <2>1. whole[n] = part(n)[n] /\ part(n)[n] = NextCollected(part(n), n)
    <3>1. n \in 0 .. n
      OBVIOUS
    <3> QED
      BY <1>1, <3>1 DEF CollectedUpTo
  <2>2. CASE n = 0
    BY <2>1, <2>2 DEF NextCollected
  <2>3. CASE n # 0
    <3>1. n - 1 \in Nat /\ n - 1 \in 0 .. n - 1 /\ n - 1 <= n
      BY <2>3
    <3>2. CollectedUpTo(part(n - 1), n - 1) /\ CollectedUpTo(part(n), n)
      BY <1>1, <3>1
    <3>3. part(n - 1)[n - 1] = part(n)[n - 1]
      BY <3>1, <3>2, CollectedUnique
    <3>4. whole[n - 1] = part(n - 1)[n - 1]
      BY <3>1
    <3> QED
      BY <2>1, <2>3, <3>3, <3>4 DEF NextCollected
  <2> QED
    BY <2>2, <2>3
<1>3. whole = [n \in Nat |-> IF n = 0 THEN NothingCollected ELSE CollectNode(whole[n - 1], tree[n])]
  BY <1>2 DEF NextCollected
<1> HIDE DEF whole
<1>4. Collected = [n \in Nat |-> IF n = 0 THEN NothingCollected
                                 ELSE CollectNode(Collected[n - 1], tree[n])]
  BY <1>3 DEF Collected
<1> QED
  BY <1>4

\* The node is shown: it has a snippet, and no node before it has the same.
Shown(m) ==
    /\ InScope(tree[m].item)
    /\ \A j \in 1 .. m - 1 : InScope(tree[j].item) => SnippetOf[tree[j].item] # SnippetOf[tree[m].item]

\* What the first n nodes give.
CollectedWell(n) ==
    LET seen == Collected[n].seen
        shown == Collected[n].out
    IN  /\ shown \in Seq(Nodes)
        /\ \A k \in DOMAIN shown : SnippetOf[shown[k].item] \in seen
        /\ \A k \in DOMAIN shown : \E m \in 1 .. n : shown[k] = tree[m] /\ Shown(m)
        /\ \A j, k \in DOMAIN shown :
             SnippetOf[shown[j].item] = SnippetOf[shown[k].item] => j = k
        /\ \A key \in seen : \E k \in DOMAIN shown : SnippetOf[shown[k].item] = key
        /\ \A m \in 1 .. n : InScope(tree[m].item) => SnippetOf[tree[m].item] \in seen

LEMMA CollectStep ==
    ASSUME TypeOK, NEW n \in DOMAIN tree, CollectedWell(n - 1)
    PROVE  CollectedWell(n)
<1> DEFINE before == Collected[n - 1]
           node == tree[n]
<1>1. /\ n \in Nat \ {0} /\ node \in Nodes
  <2>1. PICK N \in Nat : N = Len(tree)
    BY DEF TypeOK
  <2> QED
    BY <2>1, TreeFacts
<1>2. Collected[n] = CollectNode(before, node)
  BY <1>1, CollectedIs
<1>3. PICK seen, shown : seen = before.seen /\ shown = before.out
  OBVIOUS
<1>4. /\ shown \in Seq(Nodes)
      /\ \A k \in DOMAIN shown : SnippetOf[shown[k].item] \in seen
      /\ \A k \in DOMAIN shown : \E m \in 1 .. n - 1 : shown[k] = tree[m] /\ Shown(m)
      /\ \A j, k \in DOMAIN shown :
           SnippetOf[shown[j].item] = SnippetOf[shown[k].item] => j = k
      /\ \A key \in seen : \E k \in DOMAIN shown : SnippetOf[shown[k].item] = key
      /\ \A m \in 1 .. n - 1 : InScope(tree[m].item) => SnippetOf[tree[m].item] \in seen
  BY <1>3 DEF CollectedWell
<1>5. (1 .. n - 1) \cup {n} = 1 .. n
  BY <1>1
<1>6. CASE InScope(node.item) /\ SnippetOf[node.item] \notin seen
  <2> DEFINE key == SnippetOf[node.item]
  <2>1. Collected[n].seen = seen \cup {key} /\ Collected[n].out = Append(shown, node)
    <3>1. Collected[n] = [seen |-> seen \cup {key}, out |-> Append(shown, node)]
      BY <1>2, <1>3, <1>6 DEF CollectNode
    <3> QED
      BY <3>1
  <2>2. PICK all, list : all = seen \cup {key} /\ list = Append(shown, node)
    OBVIOUS
  <2>3. /\ list \in Seq(Nodes) /\ Len(shown) \in Nat
        /\ DOMAIN shown = 1 .. Len(shown) /\ DOMAIN list = 1 .. Len(shown) + 1
        /\ list[Len(shown) + 1] = node /\ \A k \in 1 .. Len(shown) : list[k] = shown[k]
    BY <1>1, <1>4, <2>2, AppendFacts
  <2>4. PICK K \in Nat : K = Len(shown)
    BY <2>3
  <2> HIDE DEF node
  <2>5. Shown(n)
    BY <1>4, <1>6 DEF Shown, node
  <2>6. \A k \in DOMAIN list : SnippetOf[list[k].item] \in all
    BY <1>4, <2>2, <2>3
  <2>7. \A k \in DOMAIN list : \E m \in 1 .. n : list[k] = tree[m] /\ Shown(m)
    <3>1. ASSUME NEW k \in 1 .. K PROVE \E m \in 1 .. n : list[k] = tree[m] /\ Shown(m)
      <4>1. PICK m \in 1 .. n - 1 : shown[k] = tree[m] /\ Shown(m)
        BY <1>4, <2>3, <2>4
      <4> QED
        BY <1>5, <2>3, <2>4, <4>1
    <3>2. \E m \in 1 .. n : list[K + 1] = tree[m] /\ Shown(m)
      BY <1>5, <2>3, <2>4, <2>5 DEF node
    <3> QED
      BY <2>3, <2>4, <3>1, <3>2
  <2>8. \A j, k \in DOMAIN list : SnippetOf[list[j].item] = SnippetOf[list[k].item] => j = k
    <3>1. \A k \in 1 .. K : SnippetOf[list[k].item] # SnippetOf[list[K + 1].item]
      BY <1>4, <1>6, <2>3, <2>4
    <3>2. ASSUME NEW j \in 1 .. K, NEW k \in 1 .. K,
                 SnippetOf[list[j].item] = SnippetOf[list[k].item]
          PROVE  j = k
      <4>1. list[j] = shown[j] /\ list[k] = shown[k] /\ j \in DOMAIN shown /\ k \in DOMAIN shown
        BY <2>3, <2>4
      <4>2. SnippetOf[shown[j].item] = SnippetOf[shown[k].item]
        BY <3>2, <4>1
      <4> QED
        BY <1>4, <4>1, <4>2
    <3> QED
      BY <2>3, <2>4, <3>1, <3>2
  <2>9. \A each \in all : \E k \in DOMAIN list : SnippetOf[list[k].item] = each
    <3>1. ASSUME NEW each \in seen PROVE \E k \in DOMAIN list : SnippetOf[list[k].item] = each
      <4>1. PICK k \in DOMAIN shown : SnippetOf[shown[k].item] = each
        BY <1>4
      <4> QED
        BY <2>3, <4>1
    <3>2. \E k \in DOMAIN list : SnippetOf[list[k].item] = key
      BY <2>3
    <3> QED
      BY <2>2, <3>1, <3>2
  <2>10. \A m \in 1 .. n : InScope(tree[m].item) => SnippetOf[tree[m].item] \in all
    BY <1>4, <1>5, <2>2 DEF node
  <2> QED
    BY <2>1, <2>2, <2>3, <2>6, <2>7, <2>8, <2>9, <2>10 DEF CollectedWell
<1>7. CASE ~ (InScope(node.item) /\ SnippetOf[node.item] \notin seen)
  <2>1. Collected[n] = before
    BY <1>2, <1>3, <1>7 DEF CollectNode
  <2>2. \A k \in DOMAIN shown : \E m \in 1 .. n : shown[k] = tree[m] /\ Shown(m)
    BY <1>4, <1>5
  <2>3. \A m \in 1 .. n : InScope(tree[m].item) => SnippetOf[tree[m].item] \in seen
    BY <1>4, <1>5, <1>7
  <2> QED
    BY <1>3, <1>4, <2>1, <2>2, <2>3 DEF CollectedWell
<1> QED
  BY <1>6, <1>7

LEMMA CollectedWellAll == ASSUME TypeOK, NEW N \in Nat, N = Len(tree) PROVE CollectedWell(N)
<1> DEFINE Bad == {n \in Nat : n <= N /\ ~ CollectedWell(n)}
<1> SUFFICES ASSUME Bad # {} PROVE FALSE
  OBVIOUS
<1>1. PICK n \in Bad : \A k \in Bad : n <= k
  <2>1. Bad \in SUBSET Nat
    OBVIOUS
  <2> HIDE DEF Bad
  <2> QED
    BY <2>1, Least
<1>2. n \in Nat /\ n <= N /\ ~ CollectedWell(n)
  OBVIOUS
<1>3. CASE n = 0
  <2>1. Collected[0].seen = {} /\ Collected[0].out = <<>>
    BY CollectedIs DEF NothingCollected
  <2>2. CollectedWell(0)
    BY <2>1 DEF CollectedWell
  <2> QED
    BY <1>2, <1>3, <2>2
<1>4. CASE n # 0
  <2>1. n - 1 \in Nat /\ n - 1 <= N /\ n - 1 \notin Bad
    BY <1>1, <1>2, <1>4
  <2>2. CollectedWell(n - 1)
    BY <2>1
  <2>3. n \in DOMAIN tree
    BY <1>2, <1>4, TreeFacts
  <2> QED
    BY <1>2, <2>2, <2>3, CollectStep
<1> QED
  BY <1>3, <1>4

LEMMA SnippetsUniqueInState == TreeInv /\ AnswersInv => SnippetsUnique
<1> SUFFICES ASSUME TreeInv, AnswersInv PROVE SnippetsUnique
  OBVIOUS
<1>n. PICK N \in Nat : N = Len(tree)
  BY DEF TreeInv, TypeOK
<1>1. DOMAIN tree = 1 .. N /\ TypeOK
  BY <1>n, TreeFacts DEF TreeInv
<1>2. PICK out : out = UniqueSnippets
  OBVIOUS
<1>3. CollectedWell(N) /\ out = Collected[N].out
  BY <1>1, <1>2, <1>n, CollectedWellAll DEF UniqueSnippets
<1>4. \A m, n \in DOMAIN out : SnippetOf[out[m].item] = SnippetOf[out[n].item] => m = n
  BY <1>3 DEF CollectedWell
\* An already-visited node comes after one of its item.
<1>5. ASSUME NEW k \in DOMAIN out PROVE out[k].stop # "already-visited"
  <2>1. PICK m \in 1 .. N : out[k] = tree[m] /\ Shown(m)
    BY <1>3 DEF CollectedWell
  <2> SUFFICES ASSUME tree[m].stop = "already-visited" PROVE FALSE
    BY <2>1
  <2>2. tree[m].item \in visited
    BY <1>1 DEF TreeInv, VisitedIsTree
  <2>3. PICK j \in 1 .. N : tree[j].item = tree[m].item /\ tree[j].stop # "already-visited"
    BY <1>1, <2>2 DEF AnswersInv, StopsMeant
  <2>4. j < m
    BY <1>1, <2>3 DEF TreeInv, OneAccountPerItem
  <2>5. j \in 1 .. m - 1
    BY <2>4
  <2> QED
    BY <2>1, <2>3, <2>5 DEF Shown
<1>6. ASSUME NEW n \in DOMAIN tree, InScope(tree[n].item)
      PROVE  \E k \in DOMAIN out : SnippetOf[out[k].item] = SnippetOf[tree[n].item]
  BY <1>1, <1>3, <1>6 DEF CollectedWell
<1> QED
  BY <1>2, <1>4, <1>5, <1>6 DEF SnippetsUnique

\* The flat list shows each place of the source once, and by the node that says
\* what became of its item.
THEOREM SnippetsOnce == Spec => []SnippetsUnique
BY TreeInvariant, AnswersInvariant, SnippetsUniqueInState, PTL

-----------------------------------------------------------------------------
(* That an expansion ends, but for the fairness that makes it go on: every   *)
(* step of it leaves fewer to come.                                         *)

\* Probes before the deadline, nodes that answers can still make, and questions:
\* items not met yet, and the one in hand.
ProbesLeft == IF status = "probe" THEN 1 + MaxProbes - probes ELSE 0
MostNodes == 1 + MaxFan * Cardinality(Items)
NodesLeft == MostNodes - Len(tree)
QuestionsLeft == Cardinality(Items \ visited) + IF status = "fetch" THEN 1 ELSE 0

\* A question opens a loop that has to return, hence the factor.
StepsLeft ==
    ProbesLeft + NodesLeft + 2 * QuestionsLeft + Len(stack)
    + IF status \in {"done", "failed"} THEN 0 ELSE 1

\* All of it before the first step.
MostSteps == MaxProbes + MostNodes + 2 * Cardinality(Items) + 3

ProbesInTime == status = "probe" => probes <= MaxProbes

LEMMA UnmetFacts ==
    ASSUME NEW seen \in SUBSET Items
    PROVE  /\ Cardinality(Items \ seen) \in Nat
           /\ \A i \in Items :
                /\ Cardinality(Items \ (seen \cup {i})) \in Nat
                /\ Cardinality(Items \ (seen \cup {i})) <= Cardinality(Items \ seen)
                /\ i \notin seen =>
                     Cardinality(Items \ seen) = Cardinality(Items \ (seen \cup {i})) + 1
<1>1. ASSUME NEW S \in SUBSET Items PROVE IsFiniteSet(S) /\ Cardinality(S) \in Nat
  BY ItemsAssumption, FS_Subset, FS_CardinalityType
<1>2. ASSUME NEW i \in Items
      PROVE  /\ Cardinality(Items \ (seen \cup {i})) \in Nat
             /\ Cardinality(Items \ (seen \cup {i})) <= Cardinality(Items \ seen)
             /\ i \notin seen =>
                  Cardinality(Items \ seen) = Cardinality(Items \ (seen \cup {i})) + 1
  <2> DEFINE left == Items \ (seen \cup {i})
  <2>1. IsFiniteSet(left) /\ Cardinality(left) \in Nat
    BY <1>1
  <2>2. CASE i \in seen
    <3>1. left = Items \ seen
      BY <2>2
    <3> QED
      BY <2>1, <2>2, <3>1
  <2>3. CASE i \notin seen
    <3>1. i \notin left /\ Items \ seen = left \cup {i}
      BY <2>3
    <3>2. Cardinality(left \cup {i}) = Cardinality(left) + 1
      BY <2>1, <3>1, FS_AddElement
    <3> HIDE DEF left
    <3>3. Cardinality(Items \ seen) = Cardinality(left) + 1
      BY <3>1, <3>2
    <3> QED
      BY <2>1, <3>3 DEF left
  <2> QED
    BY <2>2, <2>3
<1> QED
  BY <1>1, <1>2

LEMMA StepsAreFinite == TreeInv /\ AnswersInv /\ ProbesInTime => StepsLeft \in Nat
<1> SUFFICES ASSUME TreeInv, AnswersInv, ProbesInTime PROVE StepsLeft \in Nat
  OBVIOUS
<1>1. /\ Len(tree) \in Nat /\ Len(stack) \in Nat /\ probes \in Nat /\ visited \in SUBSET Items
      /\ fetched \in Seq([item : Items, calls : Seq(Items)])
  BY DEF TreeInv, TypeOK
<1>2. ProbesLeft \in Nat
  BY <1>1, LimitsAssumption DEF ProbesLeft, ProbesInTime
<1>3. QuestionsLeft \in Nat
  <2>1. Cardinality(Items \ visited) \in Nat
    BY <1>1, UnmetFacts
  <2> QED
    BY <2>1 DEF QuestionsLeft
<1>4. NodesLeft \in Nat
  <2> DEFINE asked == {fetched[f].item : f \in DOMAIN fetched}
  <2>1. asked \subseteq Items
    <3>1. \A f \in DOMAIN fetched : fetched[f].item \in Items
      BY <1>1, TreeFacts DEF TreeInv
    <3> QED
      BY <3>1
  <2>2. Len(tree) <= 1 + MaxFan * Cardinality(asked)
    BY WorkBoundInState DEF WorkBound
  <2> HIDE DEF asked
  <2>3. PICK a \in Nat, b \in Nat, c \in Nat :
           a = Cardinality(asked) /\ b = Cardinality(Items) /\ c = b - a
    <3>1. /\ Cardinality(asked) \in Nat /\ Cardinality(Items) \in Nat
          /\ Cardinality(asked) <= Cardinality(Items)
      BY <2>1, ItemsAssumption, FS_Subset, FS_CardinalityType
    <3>2. Cardinality(Items) - Cardinality(asked) \in Nat
      BY <3>1
    <3> QED
      BY <3>1, <3>2
  <2>4. PICK F \in Nat, x \in Nat, y \in Nat :
           F = MaxFan /\ x = F * a /\ y = F * b /\ x <= y
    <3>1. PICK F \in Nat : F = MaxFan
      BY LimitsAssumption
    <3>2. b = a + c
      BY <2>3
    <3>3. F * (a + c) = F * a + F * c /\ F * c \in Nat /\ F * a \in Nat /\ F * (a + c) \in Nat
      OBVIOUS
    <3>4. PICK x \in Nat, y \in Nat, z \in Nat : x = F * a /\ z = F * c /\ y = F * (a + c)
      BY <3>3
    <3>5. x <= y
      BY <3>3, <3>4
    <3> QED
      BY <3>1, <3>2, <3>4, <3>5
  <2>5. PICK t \in Nat : t = Len(tree)
    BY <1>1
  <2>6. t <= 1 + x /\ MostNodes = 1 + y
    BY <2>2, <2>3, <2>4, <2>5 DEF MostNodes
  <2>7. MostNodes - t \in Nat
    BY <2>4, <2>6
  <2> QED
    BY <2>5, <2>7 DEF NodesLeft
<1> QED
  BY <1>1, <1>2, <1>3, <1>4 DEF StepsLeft

\* The sum, when its parts change as a step changes them.
LEMMA StepsAdd ==
    ASSUME TreeInv, TreeInv', NEW node \in {0, 1}, NEW loop \in {0 - 1, 0, 1},
           ProbesLeft \in Int, ProbesLeft' \in Int, ProbesLeft' <= ProbesLeft,
           Len(tree') = Len(tree) + node, Len(stack') = Len(stack) + loop,
           QuestionsLeft' <= QuestionsLeft,
           status \notin {"done", "failed"},
           \/ ProbesLeft' < ProbesLeft /\ node = 0 /\ loop = 0
           \/ node = 1 /\ loop = 0
           \/ QuestionsLeft' < QuestionsLeft /\ loop \in {0, 1}
           \/ loop = 0 - 1
           \/ status' = "failed" /\ loop = 0
    PROVE  StepsLeft' < StepsLeft
<1>1. /\ Len(tree) \in Nat /\ Len(stack) \in Nat /\ visited \in SUBSET Items
      /\ Len(tree') \in Nat /\ Len(stack') \in Nat /\ visited' \in SUBSET Items
  BY DEF TreeInv, TypeOK
<1>2. QuestionsLeft \in Nat /\ QuestionsLeft' \in Nat
  <2>1. Cardinality(Items \ visited) \in Nat
    BY <1>1, UnmetFacts
  <2>2. Cardinality(Items \ visited') \in Nat
    BY <1>1, UnmetFacts
  <2> QED
    BY <2>1, <2>2 DEF QuestionsLeft
<1>3. MostNodes \in Nat
  <2>1. MaxFan \in Nat /\ Cardinality(Items) \in Nat
    BY LimitsAssumption, ItemsAssumption, FS_CardinalityType
  <2> QED
    BY <2>1 DEF MostNodes
<1>4. NodesLeft = MostNodes - Len(tree) /\ NodesLeft' = MostNodes - Len(tree')
  BY DEF NodesLeft, MostNodes
<1>5. NodesLeft \in Int /\ NodesLeft' = NodesLeft - node
  BY <1>1, <1>3, <1>4
<1>6. PICK e \in {0, 1} : e = IF status' \in {"done", "failed"} THEN 0 ELSE 1
  OBVIOUS
<1>7. /\ StepsLeft = ProbesLeft + NodesLeft + 2 * QuestionsLeft + Len(stack) + 1
      /\ StepsLeft' = ProbesLeft' + NodesLeft' + 2 * QuestionsLeft' + Len(stack') + e
      /\ status' = "failed" => e = 0
  BY <1>6 DEF StepsLeft
<1>8. PICK p \in Int, q \in Int, n \in Int, a \in Nat, b \in Nat, l \in Nat :
         /\ p = ProbesLeft /\ q = ProbesLeft' /\ n = NodesLeft
         /\ a = QuestionsLeft /\ b = QuestionsLeft' /\ l = Len(stack)
  BY <1>1, <1>2, <1>5
<1>9. /\ q <= p /\ b <= a
      /\ StepsLeft = p + n + 2 * a + l + 1
      /\ StepsLeft' = q + (n - node) + 2 * b + (l + loop) + e
  BY <1>5, <1>7, <1>8
<1>10. \/ q < p /\ node = 0 /\ loop = 0
       \/ node = 1 /\ loop = 0
       \/ b < a /\ loop \in {0, 1}
       \/ loop = 0 - 1
       \/ e = 0 /\ loop = 0
  BY <1>7, <1>8
<1>11. q + (n - node) + 2 * b + (l + loop) + e < p + n + 2 * a + l + 1
  <2>1. q <= p /\ b <= a
    BY <1>9
  <2> QED
    BY <1>10, <2>1
<1> QED
  BY <1>9, <1>11

LEMMA QuestionsStay ==
    ASSUME TreeInv, visited' = visited, status # "fetch" => status' # "fetch"
    PROVE  QuestionsLeft' <= QuestionsLeft
<1>1. Cardinality(Items \ visited) \in Nat
  <2>1. visited \in SUBSET Items
    BY DEF TreeInv, TypeOK
  <2> QED
    BY <2>1, UnmetFacts
<1>2. Cardinality(Items \ visited') = Cardinality(Items \ visited)
  OBVIOUS
<1> QED
  BY <1>1, <1>2 DEF QuestionsLeft

LEMMA ProbeShortens ==
    ASSUME TreeInv, TreeInv', ProbesInTime, ProbeAnswered \/ ProbeFails \/ ProbeTimesOut
    PROVE  StepsLeft' < StepsLeft
<1>1. /\ status = "probe" /\ status' \in {"probe", "visit"}
      /\ UNCHANGED <<tree, stack, visited>> /\ probes \in Nat /\ probes <= MaxProbes
      /\ status' = "probe" => probes' = probes + 1 /\ probes < MaxProbes
  BY DEF ProbeAnswered, ProbeFails, ProbeTimesOut, TreeInv, TypeOK, ProbesInTime
<1>2. ProbesLeft \in Int /\ ProbesLeft' \in Int /\ ProbesLeft' < ProbesLeft
  BY <1>1, LimitsAssumption DEF ProbesLeft
<1>3. QuestionsLeft' <= QuestionsLeft
  BY <1>1, QuestionsStay
<1>4. Len(tree') = Len(tree) + 0 /\ Len(stack') = Len(stack) + 0
  <2>1. Len(tree) \in Nat /\ Len(stack) \in Nat
    BY DEF TreeInv, TypeOK
  <2> QED
    BY <1>1, <2>1
<1>5. status \notin {"done", "failed"} /\ ProbesLeft' <= ProbesLeft
  BY <1>1, <1>2
<1> HIDE DEF ProbesLeft, QuestionsLeft, StepsLeft
<1> QED
  BY <1>2, <1>3, <1>4, <1>5, StepsAdd

\* No probing comes back, so that part of the sum stays at nothing.
LEMMA NoProbes ==
    ASSUME status # "probe", status' # "probe"
    PROVE  ProbesLeft \in Int /\ ProbesLeft' \in Int /\ ProbesLeft' <= ProbesLeft
BY DEF ProbesLeft

LEMMA EnterShortens ==
    ASSUME TreeInv, TreeInv', Enter PROVE StepsLeft' < StepsLeft
<1>n. PICK N \in Nat : N = Len(tree)
  BY DEF TreeInv, TypeOK
<1>1. /\ status = "visit" /\ visited' = visited \cup {TheCall}
      /\ status' = IF Reason = "none" THEN "fetch" ELSE "visit"
      /\ TheCall \in Items /\ (Reason = "none" => TheCall \notin visited)
      /\ Len(tree') = N + 1
  BY <1>n, EnterShape
<1>2. Len(stack') = Len(stack) + 0
  <2>1. stack # <<>> /\ Advance /\ stack \in Seq(Frames)
    BY DEF Enter, NextItem, TreeInv, TypeOK, Frames
  <2>2. Tail(stack) \in Seq(Frames) /\ Len(Tail(stack)) = Len(stack) - 1 /\ Len(stack) \in Nat
    BY <2>1
  <2>3. /\ Len(<<NewTop>> \o Tail(stack)) = 1 + Len(Tail(stack))
        /\ stack' = <<NewTop>> \o Tail(stack)
    BY <2>1, <2>2 DEF Advance, NewTop
  <2> QED
    BY <2>2, <2>3
<1>3. QuestionsLeft' <= QuestionsLeft
  <2>1. visited \in SUBSET Items
    BY DEF TreeInv, TypeOK
  <2>2. /\ Cardinality(Items \ visited) \in Nat
        /\ Cardinality(Items \ (visited \cup {TheCall})) \in Nat
        /\ Cardinality(Items \ (visited \cup {TheCall})) <= Cardinality(Items \ visited)
        /\ TheCall \notin visited =>
             Cardinality(Items \ visited) = Cardinality(Items \ (visited \cup {TheCall})) + 1
    BY <1>1, <2>1, UnmetFacts
  <2>3. PICK m \in Nat, k \in Nat :
           m = Cardinality(Items \ visited) /\ k = Cardinality(Items \ visited')
    BY <1>1, <2>2
  <2>4. k <= m /\ (TheCall \notin visited => m = k + 1)
    BY <1>1, <2>2, <2>3
  <2>5. CASE Reason = "none"
    <3>1. QuestionsLeft = m /\ QuestionsLeft' = k + 1
      BY <1>1, <2>3, <2>5 DEF QuestionsLeft
    <3> QED
      BY <1>1, <2>4, <2>5, <3>1
  <2>6. CASE Reason # "none"
    <3>1. QuestionsLeft = m + 0 /\ QuestionsLeft' = k + 0
      BY <1>1, <2>3, <2>6 DEF QuestionsLeft
    <3> QED
      BY <2>4, <3>1
  <2> QED
    BY <2>5, <2>6
<1>4. status \notin {"done", "failed"} /\ status # "probe" /\ status' # "probe"
  BY <1>1
<1>5. ProbesLeft \in Int /\ ProbesLeft' \in Int /\ ProbesLeft' <= ProbesLeft
  BY <1>4, NoProbes
<1>6. Len(tree') = Len(tree) + 1
  BY <1>n, <1>1
<1> HIDE DEF ProbesLeft, QuestionsLeft, StepsLeft
<1> QED
  BY <1>2, <1>3, <1>4, <1>5, <1>6, StepsAdd

LEMMA FollowShortens ==
    ASSUME TreeInv, TreeInv', Fetch \/ UsePrefetched PROVE StepsLeft' < StepsLeft
<1>1. /\ status = "fetch" /\ status' = "visit" /\ visited' = visited
      /\ \E calls \in Seq(Items) : Follow(calls)
  <2>1. CASE Fetch
    BY <2>1, AnswersType DEF Fetch
  <2>2. CASE UsePrefetched
    BY <2>2 DEF UsePrefetched, TreeInv, TypeOK
  <2> QED
    BY <2>1, <2>2
<1>2. PICK calls \in Seq(Items) : Follow(calls)
  BY <1>1
<1>3. PICK N \in Nat : N = Len(tree)
  BY DEF TreeInv, TypeOK
<1>4. Len(tree') = Len(tree) + 0
  <2>1. Len(tree') = N
    BY <1>1, <1>2, <1>3, FollowShape
  <2> QED
    BY <1>3, <2>1
<1>5. PICK loop \in {0, 1} : Len(stack') = Len(stack) + loop
  <2>1. stack \in Seq(Frames) /\ Len(stack) \in Nat
    BY DEF TreeInv, TypeOK, Frames
  <2>2. CASE calls = <<>>
    <3>1. stack' = stack
      BY <1>2, <2>2 DEF Follow
    <3> QED
      BY <2>1, <3>1
  <2>3. CASE calls # <<>>
    <3>1. stack' = <<[node |-> Len(tree), todo |-> calls]>> \o stack
      BY <1>2, <2>3 DEF Follow
    <3>2. [node |-> Len(tree), todo |-> calls] \in Frames
      BY <1>3 DEF Frames
    <3>3. Len(stack') = Len(stack) + 1
      BY <2>1, <3>1, <3>2
    <3> QED
      BY <3>3
  <2> QED
    BY <2>2, <2>3
<1>6. QuestionsLeft' < QuestionsLeft /\ QuestionsLeft' <= QuestionsLeft
  <2>1. Cardinality(Items \ visited) \in Nat
    <3>1. visited \in SUBSET Items
      BY DEF TreeInv, TypeOK
    <3> QED
      BY <3>1, UnmetFacts
  <2>2. QuestionsLeft = Cardinality(Items \ visited) + 1
    BY <1>1 DEF QuestionsLeft
  <2>3. QuestionsLeft' = Cardinality(Items \ visited) + 0
    BY <1>1 DEF QuestionsLeft
  <2> QED
    BY <2>1, <2>2, <2>3
<1>7. status \notin {"done", "failed"} /\ status # "probe" /\ status' # "probe"
  BY <1>1
<1>8. ProbesLeft \in Int /\ ProbesLeft' \in Int /\ ProbesLeft' <= ProbesLeft
  BY <1>7, NoProbes
<1> HIDE DEF ProbesLeft, QuestionsLeft, StepsLeft
<1> QED
  BY <1>4, <1>5, <1>6, <1>7, <1>8, StepsAdd

LEMMA EndShortens ==
    ASSUME TreeInv, TreeInv', SnippetThrows \/ FetchThrows \/ Return
    PROVE  StepsLeft' < StepsLeft
<1>1. /\ status \in {"visit", "fetch"} /\ status' \in {"visit", "done", "failed"}
      /\ UNCHANGED <<tree, visited>>
  BY DEF SnippetThrows, FetchThrows, Return, NextItem
<1>2. PICK loop \in {0 - 1, 0} : /\ Len(stack') = Len(stack) + loop
                                 /\ loop = 0 => status' = "failed"
  <2>1. stack \in Seq(Frames) /\ Len(stack) \in Nat
    BY DEF TreeInv, TypeOK, Frames
  <2>2. CASE SnippetThrows \/ FetchThrows
    <3>1. stack' = stack /\ status' = "failed"
      BY <2>2 DEF SnippetThrows, FetchThrows
    <3> QED
      BY <2>1, <3>1
  <2>3. CASE Return
    <3>1. stack # <<>> /\ stack' = Tail(stack)
      BY <2>3 DEF Return
    <3>2. Len(stack') = Len(stack) + (0 - 1)
      BY <2>1, <3>1
    <3> QED
      BY <3>2
  <2> QED
    BY <2>2, <2>3
<1>3. Len(tree') = Len(tree) + 0
  <2>1. Len(tree) \in Nat
    BY DEF TreeInv, TypeOK
  <2> QED
    BY <1>1, <2>1
<1>4. QuestionsLeft' <= QuestionsLeft
  BY <1>1, QuestionsStay
<1>5. status \notin {"done", "failed"} /\ status # "probe" /\ status' # "probe"
  BY <1>1
<1>6. ProbesLeft \in Int /\ ProbesLeft' \in Int /\ ProbesLeft' <= ProbesLeft
  BY <1>5, NoProbes
<1> HIDE DEF ProbesLeft, QuestionsLeft, StepsLeft
<1> QED
  BY <1>2, <1>3, <1>4, <1>5, <1>6, StepsAdd

LEMMA StepsAtFirst == Init => StepsLeft <= MostSteps
<1> SUFFICES ASSUME Init PROVE StepsLeft <= MostSteps
  OBVIOUS
<1>1. PICK n \in Nat : n = Cardinality(Items) /\ n = Cardinality(Items \ visited)
  <2>1. Items \ visited = Items
    BY DEF Init
  <2>2. Cardinality(Items) \in Nat
    BY ItemsAssumption, FS_CardinalityType
  <2> QED
    BY <2>1, <2>2
<1>2. PICK m \in Nat : m = MostNodes
  <2>1. MaxFan \in Nat /\ Cardinality(Items) \in Nat
    BY <1>1, LimitsAssumption
  <2> QED
    BY <2>1 DEF MostNodes
<1>3. Len(tree) = 0 /\ Len(stack) = 1 /\ status \in {"probe", "visit"} /\ probes = 0
  BY DEF Init
<1>4. ProbesLeft \in Int /\ ProbesLeft <= 1 + MaxProbes /\ MaxProbes \in Nat
  BY <1>3, LimitsAssumption DEF ProbesLeft
<1>5. QuestionsLeft = n + 0
  BY <1>1, <1>3 DEF QuestionsLeft
<1>6. NodesLeft = m - 0
  BY <1>2, <1>3 DEF NodesLeft
<1>7. MostSteps = MaxProbes + m + 2 * n + 3
  BY <1>1, <1>2 DEF MostSteps
<1>8. StepsLeft = ProbesLeft + (m - 0) + 2 * (n + 0) + 1 + 1
  BY <1>3, <1>5, <1>6 DEF StepsLeft
<1> HIDE DEF ProbesLeft
<1> QED
  BY <1>4, <1>7, <1>8

LEMMA NextProbesInTime == TreeInv /\ ProbesInTime /\ [Next]_vars => ProbesInTime'
<1> SUFFICES ASSUME TreeInv, ProbesInTime, [Next]_vars, status' = "probe"
             PROVE  probes' <= MaxProbes
  BY DEF ProbesInTime
<1>1. status = "probe" /\ (probes' = probes \/ (probes' = probes + 1 /\ probes < MaxProbes))
  BY DEF Next, ProbeAnswered, ProbeFails, ProbeTimesOut, Enter, SnippetThrows, Fetch,
         UsePrefetched, FetchThrows, Return, Over, vars
<1>2. probes \in Nat /\ MaxProbes \in Nat
  BY LimitsAssumption DEF TreeInv, TypeOK
<1> QED
  BY <1>1, <1>2 DEF ProbesInTime

\* No probe is sent after the last that fits before the deadline.
THEOREM ProbesEnd == Spec => []ProbesInTime
<1>1. Init => ProbesInTime
  BY LimitsAssumption DEF Init, ProbesInTime
<1> QED
  BY <1>1, TreeInvariant, NextProbesInTime, PTL DEF Spec

\* However the server describes the call graph, cyclic or not, an expansion
\* cannot go on for ever (expand_*_node): a natural number falls with each of
\* its steps, from at most what the limits and the number of items give.
THEOREM ExpansionTerminates ==
    Spec => StepsLeft <= MostSteps /\ [](StepsLeft \in Nat) /\ [][StepsLeft' < StepsLeft]_vars
<1>1. TreeInv /\ AnswersInv /\ ProbesInTime => StepsLeft \in Nat
  BY StepsAreFinite
<1>2. TreeInv /\ TreeInv' /\ ProbesInTime /\ [Next]_vars => [StepsLeft' < StepsLeft]_vars
  <2> SUFFICES ASSUME TreeInv, TreeInv', ProbesInTime, Next PROVE [StepsLeft' < StepsLeft]_vars
    BY Zenon
  <2>1. CASE ProbeAnswered \/ ProbeFails \/ ProbeTimesOut
    BY <2>1, ProbeShortens
  <2>2. CASE Enter
    BY <2>2, EnterShortens
  <2>3. CASE Fetch \/ UsePrefetched
    BY <2>3, FollowShortens
  <2>4. CASE SnippetThrows \/ FetchThrows \/ Return
    BY <2>4, EndShortens
  <2>5. CASE Over
    BY <2>5 DEF Over
  <2> QED
    BY <2>1, <2>2, <2>3, <2>4, <2>5 DEF Next
<1> QED
  BY <1>1, <1>2, StepsAtFirst, TreeInvariant, AnswersInvariant, ProbesEnd, PTL DEF Spec
===============================================================================
