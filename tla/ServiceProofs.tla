----------------------------- MODULE ServiceProofs -----------------------------
(***************************************************************************)
(* Who is left behind and who is told what, for any launches, numbers of    *)
(* calls, requests and lines, and any size of the stderr pipes.            *)
(*                                                                         *)
(* The argument: a child is the one at work, the live session's, or is      *)
(* gone for good (Gone), because the only way out of a call that leads past *)
(* its child is through Destroy and Join, and a one-shot call comes there   *)
(* only by Wait, or by the log that could not be opened.                   *)
(***************************************************************************)
EXTENDS Service, TLAPS

Asks == {"none", "waiting", "answered", "failed"}
Drainers == {"none", "ready", "reading", "writing", "failed", "stopped"}

Children == [launch : Launches, kind : {"run", "live"}, up : BOOLEAN, ask : Asks,
             told : Nat, exit : BOOLEAN, stdin : BOOLEAN, errFd : BOOLEAN,
             drainer : Drainers, pipe : 0 .. PipeCap, lines : 0 .. MaxLines,
             writing : BOOLEAN]

Starting == {"drain", "initialize", "initialized"}
Ended == {"none", "failed", "stopped"}

\* Which kinds of call come to which places.
Routes ==
    /\ at \in {"spawn", "handler"} \cup Starting => call.kind \in {"run", "live"}
    /\ at = "wait" => call.kind = "run"
    /\ at \in {"shutdown", "exit"} => call.kind \in {"run", "close"}

\* A one-shot call works with the child it has spawned last, every other one
\* with the live session's, which is stored from the handler on.
Ownership ==
    /\ entry # 0 => procs[entry].kind = "live"
    /\ current # 0 /\ call.kind = "run" => procs[current].kind = "run" /\ current = Len(procs)
    /\ current # 0 /\ call.kind # "run" => procs[current].kind = "live"
    /\ call.kind = "live" /\ at = "handler" => entry = current
    /\ call.kind = "live" /\ at \in {"spawn", "destroy", "join"} \cup Starting => entry = 0
    /\ call.kind = "close" /\ current # 0 => entry = current

Waited(c) == c.kind = "run" /\ c.up => c.drainer = "failed"

Gone(c) == ~c.stdin /\ ~c.errFd /\ c.drainer \in Ended /\ Waited(c)

OthersGone == \A p \in DOMAIN procs : p # current /\ p # entry => Gone(procs[p])

\* How far the child at work has been taken down.
Teardown ==
    /\ at \in {"destroy", "join"} => Waited(procs[current])
    /\ at = "join" => ~procs[current].stdin /\ ~procs[current].errFd

\* Nobody is asked to shut down before his time, or again while he lives.
NotYetTold ==
    /\ at \in {"drain", "initialized", "exit"} => procs[current].ask = "none"
    /\ at \in Starting \cup {"handler"} => procs[current].told = 0
    /\ entry # 0 /\ (call.kind # "close" \/ at \in {"idle", "begin"}) => procs[entry].told = 0
    /\ at = "shutdown" /\ procs[current].ask = "none" =>
         procs[current].told = 0 \/ ~procs[current].up

\* What the teardown of a one-shot call that has not thrown has achieved.
CleanSoFar ==
    call.kind = "run" /\ ~thrown =>
        /\ at = "shutdown" /\ procs[current].ask # "none" =>
             procs[current].told = 1 \/ ~procs[current].up
        /\ at = "exit" => procs[current].told = 1 \/ ~procs[current].up
        /\ at = "wait" => procs[current].told = 1 /\ procs[current].exit
        /\ at \in {"destroy", "join"} =>
             procs[current].told = 1 /\ procs[current].exit /\ ~procs[current].up
        /\ at = "idle" => procs # <<>>

ServiceInv ==
    /\ TypeOK
    /\ Routes /\ Ownership /\ OthersGone /\ Teardown
    /\ NotYetTold /\ CleanSoFar /\ ToldOnce /\ SameLaunch /\ CleanResult

-----------------------------------------------------------------------------
(* Sequences and the one child that changes.                               *)

LEMMA Typed == TypeOK => procs \in Seq(Children)
BY DEF TypeOK, Children, Asks, Drainers

LEMMA OneChild ==
    ASSUME procs \in Seq(Children), NEW p \in DOMAIN procs, NEW c \in Children,
           procs' = [procs EXCEPT ![p] = c]
    PROVE  /\ procs' \in Seq(Children) /\ Len(procs') = Len(procs)
           /\ DOMAIN procs' = DOMAIN procs
           /\ procs'[p] = c
           /\ \A q \in DOMAIN procs : q # p => procs'[q] = procs[q]
           /\ Len(procs) \in Nat /\ DOMAIN procs = 1 .. Len(procs)
           /\ \A q \in DOMAIN procs : procs[q] \in Children
OBVIOUS

LEMMA InitInv == Init => ServiceInv
<1> SUFFICES ASSUME Init PROVE ServiceInv
  OBVIOUS
<1> USE DEF Init
<1>1. (CHOOSE l \in Launches : TRUE) \in Launches
  BY LaunchesAssumption
<1>2. call \in [kind : Kinds, launch : Launches, asks : 0 .. MaxAsks]
  BY <1>1, ServiceAssumption DEF Kinds
<1>3. Len(procs) = 0 /\ DOMAIN procs = {} /\ call.kind = "close" /\ procs \in Seq(Children)
  OBVIOUS
<1>4. TypeOK
  <2>1. current \in 0 .. Len(procs) /\ entry \in 0 .. Len(procs) /\ calls \in 0 .. MaxCalls
    BY <1>3, ServiceAssumption
  <2> QED
    BY <1>2, <1>3, <2>1 DEF TypeOK, Places, Requesting, Children, Asks, Drainers
<1>5. Routes /\ Ownership /\ SameLaunch
  BY <1>3 DEF Routes, Ownership, Starting, SameLaunch
<1>6. OthersGone /\ ToldOnce
  BY <1>3 DEF OthersGone, ToldOnce
<1>7. Teardown /\ NotYetTold /\ CleanSoFar /\ CleanResult
  BY <1>3 DEF Teardown, NotYetTold, CleanSoFar, CleanResult, Starting
<1> QED
  BY <1>4, <1>5, <1>6, <1>7 DEF ServiceInv

-----------------------------------------------------------------------------
(* A step of a child or of its drainer.                                    *)

\* What such a step may change of a child: never its launch, its kind or our
\* ends of its pipes, and of a drainer that has ended nothing.
Drifts(p, c) ==
    LET d == procs[p]
    IN  /\ c.launch = d.launch /\ c.kind = d.kind /\ c.exit = d.exit
        /\ c.stdin = d.stdin /\ c.errFd = d.errFd
        /\ c.up => d.up
        /\ d.drainer \in Ended => c.drainer = d.drainer
        /\ c.told = d.told
        /\ c.ask = d.ask \/ (d.ask = "waiting" /\ c.ask \in {"answered", "failed"})

LEMMA DriftInv ==
    ASSUME ServiceInv, NEW p \in DOMAIN procs, NEW c \in Children, Set(p, c), Drifts(p, c)
    PROVE  ServiceInv'
<1>1. /\ procs' \in Seq(Children) /\ Len(procs') = Len(procs)
      /\ DOMAIN procs' = DOMAIN procs /\ procs'[p] = c
      /\ \A q \in DOMAIN procs : q # p => procs'[q] = procs[q]
      /\ Len(procs) \in Nat /\ DOMAIN procs = 1 .. Len(procs)
      /\ \A q \in DOMAIN procs : procs[q] \in Children
  BY OneChild, Typed DEF ServiceInv, Set
<1>2. /\ logSet' = logSet /\ call' = call /\ at' = at /\ thrown' = thrown
      /\ current' = current /\ entry' = entry /\ calls' = calls
  BY DEF Set, control
<1>3. /\ current # 0 => current \in DOMAIN procs
      /\ entry # 0 => entry \in DOMAIN procs
      /\ (current = 0 <=> at \in {"idle", "begin", "spawn"})
  BY <1>1 DEF ServiceInv, TypeOK
<1>4. \A q \in DOMAIN procs :
        /\ procs'[q].launch = procs[q].launch /\ procs'[q].kind = procs[q].kind
        /\ procs'[q].exit = procs[q].exit
        /\ procs'[q].stdin = procs[q].stdin /\ procs'[q].errFd = procs[q].errFd
        /\ procs'[q].up => procs[q].up
        /\ procs[q].drainer \in Ended => procs'[q].drainer = procs[q].drainer
  BY <1>1 DEF Drifts
<1>5. \A q \in DOMAIN procs :
        /\ procs'[q].told = procs[q].told
        /\ procs'[q].ask = "none" <=> procs[q].ask = "none"
  BY <1>1 DEF Drifts
<1>6. TypeOK'
  BY <1>1, <1>2 DEF ServiceInv, TypeOK, Children, Asks, Drainers
<1>7. Routes' /\ Ownership' /\ SameLaunch'
  <2>1. Routes'
    BY <1>2 DEF ServiceInv, Routes
  <2>2. Ownership'
    BY <1>1, <1>2, <1>3, <1>4 DEF ServiceInv, Ownership
  <2>3. SameLaunch'
    BY <1>2, <1>3, <1>4 DEF ServiceInv, SameLaunch
  <2> QED
    BY <2>1, <2>2, <2>3
<1>8. OthersGone'
  BY <1>1, <1>2, <1>4 DEF ServiceInv, OthersGone, Gone, Waited, Ended
<1>9. Teardown'
  BY <1>2, <1>3, <1>4 DEF ServiceInv, Teardown, Waited, Ended
<1>10. NotYetTold'
  <2>1. at \in {"drain", "initialized", "exit"} => procs'[current].ask = "none"
    BY <1>3, <1>5 DEF ServiceInv, NotYetTold
  <2>2. at \in Starting \cup {"handler"} => procs'[current].told = 0
    BY <1>3, <1>5 DEF ServiceInv, NotYetTold, Starting
  <2>3. entry # 0 /\ (call.kind # "close" \/ at \in {"idle", "begin"}) => procs'[entry].told = 0
    BY <1>3, <1>5 DEF ServiceInv, NotYetTold
  <2>4. at = "shutdown" /\ procs'[current].ask = "none" =>
          procs'[current].told = 0 \/ ~procs'[current].up
    BY <1>3, <1>4, <1>5 DEF ServiceInv, NotYetTold
  <2> QED
    BY <2>1, <2>2, <2>3, <2>4, <1>2 DEF NotYetTold
<1>11. ToldOnce'
  BY <1>1, <1>5 DEF ServiceInv, ToldOnce
<1>12. CleanSoFar'
  BY <1>1, <1>2, <1>3, <1>4, <1>5 DEF ServiceInv, CleanSoFar
<1>13. CleanResult'
  <2> SUFFICES ASSUME at = "idle", call.kind = "run", ~thrown PROVE CleanResult'
    BY <1>2 DEF CleanResult
  <2>1. Len(procs) \in DOMAIN procs /\ current = 0
    BY <1>1, <1>3 DEF ServiceInv, CleanSoFar
  <2>2. procs'[Len(procs)].told = procs[Len(procs)].told
    BY <2>1, <1>5
  <2> QED
    BY <2>1, <2>2, <1>1, <1>4 DEF ServiceInv, CleanResult
<1> QED
  BY <1>6, <1>7, <1>8, <1>9, <1>10, <1>11, <1>12, <1>13 DEF ServiceInv

LEMMA ProcStepDrifts ==
    ASSUME TypeOK, NEW p \in DOMAIN procs, ProcStep(p)
    PROVE  \E c \in Children : Set(p, c) /\ Drifts(p, c)
<1> DEFINE Goal == \E c \in Children : Set(p, c) /\ Drifts(p, c)
<1>1. procs[p] \in Children
  BY Typed
<1>f. /\ procs[p].lines > 0 => procs[p].lines - 1 \in 0 .. MaxLines
      /\ procs[p].pipe > 0 => procs[p].pipe - 1 \in 0 .. PipeCap
      /\ procs[p].pipe < PipeCap => procs[p].pipe + 1 \in 0 .. PipeCap
  <2>1. procs[p].told \in Nat /\ procs[p].lines \in 0 .. MaxLines /\ procs[p].pipe \in 0 .. PipeCap
    BY <1>1 DEF Children
  <2> QED
    BY <2>1, ServiceAssumption
<1> USE <1>1
<1>2. ASSUME NEW c \in Children, Set(p, c), Drifts(p, c) PROVE Goal
  BY <1>2
<1> SUFFICES Goal
  OBVIOUS
<1> HIDE DEF Goal
<1> USE DEF Drifts, Children
<1>3. CASE Answer(p)
  <2>1. PICK a \in {"answered", "failed"} : Set(p, [procs[p] EXCEPT !.ask = a])
    BY <1>3 DEF Answer
  <2> DEFINE c == [procs[p] EXCEPT !.ask = a]
  <2>2. c \in Children /\ Drifts(p, c)
    BY <1>3 DEF Answer, Asks
  <2> QED
    BY <1>2, <2>1, <2>2
<1>4. CASE StartLine(p)
  <2> DEFINE c == [procs[p] EXCEPT !.writing = TRUE, !.lines = @ - 1]
  <2>1. c \in Children /\ Drifts(p, c) /\ Set(p, c)
    BY <1>4, <1>f DEF StartLine
  <2> QED
    BY <1>2, <2>1
<1>5. CASE FinishLine(p)
  <2>1. CASE procs[p].pipe < PipeCap /\ Set(p, [procs[p] EXCEPT !.writing = FALSE, !.pipe = @ + 1])
    <3> DEFINE c == [procs[p] EXCEPT !.writing = FALSE, !.pipe = @ + 1]
    <3>1. c \in Children /\ Drifts(p, c) /\ Set(p, c)
      BY <2>1, <1>f
    <3> QED
      BY <1>2, <3>1
  <2>2. CASE Set(p, [procs[p] EXCEPT !.writing = FALSE])
    <3> DEFINE c == [procs[p] EXCEPT !.writing = FALSE]
    <3>1. c \in Children /\ Drifts(p, c) /\ Set(p, c)
      BY <2>2
    <3> QED
      BY <1>2, <3>1
  <2> QED
    BY <1>5, <2>1, <2>2 DEF FinishLine
<1>6. CASE Exit(p) \/ Die(p)
  <2> DEFINE c == [procs[p] EXCEPT !.up = FALSE]
  <2>1. c \in Children /\ Drifts(p, c) /\ Set(p, c)
    BY <1>6 DEF Exit, Die
  <2> QED
    BY <1>2, <2>1
<1>7. ASSUME NEW next \in Drainers, procs[p].drainer \notin Ended,
             Set(p, [procs[p] EXCEPT !.drainer = next])
      PROVE  Goal
  <2> DEFINE c == [procs[p] EXCEPT !.drainer = next]
  <2>1. c \in Children /\ Drifts(p, c)
    BY <1>7
  <2> QED
    BY <1>2, <1>7, <2>1
<1>8. CASE DrainerLoops(p)
  BY <1>7, <1>8 DEF DrainerLoops, Drainers, Ended
<1>9. CASE DrainerReads(p)
  <2>1. CASE procs[p].pipe > 0 /\ Set(p, [procs[p] EXCEPT !.drainer = "writing", !.pipe = @ - 1])
    <3> DEFINE c == [procs[p] EXCEPT !.drainer = "writing", !.pipe = @ - 1]
    <3>1. c \in Children /\ Drifts(p, c)
      BY <1>9, <2>1, <1>f DEF DrainerReads, Drainers, Ended
    <3> QED
      BY <1>2, <2>1, <3>1
  <2>2. CASE Set(p, [procs[p] EXCEPT !.drainer = "stopped"])
    BY <1>7, <1>9, <2>2 DEF DrainerReads, Drainers, Ended
  <2> QED
    BY <1>9, <2>1, <2>2 DEF DrainerReads
<1>10. CASE DrainerWrites(p)
  BY <1>7, <1>10 DEF DrainerWrites, Drainers, Ended
<1> QED
  BY <1>3, <1>4, <1>5, <1>6, <1>8, <1>9, <1>10 DEF ProcStep, Drainer

LEMMA ProcStepInv ==
    ASSUME ServiceInv, NEW p \in DOMAIN procs, ProcStep(p)
    PROVE  ServiceInv'
BY ProcStepDrifts, DriftInv DEF ServiceInv

-----------------------------------------------------------------------------
(* Steps of the calling thread that leave the children alone.              *)

LEMMA ChildFacts ==
    ASSUME ServiceInv
    PROVE  /\ procs \in Seq(Children) /\ Len(procs) \in Nat /\ DOMAIN procs = 1 .. Len(procs)
           /\ \A p \in DOMAIN procs : procs[p] \in Children
           /\ current # 0 => current \in DOMAIN procs
           /\ entry # 0 => entry \in DOMAIN procs
           /\ current \in 0 .. Len(procs) /\ entry \in 0 .. Len(procs)
           /\ (current = 0 <=> at \in {"idle", "begin", "spawn"})
BY Typed DEF ServiceInv, TypeOK

Calls == [kind : Kinds, launch : Launches, asks : 0 .. MaxAsks]

LEMMA TypeAgain ==
    ASSUME TypeOK, logSet' = logSet, thrown' \in BOOLEAN, call' \in Calls, at' \in Places,
           calls' \in 0 .. MaxCalls, procs' \in Seq(Children),
           current' \in 0 .. Len(procs'), entry' \in 0 .. Len(procs'),
           current' = 0 <=> at' \in {"idle", "begin", "spawn"}
    PROVE  TypeOK'
BY DEF TypeOK, Calls, Children, Asks, Drainers

LEMMA ControlType ==
    ASSUME ServiceInv
    PROVE  /\ TypeOK /\ thrown \in BOOLEAN /\ call \in Calls /\ at \in Places
           /\ calls \in 0 .. MaxCalls
BY DEF ServiceInv, TypeOK, Calls

LEMMA ResultStays ==
    ASSUME UNCHANGED procs, at' # "idle" \/ UNCHANGED <<at, call, thrown>>, CleanResult
    PROVE  CleanResult'
BY DEF CleanResult

LEMMA BeginInv ==
    ASSUME ServiceInv, NEW kind \in Kinds, NEW launch \in Launches, Begin(kind, launch)
    PROVE  ServiceInv'
<1> USE ChildFacts, ServiceAssumption DEF Begin
<1>1. TypeOK'
  <2>1. call' \in Calls /\ calls' \in 0 .. MaxCalls
    BY ControlType DEF Calls
  <2> QED
    BY <2>1, TypeAgain, ControlType DEF Places
<1>2. Routes' /\ Ownership' /\ SameLaunch'
  BY DEF ServiceInv, Routes, Ownership, SameLaunch, Starting, Kinds
<1>3. OthersGone' /\ Teardown' /\ ToldOnce' /\ CleanResult'
  BY DEF ServiceInv, OthersGone, Teardown, ToldOnce, CleanResult
<1>4. NotYetTold' /\ CleanSoFar'
  BY DEF ServiceInv, NotYetTold, CleanSoFar, Starting, Ownership
<1> QED
  BY <1>1, <1>2, <1>3, <1>4 DEF ServiceInv

\* The call is over, and what it does not leave to the live session is gone.
LEMMA EndInv ==
    ASSUME ServiceInv, NEW t \in BOOLEAN, End(t),
           logSet' = logSet, call' = call, calls' = calls, entry' \in {entry, 0},
           procs' \in Seq(Children), Len(procs') = Len(procs),
           \A p \in DOMAIN procs :
               procs'[p].kind = procs[p].kind /\ procs'[p].told = procs[p].told,
           \A p \in DOMAIN procs : p # entry' => Gone(procs'[p]),
           entry' # 0 => procs[entry'].told = 0,
           ~t /\ call.kind = "run" =>
               LET c == procs'[Len(procs)]
               IN  procs # <<>> /\ c.told = 1 /\ c.exit /\ ~c.up
    PROVE  ServiceInv'
<1>0. DOMAIN procs' = DOMAIN procs
  BY ChildFacts
<1> USE <1>0, ChildFacts DEF End
<1>1. TypeOK'
  <2>1. current' \in 0 .. Len(procs') /\ entry' \in 0 .. Len(procs')
    OBVIOUS
  <2> QED
    BY <2>1, TypeAgain, ControlType DEF Places
<1>2. Routes' /\ SameLaunch'
  BY DEF Routes, SameLaunch, Starting
<1>3. Ownership'
  BY DEF ServiceInv, Ownership, Starting
<1>4. OthersGone' /\ Teardown'
  BY DEF OthersGone, Teardown
<1>5. ToldOnce'
  BY DEF ServiceInv, ToldOnce
<1>6. NotYetTold'
  BY DEF NotYetTold, Starting
<1>7. CleanSoFar' /\ CleanResult'
  BY DEF CleanSoFar, CleanResult
<1> QED
  BY <1>1, <1>2, <1>3, <1>4, <1>5, <1>6, <1>7 DEF ServiceInv

LEMMA RefuseInv == ASSUME ServiceInv, Refuse \/ SpawnThrows PROVE ServiceInv'
<1>1. /\ End(TRUE) /\ current = 0 /\ at \in {"begin", "spawn"}
      /\ logSet' = logSet /\ call' = call /\ procs' = procs /\ calls' = calls /\ entry' = entry
  BY ChildFacts DEF Refuse, SpawnThrows
<1>2. \A p \in DOMAIN procs : p # entry' => Gone(procs'[p])
  BY <1>1, ChildFacts DEF ServiceInv, OthersGone
<1>3. entry' # 0 => procs[entry'].told = 0
  BY <1>1, ControlType DEF ServiceInv, NotYetTold, Routes, Refuse, SpawnThrows
<1> QED
  BY <1>1, <1>2, <1>3, EndInv, ChildFacts

LEMMA CloseNothingInv == ASSUME ServiceInv, Close, entry = 0 PROVE ServiceInv'
<1>1. \A p \in DOMAIN procs : p # entry' => Gone(procs'[p])
  BY ChildFacts DEF ServiceInv, OthersGone, Close
<1> QED
  BY <1>1, EndInv, ChildFacts DEF Close

LEMMA StartFreshInv == ASSUME ServiceInv, StartFresh PROVE ServiceInv'
<1> USE ChildFacts DEF StartFresh
<1>1. TypeOK'
  BY TypeAgain, ControlType DEF Places
<1>2. Routes' /\ SameLaunch' /\ ToldOnce'
  BY DEF ServiceInv, Routes, SameLaunch, Starting, ToldOnce
<1>3. Ownership' /\ OthersGone' /\ Teardown'
  BY DEF ServiceInv, Ownership, OthersGone, Teardown, Starting
<1>4. NotYetTold' /\ CleanSoFar' /\ CleanResult'
  BY DEF ServiceInv, NotYetTold, CleanSoFar, CleanResult, Starting
<1> QED
  BY <1>1, <1>2, <1>3, <1>4 DEF ServiceInv

\* The live session's child becomes the one at work.
LEMMA TakeEntryInv ==
    ASSUME ServiceInv, Reuse \/ Close, current' = entry, entry # 0 PROVE ServiceInv'
<1>1. /\ current = 0 /\ at = "begin" /\ thrown' = thrown /\ entry' = entry
      /\ logSet' = logSet /\ call' = call /\ procs' = procs /\ calls' = calls
      /\ \/ at' = "handler" /\ call.kind = "live" /\ procs[entry].launch = call.launch
         \/ at' = "shutdown" /\ call.kind = "close"
  BY ChildFacts DEF Reuse, Close, End, same_live_config
<1>2. /\ entry \in 0 .. Len(procs) /\ entry \in DOMAIN procs
      /\ procs[entry].kind = "live" /\ procs[entry].told = 0
  BY <1>1, ChildFacts DEF ServiceInv, Ownership, NotYetTold
<1>3. TypeOK'
  BY <1>1, <1>2, ChildFacts, TypeAgain, ControlType DEF Places, Requesting
<1>4. Routes' /\ SameLaunch' /\ ToldOnce'
  BY <1>1 DEF ServiceInv, Routes, SameLaunch, Starting, ToldOnce
<1>5. Ownership' /\ OthersGone' /\ Teardown'
  BY <1>1, <1>2, ChildFacts DEF ServiceInv, Ownership, OthersGone, Teardown, Starting
<1>6. NotYetTold' /\ CleanSoFar' /\ CleanResult'
  BY <1>1, <1>2 DEF ServiceInv, NotYetTold, CleanSoFar, CleanResult, Starting
<1> QED
  BY <1>3, <1>4, <1>5, <1>6 DEF ServiceInv

LEMMA ReuseInv == ASSUME ServiceInv, Reuse, ~(current' = entry) PROVE ServiceInv'
<1>1. /\ End(TRUE) /\ current = 0 /\ at = "begin" /\ call.kind = "live"
      /\ logSet' = logSet /\ call' = call /\ procs' = procs /\ calls' = calls /\ entry' = entry
  BY ChildFacts DEF Reuse
<1>2. \A p \in DOMAIN procs : p # entry' => Gone(procs'[p])
  BY <1>1, ChildFacts DEF ServiceInv, OthersGone
<1>3. entry' # 0 => procs[entry'].told = 0
  BY <1>1 DEF ServiceInv, NotYetTold
<1> QED
  BY <1>1, <1>2, <1>3, EndInv, ChildFacts

-----------------------------------------------------------------------------
(* Steps of the calling thread within the life of its child.               *)

\* The next place has what the invariant asks of it, of the child at work (which
\* the step leaves as c) and of the live session.
Arrives(c) ==
    /\ at' \in Places \ {"idle", "begin", "spawn"}
    /\ entry' = entry \/ (entry = 0 /\ entry' = current /\ call.kind = "live")
    /\ at' \in {"handler"} \cup Starting => call.kind \in {"run", "live"} /\ c.told = 0
    /\ at' = "wait" => call.kind = "run"
    /\ at' \in {"shutdown", "exit"} => call.kind \in {"run", "close"}
    /\ call.kind = "live" /\ at' = "handler" => entry' = current
    /\ call.kind = "live" /\ at' \in {"destroy", "join"} \cup Starting => entry' = 0
    /\ at' \in {"destroy", "join"} => Waited(c)
    /\ at' = "join" => ~c.stdin /\ ~c.errFd
    /\ at' \in {"drain", "initialized", "exit"} => c.ask = "none"
    /\ at' = "shutdown" /\ c.ask = "none" => c.told = 0 \/ ~c.up

ArrivesClean(c) ==
    call.kind = "run" /\ ~thrown' =>
        /\ at' = "shutdown" /\ c.ask # "none" => c.told = 1 \/ ~c.up
        /\ at' = "exit" => c.told = 1 \/ ~c.up
        /\ at' = "wait" => c.told = 1 /\ c.exit
        /\ at' \in {"destroy", "join"} => c.told = 1 /\ c.exit /\ ~c.up

LEMMA MoveInv ==
    ASSUME ServiceInv, current # 0, NEW c \in Children,
           procs' = [procs EXCEPT ![current] = c],
           c.launch = procs[current].launch, c.kind = procs[current].kind,
           c.told = procs[current].told \/ (at = "shutdown" /\ c.told = 1),
           logSet' = logSet, calls' = calls, current' = current, thrown' \in BOOLEAN,
           call' \in Calls, call'.kind = call.kind, call'.launch = call.launch,
           Arrives(c), ArrivesClean(c)
    PROVE  ServiceInv'
<1>1. /\ procs' \in Seq(Children) /\ Len(procs') = Len(procs) /\ DOMAIN procs' = DOMAIN procs
      /\ procs'[current] = c /\ \A q \in DOMAIN procs : q # current => procs'[q] = procs[q]
      /\ current \in DOMAIN procs /\ current \in 0 .. Len(procs) /\ entry \in 0 .. Len(procs)
      /\ entry # 0 => entry \in DOMAIN procs
  BY OneChild, ChildFacts
<1>2. TypeOK'
  BY <1>1, TypeAgain, ControlType DEF Arrives
<1>3. Routes' /\ SameLaunch'
  BY <1>1, ChildFacts, ControlType
  DEF ServiceInv, Routes, SameLaunch, Arrives, Starting, Calls, Kinds
<1>4. Ownership'
  <2>1. entry' # 0 => procs'[entry'].kind = "live"
    BY <1>1, ControlType DEF ServiceInv, Ownership, Arrives, Calls, Kinds
  <2>2. call.kind = "run" => procs'[current].kind = "run" /\ current = Len(procs')
    BY <1>1 DEF ServiceInv, Ownership
  <2>3. call.kind # "run" => procs'[current].kind = "live"
    BY <1>1 DEF ServiceInv, Ownership
  <2>4. call.kind = "close" => entry' = current
    BY DEF ServiceInv, Ownership, Arrives
  <2> QED
    BY <2>1, <2>2, <2>3, <2>4 DEF Ownership, Arrives
<1>5. OthersGone'
  <2>1. ASSUME NEW q \in DOMAIN procs, q # current, q # entry' PROVE Gone(procs'[q])
    BY <1>1, <2>1 DEF ServiceInv, OthersGone, Arrives
  <2> QED
    BY <1>1, <2>1 DEF OthersGone
<1>6. Teardown'
  BY <1>1 DEF Teardown, Arrives
<1>7. NotYetTold'
  <2>1. entry' # 0 /\ call.kind # "close" => procs'[entry'].told = 0
    <3>0. at = "shutdown" /\ call.kind # "close" => entry # current
      BY <1>1, ControlType DEF ServiceInv, Routes, Ownership
    <3>1. CASE entry' = entry
      BY <1>1, <3>0, <3>1 DEF ServiceInv, NotYetTold
    <3>2. CASE entry' = current /\ entry' # entry /\ call.kind = "live"
      BY <1>1, <3>2, ControlType DEF ServiceInv, Arrives, Places, Requesting, Starting
    <3> QED
      BY <3>1, <3>2, ControlType DEF Arrives, Calls, Kinds
  <2> QED
    BY <1>1, <2>1 DEF NotYetTold, Arrives
<1>8. ToldOnce'
  BY <1>1 DEF ServiceInv, ToldOnce
<1>9. CleanSoFar' /\ CleanResult'
  BY <1>1 DEF CleanSoFar, CleanResult, Arrives, ArrivesClean
<1> QED
  BY <1>2, <1>3, <1>4, <1>5, <1>6, <1>7, <1>8, <1>9 DEF ServiceInv

LEMMA StayInv ==
    ASSUME ServiceInv, current # 0, procs' = procs,
           logSet' = logSet, calls' = calls, current' = current, call' = call,
           thrown' \in BOOLEAN,
           Arrives(procs[current]), ArrivesClean(procs[current])
    PROVE  ServiceInv'
<1>1. procs[current] \in Children /\ procs' = [procs EXCEPT ![current] = procs[current]]
  BY ChildFacts
<1> QED
  BY <1>1, MoveInv, ControlType

\* What the invariant says of the place the thread is in, for a child at work.
LEMMA Here ==
    ASSUME ServiceInv, at \notin {"idle", "begin", "spawn"}
    PROVE  /\ current # 0 /\ current \in DOMAIN procs /\ procs[current] \in Children
           /\ call.kind \in {"run", "live", "close"} /\ call \in Calls /\ thrown \in BOOLEAN
           /\ procs[current].kind = IF call.kind = "run" THEN "run" ELSE "live"
           /\ Routes /\ Teardown /\ NotYetTold /\ CleanSoFar
           /\ call.kind = "live" /\ at = "handler" => entry = current
           /\ call.kind = "live" /\ at \in {"destroy", "join"} \cup Starting => entry = 0
BY ChildFacts, ControlType DEF ServiceInv, Calls, Kinds, Ownership

LEMMA StartDrainerInv == ASSUME ServiceInv, StartDrainer PROVE ServiceInv'
<1>1. at = "drain" /\ at' = "initialize"
  BY DEF StartDrainer
<1>2. CASE Drains
  <2> DEFINE c == [Child EXCEPT !.drainer = "ready"]
  <2>1. c \in Children
    BY <1>1, Here DEF Child, Children, Drainers
  <2>2. Arrives(c) /\ ArrivesClean(c)
    BY <1>1, <2>1, Here
    DEF StartDrainer, Arrives, ArrivesClean, Places, Requesting, Starting, Child, Children, Routes, NotYetTold
  <2>3. c.launch = Child.launch /\ c.kind = Child.kind /\ c.told = Child.told
    BY <1>1, Here DEF Child, Children
  <2>4. procs' = [procs EXCEPT ![current] = c]
    BY <1>2 DEF StartDrainer, SetChild
  <2> QED
    BY <1>1, <2>1, <2>2, <2>3, <2>4, Here, MoveInv DEF StartDrainer, Child
<1>3. CASE ~Drains
  <2>1. Arrives(procs[current]) /\ ArrivesClean(procs[current])
    BY <1>1, Here
    DEF StartDrainer, Arrives, ArrivesClean, Places, Requesting, Starting, Routes, NotYetTold
  <2> QED
    BY <1>1, <1>3, <2>1, Here, StayInv DEF StartDrainer
<1> QED
  BY <1>2, <1>3

LEMMA OpenLogInv == ASSUME ServiceInv, OpenLogThrows PROVE ServiceInv'
<1> DEFINE c == [Child EXCEPT !.drainer = "failed"]
<1>1. at = "drain" /\ at' = "destroy" /\ thrown' = TRUE /\ procs' = [procs EXCEPT ![current] = c]
  BY DEF OpenLogThrows, SetChild
<1>2. c \in Children /\ c.launch = Child.launch /\ c.kind = Child.kind /\ c.told = Child.told
  BY <1>1, Here DEF Child, Children, Drainers
<1>3. Arrives(c) /\ ArrivesClean(c)
  BY <1>1, <1>2, Here
  DEF OpenLogThrows, Arrives, ArrivesClean, Places, Requesting, Starting, Child, Children, Waited
<1> QED
  BY <1>1, <1>2, <1>3, Here, MoveInv DEF OpenLogThrows, Child

LEMMA AskInv == ASSUME ServiceInv, Ask PROVE ServiceInv'
<1> DEFINE tells == at = "shutdown" /\ Child.up
           told  == IF tells THEN Child.told + 1 ELSE Child.told
           c     == [Child EXCEPT !.ask = "waiting", !.told = told]
<1>1. /\ at \in Requesting /\ at' = at /\ thrown' = thrown /\ entry' = entry
      /\ procs' = [procs EXCEPT ![current] = c] /\ Child.ask = "none"
  BY DEF Ask, SetChild
<1>2. at \notin {"idle", "begin", "spawn"}
  BY <1>1 DEF Requesting
<1>t. /\ told \in Nat
      /\ at # "shutdown" => told = Child.told
      /\ at = "shutdown" => (told = 1 \/ ~Child.up) /\ (told = Child.told \/ told = 1)
  <2>1. Child.told \in Nat /\ Child.up \in BOOLEAN
    BY <1>2, Here DEF Child, Children
  <2>2. tells => Child.told = 0
    BY <1>1, <1>2, Here DEF Child, NotYetTold
  <2>3. CASE tells
    BY <2>2, <2>3
  <2>4. CASE ~tells
    BY <2>1, <2>4
  <2> QED
    BY <2>3, <2>4
<1> HIDE DEF tells, told
<1>3. /\ c \in Children /\ c.launch = Child.launch /\ c.kind = Child.kind
      /\ c.told = told /\ c.ask = "waiting" /\ c.up = Child.up
      /\ c.stdin = Child.stdin /\ c.errFd = Child.errFd /\ c.drainer = Child.drainer
  BY <1>2, <1>t, Here DEF Child, Children, Asks
<1>4. Arrives(c) /\ ArrivesClean(c)
  BY <1>1, <1>2, <1>3, <1>t, Here
  DEF Ask, Arrives, ArrivesClean, Places, Requesting, Starting, Child, Routes, NotYetTold
<1>5. call' \in Calls /\ call'.kind = call.kind /\ call'.launch = call.launch
  <2>1. at = "handler" => call.asks + 1 \in 0 .. MaxAsks
    BY <1>2, Here, ServiceAssumption DEF Ask, Calls
  <2> QED
    BY <1>2, <2>1, Here DEF Ask, Calls
<1>6. c.told = Child.told \/ (at = "shutdown" /\ c.told = 1)
  BY <1>3, <1>t
<1> QED
  BY <1>1, <1>2, <1>3, <1>4, <1>5, <1>6, Here, MoveInv DEF Ask, Child

LEMMA AnsweredInv == ASSUME ServiceInv, Answered PROVE ServiceInv'
<1> DEFINE c == [Child EXCEPT !.ask = "none"]
<1>1. /\ at \in Requesting /\ thrown' = thrown /\ entry' = entry /\ Child.ask = "answered"
      /\ procs' = [procs EXCEPT ![current] = c]
      /\ \/ at = "initialize" /\ at' = "initialized"
         \/ at = "handler" /\ at' = "handler"
         \/ at = "shutdown" /\ at' = "exit"
  BY DEF Answered, SetChild, Requesting
<1>2. at \notin {"idle", "begin", "spawn"}
  BY <1>1 DEF Requesting
<1>3. c \in Children /\ c.launch = Child.launch /\ c.kind = Child.kind /\ c.told = Child.told
  BY <1>2, Here DEF Child, Children, Asks
<1>4. Arrives(c) /\ ArrivesClean(c)
  BY <1>1, <1>2, <1>3, Here
  DEF Arrives, ArrivesClean, Places, Requesting, Starting, Child, Children, Routes, NotYetTold, CleanSoFar
<1> QED
  BY <1>1, <1>2, <1>3, <1>4, Here, MoveInv DEF Answered, Child

\* A live call leaves its handler by a throw or a return.
LEMMA LiveEndInv ==
    ASSUME ServiceInv, at = "handler", call.kind = "live", NEW t \in BOOLEAN, End(t),
           NEW c \in Children, procs' = [procs EXCEPT ![current] = c],
           c.kind = procs[current].kind, c.told = procs[current].told,
           logSet' = logSet, call' = call, calls' = calls, entry' = entry
    PROVE  ServiceInv'
<1>1. /\ procs' \in Seq(Children) /\ Len(procs') = Len(procs) /\ procs'[current] = c
      /\ \A q \in DOMAIN procs : q # current => procs'[q] = procs[q]
      /\ entry = current /\ current \in DOMAIN procs /\ procs[current].told = 0
  BY OneChild, ChildFacts, Here DEF NotYetTold
<1>2. \A p \in DOMAIN procs : procs'[p].kind = procs[p].kind /\ procs'[p].told = procs[p].told
  BY <1>1
<1>3. \A p \in DOMAIN procs : p # entry' => Gone(procs'[p])
  BY <1>1 DEF ServiceInv, OthersGone
<1> QED
  BY <1>1, <1>2, <1>3, EndInv

\* The throw of a request, with the child as it leaves it.
LEMMA ThrowInv ==
    ASSUME ServiceInv, at \in Requesting \cup {"initialized"}, Throw,
           NEW c \in Children, procs' = [procs EXCEPT ![current] = c],
           c.launch = procs[current].launch, c.kind = procs[current].kind,
           c.told = procs[current].told, c.ask = "none",
           at = "shutdown" => ArrivesClean(c),
           logSet' = logSet, call' = call, calls' = calls, entry' = entry
    PROVE  ServiceInv'
<1>1. at \notin {"idle", "begin", "spawn"}
  BY DEF Requesting
<1>2. CASE at = "shutdown"
  <2>1. at' = "exit" /\ thrown' = thrown /\ current' = current
    BY <1>2 DEF Throw
  <2>2. Arrives(c)
    BY <1>2, <2>1, Here DEF Arrives, Places, Requesting, Starting, Routes
  <2> QED
    BY <1>1, <1>2, <2>1, <2>2, Here, MoveInv
<1>3. CASE at \in {"initialize", "initialized", "handler"} /\ call.kind = "run"
  <2>1. at' = "shutdown" /\ thrown' = TRUE /\ current' = current
    BY <1>3 DEF Throw
  <2>2. Arrives(c) /\ ArrivesClean(c)
    BY <1>1, <1>3, <2>1, Here
    DEF Arrives, ArrivesClean, Places, Requesting, Starting, NotYetTold
  <2> QED
    BY <1>1, <2>1, <2>2, Here, MoveInv
<1>4. CASE at \in {"initialize", "initialized"} /\ call.kind = "live"
  <2>1. at' = "destroy" /\ thrown' = TRUE /\ current' = current
    BY <1>4 DEF Throw
  <2>2. Arrives(c) /\ ArrivesClean(c)
    BY <1>1, <1>4, <2>1, Here
    DEF Arrives, ArrivesClean, Places, Requesting, Starting, Waited
  <2> QED
    BY <1>1, <2>1, <2>2, Here, MoveInv
<1>5. CASE at = "handler" /\ call.kind = "live"
  <2>1. End(TRUE)
    BY <1>5 DEF Throw
  <2> QED
    BY <1>5, <2>1, LiveEndInv
<1> QED
  BY <1>1, <1>2, <1>3, <1>4, <1>5, Here DEF Requesting, Routes, Starting

LEMMA RequestThrowsInv == ASSUME ServiceInv, RequestThrows PROVE ServiceInv'
<1> DEFINE c == [Child EXCEPT !.ask = "none"]
<1>1. /\ at \in Requesting /\ procs' = [procs EXCEPT ![current] = c] /\ Throw
      /\ Child.ask = "failed" \/ (Child.ask = "waiting" /\ ~Child.up)
      /\ logSet' = logSet /\ call' = call /\ calls' = calls /\ entry' = entry
  BY DEF RequestThrows, SetChild
<1>2. at \notin {"idle", "begin", "spawn"}
  BY <1>1 DEF Requesting
<1>3. /\ c \in Children /\ c.launch = Child.launch /\ c.kind = Child.kind
      /\ c.told = Child.told /\ c.ask = "none" /\ c.up = Child.up
  BY <1>2, Here DEF Child, Children, Asks
<1>4. at = "shutdown" => ArrivesClean(c)
  <2>1. at = "shutdown" => at' = "exit" /\ thrown' = thrown
    BY <1>1 DEF Throw
  <2> QED
    BY <1>1, <1>2, <1>3, <2>1, Here DEF ArrivesClean, CleanSoFar, Child
<1> QED
  BY <1>1, <1>3, <1>4, ThrowInv DEF Child

LEMMA SendInitializedInv == ASSUME ServiceInv, SendInitialized PROVE ServiceInv'
<1>1. at = "initialized" /\ logSet' = logSet /\ call' = call /\ calls' = calls /\ procs' = procs
  BY DEF SendInitialized
<1>2. procs[current] \in Children /\ procs' = [procs EXCEPT ![current] = procs[current]]
  BY <1>1, ChildFacts
<1>3. CASE Child.up
  <2>1. Arrives(procs[current]) /\ ArrivesClean(procs[current])
    BY <1>1, <1>3, Here
    DEF SendInitialized, Arrives, ArrivesClean, Places, Requesting, Starting, NotYetTold, Routes
  <2> QED
    BY <1>1, <1>3, <2>1, Here, StayInv DEF SendInitialized
<1>4. CASE ~Child.up
  <2>1. procs[current].ask = "none"
    BY <1>1, Here DEF NotYetTold
  <2> QED
    BY <1>1, <1>2, <1>4, <2>1, ThrowInv DEF SendInitialized
<1> QED
  BY <1>3, <1>4

LEMMA HandlerInv == ASSUME ServiceInv, HandlerReturns \/ HandlerThrows PROVE ServiceInv'
<1>1. /\ at = "handler" /\ procs[current].ask = "none"
      /\ logSet' = logSet /\ call' = call /\ calls' = calls /\ procs' = procs /\ entry' = entry
  BY DEF HandlerReturns, HandlerThrows, Child
<1>2. procs[current] \in Children /\ procs' = [procs EXCEPT ![current] = procs[current]]
  BY <1>1, ChildFacts
<1>3. CASE HandlerThrows
  BY <1>1, <1>2, <1>3, ThrowInv DEF HandlerThrows, Requesting
<1>4. CASE HandlerReturns /\ call.kind = "run"
  <2>1. at' = "shutdown" /\ thrown' = thrown /\ current' = current
    BY <1>4 DEF HandlerReturns
  <2>2. Arrives(procs[current]) /\ ArrivesClean(procs[current])
    BY <1>1, <1>4, <2>1, Here
    DEF Arrives, ArrivesClean, Places, Requesting, Starting, NotYetTold
  <2> QED
    BY <1>1, <2>1, <2>2, Here, StayInv
<1>5. CASE HandlerReturns /\ call.kind = "live"
  <2>1. End(FALSE)
    BY <1>5 DEF HandlerReturns
  <2> QED
    BY <1>1, <1>2, <1>5, <2>1, LiveEndInv
<1> QED
  BY <1>1, <1>3, <1>4, <1>5, Here DEF Routes, Starting

LEMMA SendExitInv == ASSUME ServiceInv, SendExit PROVE ServiceInv'
<1> DEFINE c == [Child EXCEPT !.exit = TRUE, !.stdin = FALSE]
<1>1. /\ at = "exit" /\ Child.up /\ procs' = [procs EXCEPT ![current] = c]
      /\ at' = IF call.kind = "run" THEN "wait" ELSE "destroy"
      /\ thrown' = thrown /\ entry' = entry
  BY DEF SendExit, SetChild
<1>2. /\ c \in Children /\ c.launch = Child.launch /\ c.kind = Child.kind
      /\ c.told = Child.told /\ c.exit = TRUE
  BY <1>1, Here DEF Child, Children
<1>3. Arrives(c) /\ ArrivesClean(c)
  BY <1>1, <1>2, Here
  DEF Arrives, ArrivesClean, Places, Requesting, Starting, Child, Routes, CleanSoFar, Waited
<1> QED
  BY <1>1, <1>2, <1>3, Here, MoveInv DEF SendExit, Child

LEMMA ExitThrowsInv == ASSUME ServiceInv, ExitThrows PROVE ServiceInv'
<1>1. at = "exit" /\ ~procs[current].up /\ procs' = procs /\ entry' = entry
  BY DEF ExitThrows, Child
<1>2. \/ at' = "destroy" /\ thrown' = thrown /\ call.kind = "close"
      \/ at' = "shutdown" /\ thrown' = TRUE /\ call.kind = "run"
      \/ at' = "wait" /\ thrown' = thrown /\ thrown = TRUE /\ call.kind = "run"
  BY <1>1, Here DEF ExitThrows, Routes
<1>3. Arrives(procs[current]) /\ ArrivesClean(procs[current])
  BY <1>1, <1>2, Here
  DEF Arrives, ArrivesClean, Places, Requesting, Starting, Waited
<1> QED
  BY <1>1, <1>2, <1>3, Here, StayInv DEF ExitThrows

LEMMA WaitInv == ASSUME ServiceInv, Wait PROVE ServiceInv'
<1>1. at = "wait" /\ ~procs[current].up /\ at' = "destroy" /\ thrown' = thrown /\ entry' = entry
  BY DEF Wait, Child
<1>2. Arrives(procs[current]) /\ ArrivesClean(procs[current])
  BY <1>1, Here
  DEF Arrives, ArrivesClean, Places, Requesting, Starting, Waited, Routes, CleanSoFar
<1> QED
  BY <1>1, <1>2, Here, StayInv DEF Wait

LEMMA DestroyInv == ASSUME ServiceInv, Destroy PROVE ServiceInv'
<1>1. PICK killed \in BOOLEAN :
        SetChild([Child EXCEPT !.stdin = FALSE, !.errFd = FALSE, !.up = @ /\ ~killed])
  BY DEF Destroy
<1> DEFINE up == Child.up /\ ~killed
           c == [Child EXCEPT !.stdin = FALSE, !.errFd = FALSE, !.up = up]
<1>2. /\ at = "destroy" /\ at' = "join" /\ thrown' = thrown /\ entry' = entry
      /\ procs' = [procs EXCEPT ![current] = c]
  BY <1>1 DEF Destroy, SetChild
<1>3. up \in BOOLEAN /\ (up => Child.up)
  OBVIOUS
<1> HIDE DEF up
<1>4. /\ c \in Children /\ c.launch = Child.launch /\ c.kind = Child.kind /\ c.exit = Child.exit
      /\ c.told = Child.told /\ c.drainer = Child.drainer /\ c.up = up
      /\ c.stdin = FALSE /\ c.errFd = FALSE
  BY <1>2, <1>3, Here DEF Child, Children
<1>5. Arrives(c) /\ ArrivesClean(c)
  BY <1>2, <1>3, <1>4, Here
  DEF Arrives, ArrivesClean, Places, Requesting, Starting, Waited, Teardown, CleanSoFar, Child
<1> QED
  BY <1>2, <1>4, <1>5, Here, MoveInv DEF Destroy, Child

LEMMA JoinInv == ASSUME ServiceInv, Join PROVE ServiceInv'
<1>1. /\ at = "join" /\ procs[current].drainer \in Ended /\ End(thrown)
      /\ entry' = IF call.kind = "close" THEN 0 ELSE entry
      /\ logSet' = logSet /\ call' = call /\ calls' = calls /\ procs' = procs
  BY DEF Join, Child, Ended
<1>2. Gone(procs[current])
  BY <1>1, Here DEF Gone, Teardown
<1>3. call.kind = "close" => entry = current
  BY <1>1, Here DEF ServiceInv, Ownership
<1>4. call.kind = "live" => entry = 0
  BY <1>1, Here
<1>5. \A p \in DOMAIN procs : p # entry' => Gone(procs'[p])
  BY <1>1, <1>2, <1>3 DEF ServiceInv, OthersGone
<1>6. entry' # 0 => procs[entry'].told = 0
  BY <1>1, <1>4, Here DEF NotYetTold
<1>7. ~thrown /\ call.kind = "run" =>
        LET c == procs'[Len(procs)]
        IN  procs # <<>> /\ c.told = 1 /\ c.exit /\ ~c.up
  BY <1>1, Here, ChildFacts DEF ServiceInv, Ownership, CleanSoFar
<1> QED
  BY <1>1, <1>5, <1>6, <1>7, EndInv, ChildFacts, Here

LEMMA SpawnInv == ASSUME ServiceInv, Spawn PROVE ServiceInv'
<1>1. /\ at = "spawn" /\ at' = "drain" /\ current = 0 /\ current' = Len(procs) + 1
      /\ procs' = Append(procs, NewProc) /\ entry' = entry /\ call' = call /\ thrown' = thrown
      /\ logSet' = logSet /\ calls' = calls
      /\ call.kind \in {"run", "live"} /\ call \in Calls
  BY ChildFacts, ControlType DEF Spawn, ServiceInv, Routes
<1>2. /\ NewProc \in Children /\ NewProc.kind = call.kind /\ NewProc.launch = call.launch
      /\ NewProc.told = 0 /\ NewProc.ask = "none"
  BY <1>1, ServiceAssumption DEF NewProc, Children, Calls, Asks, Drainers
<1>3. /\ procs' \in Seq(Children) /\ Len(procs') = Len(procs) + 1
      /\ DOMAIN procs' = 1 .. Len(procs) + 1
      /\ procs'[Len(procs) + 1] = NewProc
      /\ \A q \in DOMAIN procs : procs'[q] = procs[q]
      /\ Len(procs) \in Nat /\ DOMAIN procs = 1 .. Len(procs)
      /\ entry \in 0 .. Len(procs)
  BY <1>1, <1>2, ChildFacts
<1>4. TypeOK'
  <2>1. current' \in 0 .. Len(procs') /\ entry' \in 0 .. Len(procs') /\ current' # 0
    BY <1>1, <1>3
  <2> QED
    BY <1>1, <1>3, <2>1, TypeAgain, ControlType DEF Places
<1>5. Routes' /\ SameLaunch'
  BY <1>1, <1>2, <1>3 DEF Routes, SameLaunch, Starting
<1>6. Ownership'
  BY <1>1, <1>2, <1>3, ChildFacts DEF ServiceInv, Ownership, Starting
<1>7. OthersGone'
  BY <1>1, <1>3 DEF ServiceInv, OthersGone
<1>8. ToldOnce'
  <2>1. ASSUME NEW q \in DOMAIN procs' PROVE procs'[q].told <= 1
    <3>1. CASE q = Len(procs) + 1
      BY <1>2, <1>3, <3>1
    <3>2. CASE q \in DOMAIN procs
      BY <1>3, <3>2 DEF ServiceInv, ToldOnce
    <3> QED
      BY <1>3, <3>1, <3>2
  <2> QED
    BY <2>1 DEF ToldOnce
<1>9. NotYetTold'
  <2>1. entry # 0 => entry \in DOMAIN procs
    BY <1>3
  <2> QED
    BY <1>1, <1>2, <1>3, <2>1 DEF ServiceInv, NotYetTold, Starting
<1>10. Teardown' /\ CleanSoFar' /\ CleanResult'
  BY <1>1 DEF Teardown, CleanSoFar, CleanResult
<1> QED
  BY <1>4, <1>5, <1>6, <1>7, <1>8, <1>9, <1>10 DEF ServiceInv

LEMMA StutterInv == ASSUME ServiceInv, UNCHANGED vars PROVE ServiceInv'
BY DEF vars, control, ServiceInv, TypeOK, Routes, Ownership, OthersGone, Teardown,
       NotYetTold, CleanSoFar, ToldOnce, SameLaunch, CleanResult

-----------------------------------------------------------------------------
(* What LiveSession's owner relies on: a live call that returns leaves an   *)
(* entry that was launched as the call asked, nothing but a shutdown takes  *)
(* an entry away, and after a shutdown there is none.                       *)

LiveFails == call.kind = "live" /\ at \in {"destroy", "join"} => thrown

LiveDone ==
    at = "idle" /\ call.kind = "live" /\ ~thrown =>
        entry # 0 /\ procs[entry].launch = call.launch

ClosedDone == at = "idle" /\ call.kind = "close" => entry = 0

Settled == LiveFails /\ LiveDone /\ ClosedDone

\* A child is launched once and for all, and the entry stays while it is live.
LaunchesStay ==
    \A p \in DOMAIN procs : p \in DOMAIN procs' /\ procs'[p].launch = procs[p].launch
EntryStays == entry # 0 => entry' = entry \/ (entry' = 0 /\ call.kind = "close")

LEMMA InitSettled == Init => Settled
BY DEF Init, Settled, LiveFails, LiveDone, ClosedDone

LEMMA ChildStays ==
    ASSUME ServiceInv, NEW p \in DOMAIN procs, ProcStep(p)
    PROVE  LaunchesStay /\ UNCHANGED control
<1>1. \E c \in Children : Set(p, c) /\ c.launch = procs[p].launch
  BY ProcStepDrifts DEF Drifts, ServiceInv
<1> QED
  BY <1>1, ChildFacts DEF Set, LaunchesStay

\* The calling thread changes its child, or adds one.
LEMMA CallerStays ==
    ASSUME ServiceInv, Caller
    PROVE  /\ LaunchesStay /\ EntryStays
           /\ call'.kind = call.kind /\ call'.launch = call.launch
<1>1. call'.kind = call.kind /\ call'.launch = call.launch
  BY DEF ServiceInv, TypeOK, Caller, Refuse, StartFresh, Reuse, Close, Spawn, SpawnThrows,
         StartDrainer, OpenLogThrows, Ask, Answered, RequestThrows, SendInitialized,
         HandlerReturns, HandlerThrows, SendExit, ExitThrows, Wait, Destroy, Join
<1>2. EntryStays
  BY DEF ServiceInv, Ownership, Starting, EntryStays,
         Caller, Refuse, StartFresh, Reuse, Close, Spawn, SpawnThrows,
         StartDrainer, OpenLogThrows, Ask, Answered, RequestThrows, SendInitialized,
         HandlerReturns, HandlerThrows, SendExit, ExitThrows, Wait, Destroy, Join
<1>3. LaunchesStay
  <2>1. CASE UNCHANGED procs
    BY <2>1 DEF LaunchesStay
  <2>2. CASE Spawn
    BY <2>2, ChildFacts DEF Spawn, LaunchesStay
  <2>3. ASSUME NEW c, SetChild(c), c.launch = Child.launch, current # 0 PROVE LaunchesStay
    BY <2>3, ChildFacts DEF SetChild, Child, LaunchesStay
  <2>4. current # 0 => Child \in Children
    BY ChildFacts DEF Child
  <2>5. CASE StartDrainer \/ OpenLogThrows \/ SendExit
    <3>1. current # 0
      BY <2>5, ChildFacts DEF StartDrainer, OpenLogThrows, SendExit
    <3>2. /\ [Child EXCEPT !.drainer = "ready"].launch = Child.launch
          /\ [Child EXCEPT !.drainer = "failed"].launch = Child.launch
          /\ [Child EXCEPT !.exit = TRUE, !.stdin = FALSE].launch = Child.launch
      BY <2>4, <3>1 DEF Children
    <3> QED
      BY <2>1, <2>3, <2>5, <3>1, <3>2 DEF StartDrainer, OpenLogThrows, SendExit
  <2>7. CASE Destroy
    <3>1. current # 0
      BY <2>7, ChildFacts DEF Destroy
    <3>2. PICK killed \in BOOLEAN :
             SetChild([Child EXCEPT !.stdin = FALSE, !.errFd = FALSE, !.up = @ /\ ~killed])
      BY <2>7 DEF Destroy
    <3> DEFINE c == [Child EXCEPT !.stdin = FALSE, !.errFd = FALSE, !.up = @ /\ ~killed]
    <3>3. c.launch = Child.launch /\ SetChild(c)
      BY <2>4, <3>1, <3>2 DEF Children
    <3> HIDE DEF c
    <3> QED
      BY <2>3, <3>1, <3>3
  <2>6. CASE Ask \/ Answered \/ RequestThrows
    <3>1. current # 0
      BY <2>6, ChildFacts DEF Ask, Answered, RequestThrows, Requesting
    <3> DEFINE told == IF at = "shutdown" /\ Child.up THEN Child.told + 1 ELSE Child.told
    <3>2. SetChild([Child EXCEPT !.ask = "waiting", !.told = told])
          \/ SetChild([Child EXCEPT !.ask = "none"])
      BY <2>6 DEF Ask, Answered, RequestThrows
    <3>3. \A t : [Child EXCEPT !.ask = "waiting", !.told = t].launch = Child.launch
      BY <2>4, <3>1 DEF Children
    <3>4. [Child EXCEPT !.ask = "none"].launch = Child.launch
      BY <2>4, <3>1 DEF Children
    <3> HIDE DEF told
    <3> QED
      BY <2>3, <3>1, <3>2, <3>3, <3>4
  <2> QED
    BY <2>1, <2>2, <2>5, <2>6, <2>7
    DEF Caller, Refuse, StartFresh, Reuse, Close, SpawnThrows, SendInitialized,
        HandlerReturns, HandlerThrows, ExitThrows, Wait, Join
<1> QED
  BY <1>1, <1>2, <1>3

LEMMA SettledStep ==
    ASSUME ServiceInv, Settled, Next
    PROVE  Settled' /\ LaunchesStay /\ EntryStays
<1> USE DEF Settled
<1>1. ASSUME NEW kind \in Kinds, NEW launch \in Launches, Begin(kind, launch)
      PROVE  Settled' /\ LaunchesStay /\ EntryStays
  BY <1>1 DEF Begin, LiveFails, LiveDone, ClosedDone, LaunchesStay, EntryStays
<1>2. ASSUME NEW p \in DOMAIN procs, ProcStep(p) PROVE Settled' /\ LaunchesStay /\ EntryStays
  <2>1. LaunchesStay /\ UNCHANGED <<call, at, thrown, current, entry>>
    BY <1>2, ChildStays DEF control
  <2> QED
    BY <2>1, ChildFacts DEF LiveFails, LiveDone, ClosedDone, LaunchesStay, EntryStays
<1>3. CASE Over
  BY <1>3, ChildFacts
  DEF Over, vars, control, LiveFails, LiveDone, ClosedDone, LaunchesStay, EntryStays
<1>4. CASE Caller
  <2>1. /\ LaunchesStay /\ EntryStays
        /\ call'.kind = call.kind /\ call'.launch = call.launch
    BY <1>4, CallerStays
  <2>t. thrown \in BOOLEAN
    BY DEF ServiceInv, TypeOK
  <2>2. LiveFails'
    <3>1. ASSUME call.kind = "live", at' \in {"destroy", "join"} PROVE thrown'
      BY <1>4, <2>t, <3>1
      DEF LiveFails, ServiceInv, Routes, Starting, Requesting, End, Throw,
          Caller, Refuse, StartFresh, Reuse, Close, Spawn, SpawnThrows,
          StartDrainer, OpenLogThrows, Ask, Answered, RequestThrows, SendInitialized,
          HandlerReturns, HandlerThrows, SendExit, ExitThrows, Wait, Destroy, Join
    <3> QED
      BY <2>1, <3>1 DEF LiveFails
  <2>3. LiveDone'
    <3>1. ASSUME call.kind = "live", at' = "idle", ~thrown'
          PROVE  at = "handler" /\ entry' = entry
      BY <1>4, <2>t, <3>1
      DEF LiveFails, ServiceInv, Routes, Starting, Requesting, End, Throw,
          Caller, Refuse, StartFresh, Reuse, Close, Spawn, SpawnThrows,
          StartDrainer, OpenLogThrows, Ask, Answered, RequestThrows, SendInitialized,
          HandlerReturns, HandlerThrows, SendExit, ExitThrows, Wait, Destroy, Join
    <3>2. call.kind = "live" /\ at = "handler" =>
             entry # 0 /\ entry \in DOMAIN procs /\ procs[entry].launch = call.launch
      BY ChildFacts DEF ServiceInv, Ownership, SameLaunch
    <3> QED
      BY <2>1, <3>1, <3>2 DEF LiveDone, LaunchesStay
  <2>4. ClosedDone'
    <3>1. ASSUME call.kind = "close", at' = "idle" PROVE entry' = 0
      BY <1>4, <3>1
      DEF ServiceInv, Routes, Starting, Requesting, End, Throw,
          Caller, Refuse, StartFresh, Reuse, Close, Spawn, SpawnThrows,
          StartDrainer, OpenLogThrows, Ask, Answered, RequestThrows, SendInitialized,
          HandlerReturns, HandlerThrows, SendExit, ExitThrows, Wait, Destroy, Join
    <3> QED
      BY <2>1, <3>1 DEF ClosedDone
  <2> QED
    BY <2>1, <2>2, <2>3, <2>4
<1> QED
  BY <1>1, <1>2, <1>3, <1>4 DEF Next

-----------------------------------------------------------------------------
(* The theorems.                                                           *)

\* A step of anybody: a call, a child or a drainer.
LEMMA NextInv == ASSUME ServiceInv, Next PROVE ServiceInv'
<1>1. ASSUME NEW kind \in Kinds, NEW launch \in Launches, Begin(kind, launch) PROVE ServiceInv'
  BY <1>1, BeginInv
<1>2. CASE Refuse \/ SpawnThrows
  BY <1>2, RefuseInv
<1>3. CASE StartFresh
  BY <1>3, StartFreshInv
<1>4. CASE Reuse
  BY <1>4, ReuseInv, TakeEntryInv DEF Reuse
<1>5. CASE Close
  <2>1. entry # 0 => current' = entry
    BY <1>5 DEF Close
  <2> QED
    BY <1>5, <2>1, CloseNothingInv, TakeEntryInv
<1>6. CASE Spawn \/ StartDrainer \/ OpenLogThrows
  BY <1>6, SpawnInv, StartDrainerInv, OpenLogInv
<1>7. CASE Ask \/ Answered \/ RequestThrows
  BY <1>7, AskInv, AnsweredInv, RequestThrowsInv
<1>8. CASE SendInitialized \/ HandlerReturns \/ HandlerThrows
  BY <1>8, SendInitializedInv, HandlerInv
<1>9. CASE SendExit \/ ExitThrows \/ Wait \/ Destroy \/ Join
  BY <1>9, SendExitInv, ExitThrowsInv, WaitInv, DestroyInv, JoinInv
<1>10. ASSUME NEW p \in DOMAIN procs, ProcStep(p) PROVE ServiceInv'
  BY <1>10, ProcStepInv
<1>11. CASE Over
  BY <1>11, StutterInv DEF Over
<1> QED
  BY <1>1, <1>2, <1>3, <1>4, <1>5, <1>6, <1>7, <1>8, <1>9, <1>10, <1>11 DEF Next, Caller

\* Whatever the callers, the children and the drainers do, in any order.
THEOREM ServiceInvariant == Spec => []ServiceInv
BY InitInv, NextInv, StutterInv, PTL DEF Spec

\* Every variable of the service keeps its type.
THEOREM ServiceTyped == Spec => []TypeOK
BY ServiceInvariant, PTL DEF ServiceInv

\* No call works with a server that was launched for something else.
THEOREM LaunchKept == Spec => []SameLaunch
BY ServiceInvariant, PTL DEF ServiceInv

\* A one-shot result implies that the living child was asked to shut down, was
\* sent exit, and is gone; that the shutdown was answered it does not imply.
THEOREM ResultsClean == Spec => []CleanResult
BY ServiceInvariant, PTL DEF ServiceInv

\* Repeating the teardown asks no living server to shut down twice.
THEOREM ToldAtMostOnce == Spec => []ToldOnce
BY ServiceInvariant, PTL DEF ServiceInv

\* Between calls no child but the live session's has a descriptor or a thread of
\* ours.
THEOREM NoLeaks == Spec => []NothingLeaks
<1>1. ServiceInv => NothingLeaks
  BY ChildFacts DEF ServiceInv, OthersGone, NothingLeaks, Gone, Ended
<1> QED
  BY <1>1, ServiceInvariant, PTL

\* Nor does one run on without having lost its input, and a one-shot call's child
\* runs on at all only when its log could not be opened.
THEOREM StraysExplained == Spec => []NoStrays
<1>1. ServiceInv => NoStrays
  BY ChildFacts DEF ServiceInv, OthersGone, NoStrays, Gone, Waited
<1> QED
  BY <1>1, ServiceInvariant, PTL
===============================================================================
