-------------------------------- MODULE Service --------------------------------
(***************************************************************************)
(* clspc::service (src/service.cpp): who owns the language servers.         *)
(*                                                                         *)
(* A run_* function spawns a server for one call and takes it down again    *)
(* (with_started_session).  LiveSession spawns one with its first call and  *)
(* keeps it until shutdown.  A StderrDrainer, when there is one, is a       *)
(* thread that empties the child's stderr pipe, which nobody else reads.    *)
(*                                                                         *)
(* LspSession says what one request does; here it is asked and answered,    *)
(* fails with the child alive, or is cut short by the end of the child.    *)
(***************************************************************************)
EXTENDS Naturals, Sequences

CONSTANTS
    Launches,    \* LaunchOptions: records with the fields workspace and rest
    PipeCap,     \* lines a stderr pipe holds; a writer blocks when it is full
    MaxCalls,    \* bound: calls of the service
    MaxAsks,     \* bound: requests made by one handler
    MaxLines     \* bound: lines a child writes to its stderr

ASSUME LaunchesAssumption == Launches # {}
ASSUME ServiceAssumption ==
    PipeCap \in Nat \ {0} /\ MaxCalls \in Nat /\ MaxAsks \in Nat /\ MaxLines \in Nat

VARIABLES
    logSet,     \* CLSPC_CHILD_STDERR_LOG names a file
    call,       \* the call in progress, or the last one
    at,         \* where the calling thread is
    thrown,     \* an exception is on its way to the caller
    current,    \* the child this call works with, 0 when none
    entry,      \* LiveSession's child, 0 when it has none
    procs,      \* the children, in the order of their spawning
    calls       \* counter against MaxCalls

control == <<call, at, thrown, current, entry>>
vars == <<logSet, control, procs, calls>>

Kinds == {"run", "live", "close"}    \* run_*, a method of LiveSession, its shutdown
Requesting == {"initialize", "handler", "shutdown"}
Places == Requesting \cup
          {"idle", "begin", "spawn", "drain", "initialized", "exit", "wait", "destroy", "join"}

NewProc == [launch |-> call.launch, kind |-> call.kind, up |-> TRUE, ask |-> "none",
            told |-> 0, exit |-> FALSE, stdin |-> TRUE, errFd |-> TRUE,
            drainer |-> "none", pipe |-> 0, lines |-> MaxLines, writing |-> FALSE]

Init ==
    /\ logSet \in BOOLEAN
    /\ call = [kind |-> "close", launch |-> CHOOSE l \in Launches : TRUE, asks |-> 0]
    /\ at = "idle" /\ thrown = FALSE /\ current = 0 /\ entry = 0
    /\ procs = <<>> /\ calls = 0

-----------------------------------------------------------------------------
(* The calling thread.                                                      *)

Child == procs[current]
SetChild(p) == procs' = [procs EXCEPT ![current] = p]

\* The call returns or throws to its caller.
End(throws) ==
    /\ at' = "idle" /\ thrown' = throws /\ current' = 0

Begin(kind, launch) ==
    /\ at = "idle" /\ calls < MaxCalls
    /\ call' = [kind |-> kind, launch |-> launch, asks |-> 0]
    /\ at' = "begin" /\ thrown' = FALSE /\ calls' = calls + 1
    /\ UNCHANGED <<logSet, current, entry, procs>>

\* An argument is empty, or the workspace directory cannot be made.
Refuse ==
    /\ at = "begin" /\ call.kind # "close"
    /\ End(TRUE)
    /\ UNCHANGED <<logSet, call, entry, procs, calls>>

\* Defect: only the workspace is compared.
SameWorkspace(launch) == procs[entry].launch.workspace = launch.workspace

same_live_config(launch) == procs[entry].launch = launch

\* with_started_session always spawns, ensure_started when there is no entry.
StartFresh ==
    /\ at = "begin"
    /\ call.kind = "run" \/ (call.kind = "live" /\ entry = 0)
    /\ at' = "spawn"
    /\ UNCHANGED <<logSet, call, thrown, current, entry, procs, calls>>

Reuse ==
    /\ at = "begin" /\ call.kind = "live" /\ entry # 0
    /\ IF same_live_config(call.launch)
       THEN at' = "handler" /\ current' = entry /\ UNCHANGED thrown
       ELSE End(TRUE)
    /\ UNCHANGED <<logSet, call, entry, procs, calls>>

Close ==
    /\ at = "begin" /\ call.kind = "close"
    /\ IF entry = 0 THEN End(FALSE)
       ELSE at' = "shutdown" /\ current' = entry /\ UNCHANGED thrown
    /\ UNCHANGED <<logSet, call, entry, procs, calls>>

Spawn ==
    /\ at = "spawn"
    /\ procs' = Append(procs, NewProc)
    /\ current' = Len(procs) + 1 /\ at' = "drain"
    /\ UNCHANGED <<logSet, call, thrown, entry, calls>>

SpawnThrows ==
    /\ at = "spawn" /\ End(TRUE)
    /\ UNCHANGED <<logSet, call, entry, procs, calls>>

\* A one-shot call drains stderr only into a named log, LiveSession always does.
Drains == call.kind = "live" \/ logSet

StartDrainer ==
    /\ at = "drain" /\ at' = "initialize"
    /\ IF Drains THEN SetChild([Child EXCEPT !.drainer = "ready"]) ELSE UNCHANGED procs
    /\ UNCHANGED <<logSet, call, thrown, current, entry, calls>>

\* The log cannot be opened: the child goes without a word.
OpenLogThrows ==
    /\ at = "drain" /\ Drains
    /\ SetChild([Child EXCEPT !.drainer = "failed"])
    /\ at' = "destroy" /\ thrown' = TRUE
    /\ UNCHANGED <<logSet, call, current, entry, calls>>

\* Defect: a failed shutdown request is not swallowed.
ThrowFromShutdown ==
    CASE at = "shutdown" /\ ~thrown -> thrown' = TRUE /\ UNCHANGED <<at, current>>
      [] at = "shutdown" /\ thrown -> at' = "exit" /\ UNCHANGED <<thrown, current>>
      [] at \in {"initialize", "initialized", "handler"} /\ call.kind = "run" ->
           at' = "shutdown" /\ thrown' = TRUE /\ UNCHANGED current
      [] at \in {"initialize", "initialized"} /\ call.kind = "live" ->
           at' = "destroy" /\ thrown' = TRUE /\ UNCHANGED current
      [] at = "handler" /\ call.kind = "live" -> End(TRUE)

\* Where an exception leads from a statement of the session's life.  Shutdown
\* swallows it; a one-shot call takes its server down and rethrows; a live call
\* drops a session that did not start and keeps one that did.
Throw ==
    CASE at = "shutdown" -> at' = "exit" /\ UNCHANGED <<thrown, current>>
      [] at \in {"initialize", "initialized", "handler"} /\ call.kind = "run" ->
           at' = "shutdown" /\ thrown' = TRUE /\ UNCHANGED current
      [] at \in {"initialize", "initialized"} /\ call.kind = "live" ->
           at' = "destroy" /\ thrown' = TRUE /\ UNCHANGED current
      [] at = "handler" /\ call.kind = "live" -> End(TRUE)

\* A request is on its way; one for shutdown has told a child that lives.
Ask ==
    /\ at \in Requesting /\ Child.ask = "none"
    /\ at = "handler" => call.asks < MaxAsks
    /\ SetChild([Child EXCEPT !.ask = "waiting",
                              !.told = IF at = "shutdown" /\ Child.up THEN @ + 1 ELSE @])
    /\ call' = IF at = "handler" THEN [call EXCEPT !.asks = @ + 1] ELSE call
    /\ UNCHANGED <<logSet, at, thrown, current, entry, calls>>

Answered ==
    /\ at \in Requesting /\ Child.ask = "answered"
    /\ SetChild([Child EXCEPT !.ask = "none"])
    /\ at' = CASE at = "initialize" -> "initialized"
               [] at = "handler"    -> "handler"
               [] at = "shutdown"   -> "exit"
    /\ UNCHANGED <<logSet, call, thrown, current, entry, calls>>

\* The request has failed, or the child's output is at its end.
RequestThrows ==
    /\ at \in Requesting
    /\ Child.ask = "failed" \/ (Child.ask = "waiting" /\ ~Child.up)
    /\ SetChild([Child EXCEPT !.ask = "none"])
    /\ Throw
    /\ UNCHANGED <<logSet, call, entry, calls>>

SendInitialized ==
    /\ at = "initialized"
    /\ IF Child.up
       THEN /\ at' = "handler" /\ UNCHANGED <<thrown, current>>
            /\ entry' = IF call.kind = "live" THEN current ELSE entry
       ELSE Throw /\ UNCHANGED entry
    /\ UNCHANGED <<logSet, call, procs, calls>>

\* The handler has what it wants.
HandlerReturns ==
    /\ at = "handler" /\ Child.ask = "none"
    /\ IF call.kind = "run" THEN at' = "shutdown" /\ UNCHANGED <<thrown, current>>
       ELSE End(FALSE)
    /\ UNCHANGED <<logSet, call, entry, procs, calls>>

\* A deadline has passed, a file cannot be read, an answer cannot be parsed.
HandlerThrows ==
    /\ at = "handler" /\ Child.ask = "none"
    /\ Throw
    /\ UNCHANGED <<logSet, call, entry, procs, calls>>

\* Defect: the exit notification is forgotten, and the input stays open.
SendExitSilently ==
    /\ at = "exit" /\ Child.up
    /\ at' = IF call.kind = "run" THEN "wait" ELSE "destroy"
    /\ UNCHANGED <<logSet, call, thrown, current, entry, procs, calls>>

\* The exit notification, then the end of the child's input.
SendExit ==
    /\ at = "exit" /\ Child.up
    /\ SetChild([Child EXCEPT !.exit = TRUE, !.stdin = FALSE])
    /\ at' = IF call.kind = "run" THEN "wait" ELSE "destroy"
    /\ UNCHANGED <<logSet, call, thrown, current, entry, calls>>

\* Nobody reads any more: a one-shot call enters its catch clause and tries the
\* whole teardown again, in the catch clause it goes on to wait.
ExitThrows ==
    /\ at = "exit" /\ ~Child.up
    /\ CASE call.kind = "close"            -> at' = "destroy" /\ UNCHANGED thrown
         [] call.kind = "run" /\ ~thrown   -> at' = "shutdown" /\ thrown' = TRUE
         [] call.kind = "run" /\ thrown    -> at' = "wait" /\ UNCHANGED thrown
    /\ UNCHANGED <<logSet, call, current, entry, procs, calls>>

\* Defect: wait returns at once.
WaitReturns ==
    /\ at = "wait"
    /\ at' = "destroy"
    /\ UNCHANGED <<logSet, call, thrown, current, entry, procs, calls>>

Wait ==
    /\ at = "wait" /\ ~Child.up
    /\ at' = "destroy"
    /\ UNCHANGED <<logSet, call, thrown, current, entry, procs, calls>>

\* ~Session, or ~PipedChild when there is no Session yet: our ends of the pipes
\* are closed.  Whether the child is killed is the library's business.
Destroy ==
    /\ at = "destroy" /\ at' = "join"
    /\ \E killed \in BOOLEAN :
         SetChild([Child EXCEPT !.stdin = FALSE, !.errFd = FALSE,
                                !.up = @ /\ ~killed])
    /\ UNCHANGED <<logSet, call, thrown, current, entry, calls>>

\* Defect: the thread is detached instead of joined.
Detach ==
    /\ at = "join"
    /\ End(thrown)
    /\ entry' = IF call.kind = "close" THEN 0 ELSE entry
    /\ UNCHANGED <<logSet, call, procs, calls>>

Join ==
    /\ at = "join" /\ Child.drainer \in {"none", "failed", "stopped"}
    /\ End(thrown)
    /\ entry' = IF call.kind = "close" THEN 0 ELSE entry
    /\ UNCHANGED <<logSet, call, procs, calls>>

Caller ==
    \/ Refuse \/ StartFresh \/ Reuse \/ Close
    \/ Spawn \/ SpawnThrows \/ StartDrainer \/ OpenLogThrows
    \/ Ask \/ Answered \/ RequestThrows
    \/ SendInitialized \/ HandlerReturns \/ HandlerThrows
    \/ SendExit \/ ExitThrows \/ Wait \/ Destroy \/ Join

-----------------------------------------------------------------------------
(* The children and the drainer threads.                                    *)

Set(p, child) == procs' = [procs EXCEPT ![p] = child] /\ UNCHANGED <<logSet, control, calls>>

\* A read under way keeps the pipe open after the descriptor is closed.
ReadEndOpen(p) == procs[p].errFd \/ procs[p].drainer = "reading"

\* The child answers.  Its answer may be an error or one that a parser refuses,
\* and what it writes instead may be no message to the codec: the request then
\* fails, and the child lives on.
Answer(p) ==
    /\ procs[p].up /\ ~procs[p].writing /\ procs[p].ask = "waiting"
    /\ \E a \in {"answered", "failed"} : Set(p, [procs[p] EXCEPT !.ask = a])

StartLine(p) ==
    /\ procs[p].up /\ ~procs[p].writing /\ procs[p].lines > 0
    /\ Set(p, [procs[p] EXCEPT !.writing = TRUE, !.lines = @ - 1])

\* Into the pipe, or nowhere when its other end is closed.
FinishLine(p) ==
    /\ procs[p].up /\ procs[p].writing
    /\ \/ /\ ReadEndOpen(p) /\ procs[p].pipe < PipeCap
          /\ Set(p, [procs[p] EXCEPT !.writing = FALSE, !.pipe = @ + 1])
       \/ /\ ~ReadEndOpen(p)
          /\ Set(p, [procs[p] EXCEPT !.writing = FALSE])

\* Told to exit, or at the end of its input.
Exit(p) ==
    /\ procs[p].up /\ ~procs[p].writing /\ (procs[p].exit \/ ~procs[p].stdin)
    /\ Set(p, [procs[p] EXCEPT !.up = FALSE])

Die(p) == procs[p].up /\ Set(p, [procs[p] EXCEPT !.up = FALSE])

\* A descriptor closed under the drainer ends it with an error.
DrainerLoops(p) ==
    /\ procs[p].drainer = "ready"
    /\ Set(p, [procs[p] EXCEPT !.drainer = IF procs[p].errFd THEN "reading" ELSE "stopped"])

DrainerReads(p) ==
    /\ procs[p].drainer = "reading"
    /\ \/ procs[p].pipe > 0
          /\ Set(p, [procs[p] EXCEPT !.drainer = "writing", !.pipe = @ - 1])
       \/ procs[p].pipe = 0 /\ ~procs[p].up
          /\ Set(p, [procs[p] EXCEPT !.drainer = "stopped"])


\* The log takes the line, or the drainer gives up.
DrainerWrites(p) ==
    /\ procs[p].drainer = "writing"
    /\ \E next \in {"ready", "stopped"} : Set(p, [procs[p] EXCEPT !.drainer = next])

Drainer(p) == DrainerLoops(p) \/ DrainerReads(p) \/ DrainerWrites(p)

ProcStep(p) ==
    Answer(p) \/ StartLine(p) \/ FinishLine(p) \/ Exit(p) \/ Die(p) \/ Drainer(p)

Over == at = "idle" /\ calls = MaxCalls /\ UNCHANGED vars

Next ==
    \/ \E kind \in Kinds, launch \in Launches : Begin(kind, launch)
    \/ Caller
    \/ \E p \in DOMAIN procs : ProcStep(p)
    \/ Over

Spec == Init /\ [][Next]_vars

\* The threads run; a server that is not stuck on its log answers and, told to
\* exit or out of input, exits.
Fairness ==
    /\ WF_vars(Caller)
    /\ \A p \in 1 .. MaxCalls :
         /\ WF_vars(p \in DOMAIN procs /\ Drainer(p))
         /\ WF_vars(p \in DOMAIN procs /\ Answer(p))
         /\ WF_vars(p \in DOMAIN procs /\ FinishLine(p))
         /\ WF_vars(p \in DOMAIN procs /\ Exit(p))

FairSpec == Spec /\ Fairness

-----------------------------------------------------------------------------
(* Properties.                                                              *)

\* Variables hold what their declarations say; a thread that works with a child
\* has one, and the live session's child is one of the children.
TypeOK ==
    /\ logSet \in BOOLEAN /\ thrown \in BOOLEAN
    /\ call \in [kind : Kinds, launch : Launches, asks : 0 .. MaxAsks]
    /\ at \in Places /\ calls \in 0 .. MaxCalls
    /\ procs \in Seq([launch : Launches, kind : {"run", "live"}, up : BOOLEAN,
                      ask : {"none", "waiting", "answered", "failed"},
                      told : Nat, exit : BOOLEAN, stdin : BOOLEAN, errFd : BOOLEAN,
                      drainer : {"none", "ready", "reading", "writing", "failed", "stopped"},
                      pipe : 0 .. PipeCap, lines : 0 .. MaxLines, writing : BOOLEAN])
    /\ current \in 0 .. Len(procs) /\ entry \in 0 .. Len(procs)
    /\ current = 0 <=> at \in {"idle", "begin", "spawn"}

\* Every request of a call goes to a server that was launched for the same root,
\* workspace, home and java as the call names (same_live_config, spawn).
SameLaunch ==
    current # 0 /\ call.kind # "close" => procs[current].launch = call.launch

\* A child the program no longer keeps has at least lost its input; one that a
\* one-shot call spawned is gone when the call is over, however it ends, except
\* when its log could not be opened (the throw at that point passes no wait).
NoStrays ==
    at = "idle" =>
        \A p \in DOMAIN procs \ {entry} : procs[p].up =>
            ~procs[p].stdin /\ (procs[p].kind = "run" => procs[p].drainer = "failed")

\* Between calls only the live session holds descriptors or runs a thread: no
\* drainer outlives the object it reads its descriptors from.
NothingLeaks ==
    at = "idle" =>
        \A p \in DOMAIN procs \ {entry} :
            /\ ~procs[p].errFd
            /\ procs[p].drainer \in {"none", "failed", "stopped"}

\* A one-shot call returns a result only after its server, alive, was asked once
\* to shut down, was sent exit, and is gone.  What became of the shutdown request
\* is not looked at: shutdown_and_exit swallows its exception
\* (session.cpp:724-732), and a result is discarded only if exit cannot be written.
CleanResult ==
    at = "idle" /\ call.kind = "run" /\ ~thrown =>
        LET p == procs[Len(procs)] IN p.told = 1 /\ p.exit /\ ~p.up

\* The catch clause of with_started_session repeats the teardown, yet no server is
\* asked to shut down twice while it lives: only when nobody was left to read exit
\* is the teardown repeated, whatever became of the first shutdown request.
ToldOnce == \A p \in DOMAIN procs : procs[p].told <= 1

\* A child whose stderr is full and is read by nobody.
Undrained(p) ==
    /\ procs[p].up /\ procs[p].writing /\ procs[p].pipe = PipeCap
    /\ procs[p].errFd /\ procs[p].drainer \in {"none", "stopped"}

\* A call ends, unless its child is stuck on a stderr that has no drainer, or a
\* drainer that gave up.
CallsEnd == (at # "idle") ~> (at = "idle" \/ (current # 0 /\ Undrained(current)))

===============================================================================
