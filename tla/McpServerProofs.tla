--------------------------- MODULE McpServerProofs ---------------------------
(***************************************************************************)
(* The replies of the MCP server and what it holds at its end, for any      *)
(* lines, launches and bounds.                                             *)
(*                                                                         *)
(* The server only ever takes steps of Service underneath (begin a call,    *)
(* the caller's step, a child's), so ServiceProofs' invariant holds while   *)
(* the process has not aborted.  S and SP are two instances of one module:  *)
(* the first section says that their actions are the same.                 *)
(***************************************************************************)
EXTENDS McpServer, FiniteSetTheorems, TLAPS

SP == INSTANCE ServiceProofs

-----------------------------------------------------------------------------
(* The service underneath.                                                  *)

LEMMA SameType == S!TypeOK <=> SP!TypeOK
BY DEF S!TypeOK, SP!TypeOK, S!Kinds, SP!Kinds, S!Places, SP!Places,
       S!Requesting, SP!Requesting

LEMMA SameInit == S!Init <=> SP!Init
BY DEF S!Init, SP!Init

LEMMA SameProcStep == \A p : S!ProcStep(p) <=> SP!ProcStep(p)
BY DEF S!ProcStep, SP!ProcStep, S!Set, SP!Set, S!control, SP!control,
       S!ReadEndOpen, SP!ReadEndOpen, S!Answer, SP!Answer, S!StartLine,
       SP!StartLine, S!FinishLine, SP!FinishLine, S!Exit, SP!Exit, S!Die,
       SP!Die, S!DrainerLoops, SP!DrainerLoops, S!DrainerReads,
       SP!DrainerReads, S!DrainerWrites, SP!DrainerWrites, S!Drainer,
       SP!Drainer

LEMMA SameCaller == S!Caller <=> SP!Caller
BY DEF S!Caller, SP!Caller, S!control, SP!control, S!Refuse, SP!Refuse,
       S!StartFresh, SP!StartFresh, S!Reuse, SP!Reuse, S!Close, SP!Close,
       S!Spawn, SP!Spawn, S!SpawnThrows, SP!SpawnThrows, S!StartDrainer,
       SP!StartDrainer, S!OpenLogThrows, SP!OpenLogThrows, S!Ask, SP!Ask,
       S!Answered, SP!Answered, S!RequestThrows, SP!RequestThrows,
       S!SendInitialized, SP!SendInitialized, S!HandlerReturns,
       SP!HandlerReturns, S!HandlerThrows, SP!HandlerThrows, S!SendExit,
       SP!SendExit, S!ExitThrows, SP!ExitThrows, S!Wait, SP!Wait, S!Destroy,
       SP!Destroy, S!Join, SP!Join, S!Kinds, SP!Kinds, S!Requesting,
       SP!Requesting, S!Places, SP!Places, S!NewProc, SP!NewProc, S!Child,
       SP!Child, S!SetChild, SP!SetChild, S!End, SP!End, S!same_live_config,
       SP!same_live_config, S!Drains, SP!Drains, S!Throw, SP!Throw

LEMMA SameBegin == \A kind, launch : S!Begin(kind, launch) <=> SP!Begin(kind, launch)
BY DEF S!Begin, SP!Begin

LEMMA SameRefuse == S!Refuse <=> SP!Refuse
BY DEF S!Refuse, SP!Refuse, S!End, SP!End

\* A step of the service, seen from the process.
LEMMA ServiceNext ==
    ASSUME SP!ServiceInv, SP!Settled,
           \/ \E kind \in {"run", "live", "close"}, launch \in Launches : S!Begin(kind, launch)
           \/ S!Caller \/ S!Refuse
           \/ \E p \in DOMAIN procs : S!ProcStep(p)
    PROVE  /\ SP!ServiceInv' /\ SP!Settled' /\ S!TypeOK'
           /\ \A p \in DOMAIN procs : p \in DOMAIN procs' /\ procs'[p].launch = procs[p].launch
           /\ entry # 0 => entry' = entry \/ (entry' = 0 /\ call.kind = "close")
<1>1. SP!Next
  BY SameBegin, SameCaller, SameRefuse, SameProcStep DEF SP!Next, SP!Kinds, SP!Caller
<1>2. SP!ServiceInv'
  BY <1>1, ServiceConstants, SP!NextInv
<1>3. SP!Settled' /\ SP!LaunchesStay /\ SP!EntryStays
  BY <1>1, ServiceConstants, SP!SettledStep
<1>4. S!TypeOK'
  BY <1>2
  DEF SP!ServiceInv, S!TypeOK, SP!TypeOK, S!Kinds, SP!Kinds, S!Places, SP!Places,
      S!Requesting, SP!Requesting
<1> QED
  BY <1>2, <1>3, <1>4 DEF SP!LaunchesStay, SP!EntryStays

LEMMA ServiceQuiet ==
    ASSUME SP!ServiceInv, SP!Settled, UNCHANGED service
    PROVE  SP!ServiceInv' /\ SP!Settled'
<1>1. UNCHANGED SP!vars
  BY DEF service, SP!vars, SP!control
<1>2. SP!ServiceInv'
  BY <1>1, ServiceConstants, SP!StutterInv
<1>3. SP!Settled'
  BY DEF service, SP!Settled, SP!LiveFails, SP!LiveDone, SP!ClosedDone
<1> QED
  BY <1>2, <1>3

\* What the process can see of the service in any state.
LEMMA ServiceFacts ==
    ASSUME SP!ServiceInv
    PROVE  /\ S!TypeOK
           /\ entry # 0 => entry \in DOMAIN procs
BY SameType DEF SP!ServiceInv, SP!TypeOK

-----------------------------------------------------------------------------
(* Lines and replies.                                                       *)

Replies == [id : {l.id : l \in Lines} \cup {NullId},
            kind : {"result", "tool-error", "error"},
            served : SUBSET {"outgoing", "incoming"}]

LEMMA OwedFacts ==
    ASSUME TypeOK
    PROVE  /\ Owed \subseteq Done /\ Done \subseteq Nat
           /\ IsFiniteSet(Owed) /\ Cardinality(Owed) \in Nat
           /\ \A n \in Owed : Place(n) \in 1 .. Cardinality(Owed)
<1>1. PICK d \in Nat : Done = 1 .. d
  <2>1. Len(received) \in Nat /\ (phase \in {"serving", "aborted"} => Len(received) > 0)
    BY DEF TypeOK
  <2> QED
    BY <2>1 DEF Done
<1>2. Owed \subseteq 1 .. d /\ IsFiniteSet(Owed) /\ Cardinality(Owed) \in Nat
  <2>1. Owed \subseteq 1 .. d
    BY <1>1 DEF Owed
  <2>2. IsFiniteSet(1 .. d)
    BY FS_Interval
  <2> QED
    BY <2>1, <2>2, FS_Subset, FS_CardinalityType
<1>3. ASSUME NEW n \in Owed PROVE Place(n) \in 1 .. Cardinality(Owed)
  <2> DEFINE upTo == {m \in Owed : m <= n}
  <2>1. upTo \subseteq Owed /\ n \in upTo
    BY <1>2
  <2> HIDE DEF upTo
  <2>2. IsFiniteSet(upTo) /\ Cardinality(upTo) \in Nat /\ Cardinality(upTo) <= Cardinality(Owed)
    BY <1>2, <2>1, FS_Subset, FS_CardinalityType
  <2>3. Cardinality(upTo) # 0
    BY <2>1, <2>2, FS_EmptySet
  <2> QED
    BY <1>2, <2>2, <2>3 DEF Place, upTo
<1> QED
  BY <1>1, <1>2, <1>3

\* Lines that are owed nothing change no reply's place.
LEMMA NothingOwed ==
    ASSUME TypeOK, EveryRequestAnswered, UNCHANGED out, Done \subseteq Done',
           \A n \in Done : received'[n] = received[n],
           \A n \in Done' : n \in Done \/ ~Owes(received[n])'
    PROVE  /\ EveryRequestAnswered' /\ LiveResults' = LiveResults
           /\ \A n \in LiveResults : received'[n] = received[n]
<1>1. Owed' = Owed /\ \A n \in Owed : received'[n] = received[n]
  BY DEF Owed
<1>2. \A n \in Owed : ReplyTo(n)' = ReplyTo(n)
  BY <1>1 DEF ReplyTo, Place
<1>3. EveryRequestAnswered'
  BY <1>1, <1>2 DEF EveryRequestAnswered
<1>4. LiveResults' = LiveResults
  BY <1>1, <1>2 DEF LiveResults
<1> QED
  BY <1>1, <1>3, <1>4 DEF LiveResults

\* One more line is done with and gets the reply it is owed.
LEMMA OneAnswered ==
    ASSUME TypeOK, EveryRequestAnswered, NEW k \in Nat, NEW r \in Replies,
           out' = Append(out, r), Done' = Done \cup {k},
           \A n \in Done : n < k /\ received'[n] = received[n],
           Owes(received[k])', r.id = Address(received[k])', r.kind \in Outcomes(received[k])'
    PROVE  /\ EveryRequestAnswered'
           /\ \A n \in LiveResults' :
                \/ n \in LiveResults /\ received'[n] = received[n]
                \/ /\ n = k /\ r.kind = "result"
                   /\ CallsService(received[k])' /\ received'[k].tool \in LiveTools
<1>1. Owed' = Owed \cup {k} /\ k \notin Owed /\ \A n \in Owed : n < k /\ received'[n] = received[n]
  BY DEF Owed
<1>2. /\ \A n \in Owed : n \in Nat /\ Place(n) \in 1 .. Cardinality(Owed)
      /\ IsFiniteSet(Owed) /\ Cardinality(Owed) \in Nat /\ out \in Seq(Replies)
      /\ Len(out) = Cardinality(Owed)
  BY OwedFacts DEF TypeOK, Replies, EveryRequestAnswered
<1>3. Cardinality(Owed') = Cardinality(Owed) + 1
  BY <1>1, <1>2, FS_AddElement
<1>4. \A n \in Owed : ReplyTo(n)' = ReplyTo(n)
  <2> SUFFICES ASSUME NEW n \in Owed PROVE ReplyTo(n)' = ReplyTo(n)
    OBVIOUS
  <2>1. {m \in Owed' : m <= n} = {m \in Owed : m <= n}
    BY <1>1, <1>2
  <2>2. Place(n)' = Place(n)
    BY <2>1 DEF Place
  <2> QED
    BY <1>2, <2>2 DEF ReplyTo
<1>5. ReplyTo(k)' = r
  <2>1. {m \in Owed' : m <= k} = Owed'
    BY <1>1, <1>2
  <2>2. Place(k)' = Len(out) + 1
    BY <1>2, <1>3, <2>1 DEF Place
  <2> QED
    BY <1>2, <2>2 DEF ReplyTo
<1>6. EveryRequestAnswered'
  <2>1. Len(out') = Cardinality(Owed')
    BY <1>2, <1>3
  <2>2. \A n \in Owed' : /\ ReplyTo(n)'.id = Address(received[n])'
                         /\ ReplyTo(n)'.kind \in Outcomes(received[n])'
    BY <1>1, <1>4, <1>5 DEF EveryRequestAnswered
  <2> QED
    BY <2>1, <2>2 DEF EveryRequestAnswered
<1> QED
  BY <1>1, <1>4, <1>5, <1>6 DEF LiveResults

\* What reading a line makes of the lines that are done with.
LEMMA ReadFacts ==
    ASSUME TypeOK, NEW l \in Lines, Read(l)
    PROVE  LET k == Len(received) + 1
           IN  /\ k \in Nat /\ received' \in Seq(Lines) /\ Len(received') = k
               /\ received'[k] = l /\ Done = 1 .. k - 1
               /\ \A n \in Done : n < k /\ received'[n] = received[n]
               /\ Done' = IF phase' \in {"serving", "aborted"} THEN Done ELSE Done \cup {k}
<1>1. PICK k \in Nat : k = Len(received) + 1
  BY DEF TypeOK
<1>2. /\ received' \in Seq(Lines) /\ Len(received') = k /\ received'[k] = l
      /\ \A n \in 1 .. k - 1 : received'[n] = received[n]
  BY <1>1 DEF TypeOK, Read
<1>3. Done = 1 .. k - 1
  BY <1>1 DEF Done, Read, TypeOK
<1>4. Done' = IF phase' \in {"serving", "aborted"} THEN Done ELSE Done \cup {k}
  <2>1. (1 .. k - 1) \cup {k} = 1 .. k
    BY <1>1
  <2>2. Done' = 1 .. IF phase' \in {"serving", "aborted"} THEN k - 1 ELSE k
    BY <1>2 DEF Done
  <2> QED
    BY <1>3, <2>1, <2>2
<1> QED
  BY <1>1, <1>2, <1>3, <1>4

-----------------------------------------------------------------------------
(* The invariant: what the service underneath is at work for, and that the  *)
(* entry it keeps is the one the live answers came from.                    *)

Tended == phase # "aborted" => SP!ServiceInv /\ SP!Settled

Errand ==
    /\ phase = "serving" =>
         /\ call.launch = Serving.launch
         /\ call.kind = IF Serving.tool \in LiveTools THEN "live" ELSE "run"
         /\ RefusesDirection(Serving) => at = "begin" \/ (at = "idle" /\ thrown)
    /\ phase \in {"closing", "exited"} => call.kind = "close"
    /\ phase = "exited" => at = "idle"

LiveBound ==
    phase \in {"reading", "serving"} =>
        \A n \in LiveResults : entry # 0 /\ procs[entry].launch = received[n].launch

McpInv ==
    /\ TypeOK /\ Tended /\ Errand
    /\ EveryRequestAnswered /\ LiveBound /\ BoundForLife

LEMMA LineFacts ==
    ASSUME NEW l \in Lines
    PROVE  /\ l \in LineType
           /\ IsRequest(l) => l.id \in {x.id : x \in Lines}
BY LinesAssumption

LEMMA InitMcp == Init => McpInv
<1> SUFFICES ASSUME Init PROVE McpInv
  OBVIOUS
<1> USE DEF Init
<1>1. SP!ServiceInv /\ SP!Settled
  BY SameInit, ServiceConstants, SP!InitInv, SP!InitSettled
<1>2. received = <<>> /\ out = <<>> /\ phase = "reading" /\ at = "idle" /\ Len(received) = 0
  BY DEF S!Init
<1>3. TypeOK
  BY <1>1, <1>2, ServiceFacts DEF TypeOK
<1>4. Owed = {} /\ Cardinality(Owed) = 0
  <2>1. Owed = {}
    BY <1>2 DEF Owed, Done
  <2> QED
    BY <2>1, FS_EmptySet
<1>5. EveryRequestAnswered /\ LiveBound /\ BoundForLife
  BY <1>2, <1>4 DEF EveryRequestAnswered, LiveBound, BoundForLife, LiveResults
<1> QED
  BY <1>1, <1>2, <1>3, <1>5 DEF McpInv, Tended, Errand

\* Nothing about the replies changes, and the entry is there as before.
LEMMA QuietMcp ==
    ASSUME McpInv, UNCHANGED out, Done \subseteq Done',
           \A n \in Done : received'[n] = received[n],
           \A n \in Done' : n \in Done \/ ~Owes(received[n])',
           phase' \in {"reading", "serving"} =>
               /\ phase \in {"reading", "serving"}
               /\ entry # 0 => entry' = entry /\ procs'[entry].launch = procs[entry].launch
    PROVE  EveryRequestAnswered' /\ LiveBound' /\ BoundForLife'
<1>1. /\ EveryRequestAnswered' /\ LiveResults' = LiveResults
      /\ \A n \in LiveResults : received'[n] = received[n]
  BY NothingOwed DEF McpInv
<1> QED
  BY <1>1 DEF McpInv, LiveBound, BoundForLife

\* A reply that is not the answer of a live tool.
LEMMA PlainReplyMcp ==
    ASSUME McpInv, NEW k \in Nat, NEW r \in Replies,
           out' = Append(out, r), Done' = Done \cup {k},
           \A n \in Done : n < k /\ received'[n] = received[n],
           Owes(received[k])', r.id = Address(received[k])', r.kind \in Outcomes(received[k])',
           ~(r.kind = "result" /\ CallsService(received[k])' /\ received'[k].tool \in LiveTools),
           phase \in {"reading", "serving"}, UNCHANGED service
    PROVE  EveryRequestAnswered' /\ LiveBound' /\ BoundForLife'
<1>1. /\ EveryRequestAnswered'
      /\ \A n \in LiveResults' : n \in LiveResults /\ received'[n] = received[n]
  BY OneAnswered DEF McpInv
<1> QED
  BY <1>1 DEF McpInv, LiveBound, BoundForLife, service

LEMMA TypeQuiet == ASSUME S!TypeOK, UNCHANGED service PROVE S!TypeOK'
BY DEF service, S!TypeOK

\* Lines answered at once, and lines passed over, leave the service alone.
LEMMA ReadingMcp ==
    ASSUME McpInv, phase = "reading", phase' = "reading", UNCHANGED service,
           received' \in Seq(Lines), out' \in Seq(Replies)
    PROVE  TypeOK' /\ Tended' /\ Errand'
<1>1. TypeOK'
  BY TypeQuiet DEF McpInv, TypeOK, Replies, service
<1>2. Tended'
  BY ServiceQuiet DEF McpInv, Tended
<1> QED
  BY <1>1, <1>2 DEF Errand

LEMMA IgnoreMcp == ASSUME McpInv, NEW l \in Lines, Ignore(l) PROVE McpInv'
<1>1. Read(l) /\ phase = "reading" /\ phase' = "reading" /\ UNCHANGED <<out, service>> /\ ~Owes(l)
  BY DEF Ignore, Read, Owes, IsRequest
<1> DEFINE k == Len(received) + 1
<1>2. /\ received' \in Seq(Lines) /\ received'[k] = l /\ Done' = Done \cup {k}
      /\ \A n \in Done : received'[n] = received[n]
  BY <1>1, ReadFacts DEF McpInv
<1> HIDE DEF k
<1>3. EveryRequestAnswered' /\ LiveBound' /\ BoundForLife'
  BY <1>1, <1>2, QuietMcp DEF service
<1>4. TypeOK' /\ Tended' /\ Errand'
  BY <1>1, <1>2, ReadingMcp DEF McpInv, TypeOK, Replies
<1> QED
  BY <1>3, <1>4 DEF McpInv

\* A reply written in the same pass of the loop.
LEMMA AtOnceMcp ==
    ASSUME McpInv, NEW l \in Lines, Read(l), phase' = "reading", UNCHANGED service,
           NEW r \in Replies, out' = Append(out, r),
           Owes(l), r.id = Address(l), r.kind \in Outcomes(l),
           ~(r.kind = "result" /\ CallsService(l) /\ l.tool \in LiveTools)
    PROVE  McpInv'
<1> DEFINE k == Len(received) + 1
<1>1. /\ k \in Nat /\ received' \in Seq(Lines) /\ received'[k] = l /\ Done' = Done \cup {k}
      /\ \A n \in Done : n < k /\ received'[n] = received[n]
  BY ReadFacts DEF McpInv
<1> HIDE DEF k
<1>2. phase = "reading"
  BY DEF Read
<1>3. EveryRequestAnswered' /\ LiveBound' /\ BoundForLife'
  BY <1>1, <1>2, PlainReplyMcp
<1>4. out' \in Seq(Replies)
  BY DEF McpInv, TypeOK, Replies
<1>5. TypeOK' /\ Tended' /\ Errand'
  BY <1>1, <1>2, <1>4, ReadingMcp
<1> QED
  BY <1>3, <1>5 DEF McpInv

LEMMA RejectMcp == ASSUME McpInv, NEW l \in Lines, Reject(l) PROVE McpInv'
<1> DEFINE r == [id |-> NullId, kind |-> "error", served |-> {}]
<1>1. r \in Replies /\ r.id = NullId /\ r.kind = "error"
  BY DEF Replies
<1>2. Read(l) /\ phase' = "reading" /\ UNCHANGED service /\ out' = Append(out, r)
  BY DEF Reject, Read, Reply
<1> HIDE DEF r
<1>3. Owes(l) /\ r.id = Address(l) /\ r.kind \in Outcomes(l)
  BY <1>1 DEF Reject, Owes, Address, Outcomes
<1> QED
  BY <1>1, <1>2, <1>3, AtOnceMcp

LEMMA ReplyMcp == ASSUME McpInv, NEW l \in Lines, ReplyAtOnce(l) PROVE McpInv'
<1>1. Read(l) /\ phase' = "reading" /\ UNCHANGED service /\ l.form = "message" /\ IsRequest(l)
  BY DEF ReplyAtOnce, Read
<1>2. l.id \in {x.id : x \in Lines} /\ Address(l) = l.id
  BY <1>1, LineFacts DEF Address
<1>3. ASSUME NEW kind \in {"result", "tool-error", "error"}, Reply(l.id, kind, {}),
             Owes(l), kind \in Outcomes(l),
             ~(kind = "result" /\ CallsService(l) /\ l.tool \in LiveTools)
      PROVE  McpInv'
  <2> DEFINE r == [id |-> l.id, kind |-> kind, served |-> {}]
  <2>1. r \in Replies /\ r.id = l.id /\ r.kind = kind
    BY <1>2 DEF Replies
  <2>2. out' = Append(out, r)
    BY <1>3 DEF Reply
  <2> HIDE DEF r
  <2> QED
    BY <1>1, <1>2, <1>3, <2>1, <2>2, AtOnceMcp
<1>4. CASE l.method \in {"initialize", "ping", "tools/list"} /\ Reply(l.id, "result", {})
  BY <1>1, <1>3, <1>4 DEF Owes, Outcomes, IsToolCall, CallsService
<1>5. CASE /\ l.method = "other" \/ (l.method = "tools/call" /\ l.tool \in {"none", "other"})
           /\ Reply(l.id, "error", {})
  BY <1>1, <1>3, <1>5
  DEF Owes, Outcomes, IsToolCall, CallsService, OneShotTools, LiveTools
<1>6. CASE /\ l.method = "tools/call" /\ l.tool = "smoke_echo"
           /\ Reply(l.id, IF l.arguments = "good" THEN "result" ELSE "tool-error", {})
  BY <1>1, <1>3, <1>6
  DEF Owes, Outcomes, IsToolCall, CallsService, OneShotTools, LiveTools
<1>7. CASE CallsService(l) /\ Reply(l.id, "tool-error", {})
  BY <1>1, <1>3, <1>7
  DEF Owes, Outcomes, IsToolCall, CallsService, OneShotTools, LiveTools
<1> QED
  BY <1>4, <1>5, <1>6, <1>7 DEF ReplyAtOnce

-----------------------------------------------------------------------------
(* The tools that need the service.                                        *)

\* The loop is left by an exception: no reply, and every descriptor is closed.
LEMMA TerminateMcp ==
    ASSUME McpInv, Terminate, at = "idle", received' \in Seq(Lines), received' # <<>>,
           Done' = Done, \A n \in Done : received'[n] = received[n]
    PROVE  McpInv'
<1>1. /\ phase' = "aborted"
      /\ UNCHANGED <<out, logSet, call, at, thrown, current, entry, calls>>
  BY DEF Terminate
<1>2. EveryRequestAnswered' /\ LiveBound' /\ BoundForLife'
  BY <1>1, QuietMcp
<1>3. S!TypeOK'
  <2> DEFINE c(p) == [procs[p] EXCEPT !.stdin = FALSE, !.errFd = FALSE, !.drainer = "stopped"]
  <2>1. /\ SP!TypeOK /\ procs \in Seq(SP!Children)
        /\ procs' = [p \in DOMAIN procs |-> c(p)]
    BY SameType DEF McpInv, TypeOK, Terminate, SP!TypeOK, SP!Children, SP!Asks, SP!Drainers
  <2>2. ASSUME NEW p \in DOMAIN procs PROVE c(p) \in SP!Children
    <3>1. procs[p] \in SP!Children
      <4> HIDE DEF c
      <4> QED
        BY <2>1
    <3> QED
      BY <3>1 DEF SP!Children, SP!Drainers
  <2> HIDE DEF c
  <2>3. procs' \in Seq(SP!Children) /\ Len(procs') = Len(procs)
    BY <2>1, <2>2
  <2> QED
    BY <1>1, <2>3
    DEF McpInv, TypeOK, S!TypeOK, SP!Children, SP!Asks, SP!Drainers, S!Kinds, S!Places
<1>4. TypeOK' /\ Tended' /\ Errand'
  BY <1>1, <1>3 DEF McpInv, TypeOK, Tended, Errand
<1> QED
  BY <1>2, <1>4 DEF McpInv

LEMMA AbortMcp == ASSUME McpInv, NEW l \in Lines, Abort(l) PROVE McpInv'
<1>1. Read(l) /\ phase = "reading" /\ phase' = "aborted" /\ Terminate /\ at = "idle"
  BY DEF Abort, Read, Terminate, McpInv, TypeOK
<1> DEFINE k == Len(received) + 1
<1>2. /\ received' \in Seq(Lines) /\ Len(received') = k /\ k \in Nat /\ Done' = Done
      /\ \A n \in Done : received'[n] = received[n]
  BY <1>1, ReadFacts DEF McpInv
<1>3. received' # <<>>
  <2>1. k # 0 /\ Len(<<>>) = 0
    BY DEF McpInv, TypeOK
  <2> QED
    BY <1>2, <2>1
<1> HIDE DEF k
<1> QED
  BY <1>1, <1>2, <1>3, TerminateMcp

LEMMA StartMcp == ASSUME McpInv, NEW l \in Lines, StartTool(l) PROVE McpInv'
<1> DEFINE kind == IF l.tool \in LiveTools THEN "live" ELSE "run"
<1>1. /\ Read(l) /\ phase = "reading" /\ phase' = "serving" /\ CallsService(l)
      /\ S!Begin(kind, l.launch) /\ UNCHANGED out
  BY DEF StartTool, Read
<1>2. kind \in {"run", "live", "close"} /\ l.launch \in Launches
  BY LineFacts DEF LineType
<1>3. SP!ServiceInv /\ SP!Settled
  BY <1>1 DEF McpInv, Tended
<1>4. SP!ServiceInv' /\ SP!Settled' /\ S!TypeOK'
  BY <1>1, <1>2, <1>3, ServiceNext
<1>5. call'.kind = kind /\ call'.launch = l.launch /\ at' = "begin" /\ UNCHANGED <<entry, procs>>
  BY <1>1 DEF S!Begin
<1> HIDE DEF kind
<1> DEFINE k == Len(received) + 1
<1>6. /\ k \in Nat /\ received' \in Seq(Lines) /\ Len(received') = k /\ received'[k] = l
      /\ Done' = Done /\ \A n \in Done : received'[n] = received[n]
  BY <1>1, ReadFacts DEF McpInv
<1> HIDE DEF k
<1>7. EveryRequestAnswered' /\ LiveBound' /\ BoundForLife'
  BY <1>1, <1>5, <1>6, QuietMcp
<1>8. Serving' = l /\ received' # <<>>
  <2>1. Serving' = l
    BY <1>6 DEF Serving
  <2>2. Len(<<>>) = 0 /\ k # 0
    BY DEF k, McpInv, TypeOK
  <2> QED
    BY <1>6, <2>1, <2>2
<1>9. TypeOK'
  BY <1>1, <1>4, <1>6, <1>8 DEF McpInv, TypeOK, CallsService, IsToolCall, IsRequest
<1>10. Errand'
  BY <1>1, <1>5, <1>8 DEF Errand, kind, RefusesDirection, Direction
<1> QED
  BY <1>1, <1>4, <1>7, <1>9, <1>10 DEF McpInv, Tended

\* A caller that moves is in a call.
LEMMA CallerIsBusy == S!Caller \/ S!Refuse => at # "idle"
BY SameCaller, SameRefuse
DEF SP!Caller, SP!Refuse, SP!StartFresh, SP!Reuse, SP!Close, SP!Spawn, SP!SpawnThrows,
    SP!StartDrainer, SP!OpenLogThrows, SP!Ask, SP!Answered, SP!RequestThrows, SP!Requesting,
    SP!SendInitialized, SP!HandlerReturns, SP!HandlerThrows, SP!SendExit,
    SP!ExitThrows, SP!Wait, SP!Destroy, SP!Join

LEMMA ServiceMcp == ASSUME McpInv, ServiceStep PROVE McpInv'
<1>1. /\ phase \in {"serving", "closing"} /\ UNCHANGED <<phase, received, out>>
      /\ S!Caller \/ S!Refuse
  BY DEF ServiceStep
<1>2. SP!ServiceInv /\ SP!Settled
  BY <1>1 DEF McpInv, Tended
<1>3. /\ SP!ServiceInv' /\ SP!Settled' /\ S!TypeOK'
      /\ \A p \in DOMAIN procs : p \in DOMAIN procs' /\ procs'[p].launch = procs[p].launch
      /\ entry # 0 => entry' = entry \/ (entry' = 0 /\ call.kind = "close")
  BY <1>1, <1>2, ServiceNext
<1>4. call'.kind = call.kind /\ call'.launch = call.launch
  <2>1. SP!Caller
    BY <1>1, SameCaller, SameRefuse DEF SP!Caller
  <2> QED
    BY <2>1, <1>2, ServiceConstants, SP!CallerStays
<1>5. phase = "serving" => call.kind # "close"
  BY DEF McpInv, Errand
<1>6. entry # 0 => entry \in DOMAIN procs
  BY <1>2, ServiceFacts
<1>7. Done' = Done /\ \A n \in Done : received'[n] = received[n]
  BY <1>1 DEF Done
<1>8. EveryRequestAnswered' /\ LiveBound' /\ BoundForLife'
  BY <1>1, <1>3, <1>5, <1>6, <1>7, QuietMcp
<1>9. TypeOK'
  BY <1>1, <1>3 DEF McpInv, TypeOK, Serving
<1>10. Errand'
  <2>1. phase = "serving" /\ RefusesDirection(Serving) => at' = "idle" /\ thrown'
    <3> SUFFICES ASSUME phase = "serving", RefusesDirection(Serving)
                 PROVE  at' = "idle" /\ thrown'
      OBVIOUS
    <3>1. at = "begin"
      BY <1>1, CallerIsBusy DEF McpInv, Errand
    <3>2. S!Refuse
      BY <3>1 DEF ServiceStep
    <3> QED
      BY <3>2 DEF S!Refuse, S!End
  <2>2. Serving' = Serving
    BY <1>1 DEF Serving
  <2>3. RefusesDirection(Serving)' <=> RefusesDirection(Serving)
    BY <2>2 DEF RefusesDirection, Direction
  <2> QED
    BY <1>1, <1>4, <2>1, <2>2, <2>3 DEF McpInv, Errand
<1> QED
  BY <1>1, <1>3, <1>8, <1>9, <1>10 DEF McpInv, Tended

\* The answer of a tool: what it found, or that it failed.
LEMMA AnswerToolMcp ==
    ASSUME McpInv, FinishTool, phase' = "reading" PROVE McpInv'
<1>1. /\ phase = "serving" /\ phase' = "reading" /\ at = "idle"
      /\ UNCHANGED <<received, service>> /\ CallsService(Serving)
      /\ \/ ~thrown /\ Reply(Serving.id, "result", Trees(Serving))
         \/ Reply(Serving.id, "tool-error", {})
  BY DEF FinishTool, Terminate, McpInv, TypeOK
<1>2. PICK k \in Nat : k = Len(received)
  BY DEF McpInv, TypeOK
<1>3. k # 0 /\ Serving = received[k] /\ Serving \in Lines
  <2>1. k # 0 /\ received \in Seq(Lines)
    BY <1>1, <1>2 DEF McpInv, TypeOK
  <2> QED
    BY <1>2, <2>1 DEF Serving
<1>4. Done' = Done \cup {k} /\ \A n \in Done : n < k /\ received'[n] = received[n]
  <2>1. Done = 1 .. k - 1 /\ Done' = 1 .. k
    BY <1>1, <1>2 DEF Done
  <2>2. (1 .. k - 1) \cup {k} = 1 .. k
    BY <1>3
  <2> QED
    BY <1>1, <2>1, <2>2
<1>5. PICK kind \in {"result", "tool-error"}, served \in {Trees(Serving), {}} :
        /\ kind = "result" => ~thrown
        /\ served # {} => ~thrown
        /\ out' = Append(out, [id |-> Serving.id, kind |-> kind, served |-> served])
  BY <1>1 DEF Reply
<1> DEFINE r == [id |-> Serving.id, kind |-> kind, served |-> served]
<1>6. Serving.id \in {x.id : x \in Lines} /\ Serving \in LineType
  BY <1>3, LinesAssumption
<1>7. ~thrown => Trees(Serving) \subseteq {"outgoing", "incoming"}
  <2> SUFFICES ASSUME ~thrown PROVE Trees(Serving) \subseteq {"outgoing", "incoming"}
    OBVIOUS
  <2>1. ~RefusesDirection(Serving)
    BY <1>1 DEF McpInv, Errand
  <2>2. Serving.direction \in Directions
    BY <1>6 DEF LineType
  <2> QED
    BY <2>1, <2>2 DEF Trees, RefusesDirection, Direction, Directions
<1>8. /\ r \in Replies /\ r.id = Serving.id /\ r.kind \in {"result", "tool-error"}
      /\ r.kind = "result" => ~thrown
  BY <1>5, <1>6, <1>7 DEF Replies
<1>r. out' = Append(out, r)
  BY <1>5
<1> HIDE DEF r
<1>9. Owes(Serving) /\ Address(Serving) = Serving.id /\ r.kind \in Outcomes(Serving)
  BY <1>1, <1>8
  DEF Owes, Address, Outcomes, CallsService, IsToolCall, OneShotTools, LiveTools
<1>10. /\ Owes(received[k])' /\ r.id = Address(received[k])' /\ r.kind \in Outcomes(received[k])'
       /\ received'[k] = Serving
  BY <1>1, <1>3, <1>8, <1>9
<1>11. /\ EveryRequestAnswered'
       /\ \A n \in LiveResults' :
            \/ n \in LiveResults /\ received'[n] = received[n]
            \/ n = k /\ ~thrown /\ received'[k].tool \in LiveTools
  BY <1>4, <1>8, <1>10, <1>r, OneAnswered DEF McpInv
<1>12. ~thrown /\ Serving.tool \in LiveTools => entry # 0 /\ procs[entry].launch = Serving.launch
  BY <1>1 DEF McpInv, Errand, Tended, SP!Settled, SP!LiveDone
<1>13. LiveBound'
  <2>1. UNCHANGED <<entry, procs>>
    BY <1>1 DEF service
  <2>2. ASSUME NEW n \in LiveResults' PROVE entry # 0 /\ procs[entry].launch = received'[n].launch
    BY <1>1, <1>10, <1>11, <1>12, <2>2 DEF McpInv, LiveBound
  <2> QED
    BY <2>1, <2>2 DEF LiveBound
<1>14. BoundForLife'
  BY <1>1, <1>13 DEF LiveBound, BoundForLife
<1>15. TypeOK'
  <2>1. out' \in Seq(Replies)
    BY <1>8, <1>r DEF McpInv, TypeOK, Replies
  <2>2. S!TypeOK' /\ at' = "idle"
    BY <1>1, TypeQuiet DEF McpInv, TypeOK, service
  <2> QED
    BY <1>1, <2>1, <2>2 DEF McpInv, TypeOK, Replies
<1>16. Tended' /\ Errand'
  BY <1>1, ServiceQuiet DEF McpInv, Tended, Errand
<1> QED
  BY <1>11, <1>13, <1>14, <1>15, <1>16 DEF McpInv

LEMMA FinishMcp == ASSUME McpInv, FinishTool PROVE McpInv'
<1>1. CASE phase' = "reading"
  BY <1>1, AnswerToolMcp
<1>2. CASE Terminate
  <2>1. phase = "serving" /\ phase' = "aborted" /\ at = "idle" /\ UNCHANGED received
    BY <1>2 DEF FinishTool, Terminate
  <2>2. Done' = Done
    BY <2>1 DEF Done
  <2>3. received' \in Seq(Lines) /\ received' # <<>>
    BY <2>1 DEF McpInv, TypeOK
  <2> QED
    BY <1>2, <2>1, <2>2, <2>3, TerminateMcp
<1> QED
  BY <1>1, <1>2 DEF FinishTool

-----------------------------------------------------------------------------
(* The end of the input, and the children's steps.                         *)

LEMMA EndMcp == ASSUME McpInv, EndOfInput PROVE McpInv'
<1>1. /\ phase = "reading" /\ phase' = "closing" /\ UNCHANGED <<received, out>>
      /\ S!Begin("close", call.launch)
  BY DEF EndOfInput
<1>2. SP!ServiceInv /\ SP!Settled /\ call.launch \in Launches
  BY <1>1 DEF McpInv, Tended, TypeOK, S!TypeOK
<1>3. SP!ServiceInv' /\ SP!Settled' /\ S!TypeOK'
  BY <1>1, <1>2, ServiceNext
<1>4. Done' = Done /\ \A n \in Done : received'[n] = received[n]
  BY <1>1 DEF Done
<1>5. EveryRequestAnswered' /\ LiveBound' /\ BoundForLife'
  BY <1>1, <1>4, QuietMcp
<1>6. call'.kind = "close"
  BY <1>1 DEF S!Begin
<1> QED
  BY <1>1, <1>3, <1>5, <1>6 DEF McpInv, TypeOK, Tended, Errand

LEMMA ExitMcp == ASSUME McpInv, Exit PROVE McpInv'
<1>1. /\ phase = "closing" /\ at = "idle" /\ phase' = "exited"
      /\ UNCHANGED <<received, out, service>>
  BY DEF Exit
<1>2. Done' = Done /\ \A n \in Done : received'[n] = received[n]
  BY <1>1 DEF Done
<1>3. EveryRequestAnswered' /\ LiveBound' /\ BoundForLife'
  BY <1>1, <1>2, QuietMcp
<1>4. TypeOK'
  BY <1>1, TypeQuiet DEF McpInv, TypeOK
<1>5. Tended' /\ Errand'
  BY <1>1, ServiceQuiet DEF McpInv, Tended, Errand, service
<1> QED
  BY <1>3, <1>4, <1>5 DEF McpInv

LEMMA ChildMcp == ASSUME McpInv, ChildStep PROVE McpInv'
<1>1. PICK p \in DOMAIN procs : S!ProcStep(p)
  BY DEF ChildStep
<1>2. UNCHANGED <<phase, received, out>>
  BY DEF ChildStep
<1>3. SP!TypeOK /\ SP!ProcStep(p)
  BY <1>1, SameType, SameProcStep DEF McpInv, TypeOK
<1>4. PICK c \in SP!Children : SP!Set(p, c) /\ SP!Drifts(p, c)
  BY <1>3, ServiceConstants, SP!ProcStepDrifts
<1>5. UNCHANGED <<logSet, call, at, thrown, current, entry, calls>>
  BY <1>4 DEF SP!Set, SP!control
<1>6. /\ procs' = [procs EXCEPT ![p] = c] /\ c.launch = procs[p].launch
      /\ procs \in Seq(SP!Children)
  BY <1>3, <1>4 DEF SP!Set, SP!Drifts, SP!TypeOK, SP!Children, SP!Asks, SP!Drainers
<1>7. /\ procs' \in Seq(SP!Children) /\ Len(procs') = Len(procs)
      /\ \A q \in DOMAIN procs : procs'[q].launch = procs[q].launch
  BY <1>6
<1>8. S!TypeOK'
  BY <1>5, <1>7
  DEF McpInv, TypeOK, S!TypeOK, SP!Children, SP!Asks, SP!Drainers
<1>9. entry # 0 => entry \in DOMAIN procs
  BY <1>6 DEF McpInv, TypeOK, S!TypeOK
<1>10. Done' = Done /\ \A n \in Done : received'[n] = received[n]
  BY <1>2 DEF Done
<1>11. EveryRequestAnswered' /\ LiveBound' /\ BoundForLife'
  BY <1>2, <1>5, <1>7, <1>9, <1>10, QuietMcp
<1>12. TypeOK'
  BY <1>2, <1>5, <1>8 DEF McpInv, TypeOK, Serving
<1>13. Tended'
  BY <1>1, <1>2, ServiceNext DEF McpInv, Tended
<1>14. Errand'
  BY <1>2, <1>5 DEF McpInv, Errand, Serving
<1> QED
  BY <1>11, <1>12, <1>13, <1>14 DEF McpInv

LEMMA StutterMcp == ASSUME McpInv, UNCHANGED vars PROVE McpInv'
<1>1. UNCHANGED <<phase, received, out, service>>
  BY DEF vars
<1>2. Done' = Done /\ \A n \in Done : received'[n] = received[n]
  BY <1>1 DEF Done
<1>3. EveryRequestAnswered' /\ LiveBound' /\ BoundForLife'
  BY <1>1, <1>2, QuietMcp DEF service
<1>4. TypeOK'
  BY <1>1, TypeQuiet DEF McpInv, TypeOK, Serving, service
<1>5. Tended' /\ Errand'
  BY <1>1, ServiceQuiet DEF McpInv, Tended, Errand, service, Serving
<1> QED
  BY <1>3, <1>4, <1>5 DEF McpInv

-----------------------------------------------------------------------------
(* The theorems.                                                           *)

\* Whatever lines come, whatever the service does and however the children
\* behave.
THEOREM McpInvariant == Spec => []McpInv
<1>1. ASSUME McpInv, Next PROVE McpInv'
  <2>1. ASSUME NEW l \in Lines,
               Ignore(l) \/ Reject(l) \/ Abort(l) \/ ReplyAtOnce(l) \/ StartTool(l)
        PROVE  McpInv'
    BY <1>1, <2>1, IgnoreMcp, RejectMcp, AbortMcp, ReplyMcp, StartMcp
  <2> QED
    BY <1>1, <2>1, ServiceMcp, FinishMcp, EndMcp, ExitMcp, ChildMcp, StutterMcp DEF Next, Over
<1> QED
  BY InitMcp, <1>1, StutterMcp, PTL DEF Spec

\* Every variable keeps its type, the service's too, even in a process that is
\* gone.
THEOREM McpTyped == Spec => []TypeOK
BY McpInvariant, PTL DEF McpInv

\* The replies are one to each line that calls for one, in order, to the right id
\* and of the right kind, whatever the service throws; all but the line in which
\* the process aborts, if it does, which gets none.
THEOREM RequestsAnswered == Spec => []EveryRequestAnswered
BY McpInvariant, PTL DEF McpInv

\* All answers of the live tools come from servers of one and the same launch.
THEOREM OneLaunchForLife == Spec => []BoundForLife
BY McpInvariant, PTL DEF McpInv

\* A process that ends at the end of its input leaves nothing of its own behind.
THEOREM EndsClean == Spec => []CleanEnd
<1>1. McpInv => CleanEnd
  <2> SUFFICES ASSUME McpInv, phase = "exited" PROVE CleanEnd
    BY DEF CleanEnd
  <2>1. at = "idle" /\ call.kind = "close" /\ SP!ServiceInv /\ SP!Settled
    BY DEF McpInv, Errand, Tended
  <2>2. entry = 0 /\ current = 0
    BY <2>1 DEF SP!Settled, SP!ClosedDone, SP!ServiceInv, SP!TypeOK
  <2>3. \A p \in DOMAIN procs : p # 0
    BY <2>1 DEF SP!ServiceInv, SP!TypeOK
  <2> QED
    BY <2>1, <2>2, <2>3 DEF CleanEnd, SP!ServiceInv, SP!OthersGone, SP!Gone, SP!Ended
<1> QED
  BY <1>1, McpInvariant, PTL
==============================================================================
