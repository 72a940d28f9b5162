--------------------------- MODULE LspSessionProofs ---------------------------
(***************************************************************************)
(* Proofs about LspSession, for any documents, texts, pipe capacity and     *)
(* bounds: its types and the invariants of a call; then what passes between *)
(* it and its server: whose answer a call takes, that it implements         *)
(* DocumentService, the order of the handshake, and the books on the        *)
(* server's own requests.                                                   *)
(***************************************************************************)
EXTENDS LspSession, FiniteSetTheorems, TLAPS

Inputs == Requests \cup DocNotes \cup Notices

-----------------------------------------------------------------------------
(* What the message constructors build.                                    *)

LEMMA ClosedType == Closed \in Doc
BY DEF Closed, Doc

LEMMA RequestType ==
    ASSUME NEW op \in RequestOps, NEW id \in Nat, NEW u,
           IF op = "query" THEN u \in Uris ELSE u = NoUri
    PROVE  Request(op, id, u) \in Requests
BY DEF Request, Requests, Queries

LEMMA NoticeType ==
    /\ Notice("initialized") \in Notices /\ Notice("exit") \in Notices
    /\ \A id \in Nat : Reply(id) \in Notices
BY DEF Notice, Reply, Request, Notices

LEMMA DocNoteType ==
    ASSUME NEW kind \in DocKinds, NEW u \in Uris, NEW d \in Doc
    PROVE  DocNote(kind, u, d) \in DocNotes
BY DEF DocNote, DocNotes

LEMMA EmitType ==
    ASSUME toServer \in Seq(Inputs), NEW m \in Inputs, Emit(m)
    PROVE  toServer' \in Seq(Inputs)
BY DEF Emit

\* Ending a call keeps what it touches well-typed.
LEMMA FinishType ==
    ASSUME CallTypeOK, call.step # "idle",
           NEW outcome \in {"ok", "error", "threw"}, NEW op \in RequestOps,
           NEW u \in Uris \cup {NoUri}, NEW text \in Texts \cup {NoText},
           Finish(outcome, op, u, text)
    PROVE  CallTypeOK'
BY DEF CallTypeOK, Finish, NoCall, RequestOps, QueryOps

LEMMA ThrowType ==
    ASSUME CallTypeOK, call.step # "idle", Throw
    PROVE  CallTypeOK'
BY FinishType DEF CallTypeOK, Throw

LEMMA BeginType ==
    ASSUME CallTypeOK, NEW op \in RequestOps, NEW u, NEW step \in {"ensure", "request"},
           IF op = "query" THEN u \in Uris ELSE u = NoUri,
           step = "ensure" => op = "query",
           Begin(op, u, step), UNCHANGED result,
           phase' \in {"initializing", "closing", phase}
    PROVE  CallTypeOK'
BY DEF CallTypeOK, Begin

-----------------------------------------------------------------------------
(* Type correctness, one step per group of actions.                        *)

LEMMA InitType == Init => TypeOK
BY ClosedType
   DEF Init, TypeOK, CallTypeOK, StoreTypeOK, PipeTypeOK, ServerTypeOK,
       NoCall, NoResult

LEMMA InvokeType == ASSUME TypeOK, Invoke PROVE TypeOK'
<1> USE DEF TypeOK
<1>1. CASE Initialize
  <2>1. CallTypeOK'
    BY <1>1, BeginType DEF Initialize, RequestOps
  <2> QED
    BY <2>1, <1>1 DEF Initialize, StoreTypeOK, PipeTypeOK, ServerTypeOK, world, serverVars
<1>2. CASE Initialized
  <2>1. CallTypeOK'
    BY <1>2 DEF Initialized, CallTypeOK
  <2>2. PipeTypeOK'
    BY <1>2, EmitType, NoticeType DEF Initialized, PipeTypeOK, WriteThrows, Inputs, world
  <2> QED
    BY <2>1, <2>2, <1>2 DEF Initialized, StoreTypeOK, ServerTypeOK, world, serverVars
<1>3. CASE Lookup
  <2>1. CallTypeOK'
    BY <1>3, BeginType DEF Lookup, RequestOps, QueryOps
  <2> QED
    BY <2>1, <1>3
    DEF Lookup, NextCall, StoreTypeOK, PipeTypeOK, ServerTypeOK, world, serverVars
<1>4. CASE ShutdownAndExit
  <2>1. CallTypeOK'
    BY <1>4, BeginType DEF ShutdownAndExit, RequestOps
  <2> QED
    BY <2>1, <1>4
    DEF ShutdownAndExit, StoreTypeOK, PipeTypeOK, ServerTypeOK, world, serverVars
<1>5. ASSUME NEW u \in Uris, DocumentQuery(u) PROVE TypeOK'
  <2>1. CallTypeOK'
    BY <1>5, BeginType DEF DocumentQuery, RequestOps, QueryOps
  <2> QED
    BY <2>1, <1>5
    DEF DocumentQuery, NextCall, StoreTypeOK, PipeTypeOK, ServerTypeOK, world, serverVars
<1>6. ASSUME NEW u \in Uris, NEW t \in Texts, NextCall, SyncText(u, t) PROVE TypeOK'
  <2>1. CallTypeOK'
    BY <1>6 DEF SyncText, CallTypeOK
  <2>2. [text |-> t, version |-> 1] \in Doc
    BY DEF Doc, OpenDocument
  <2>3. docs[u] # Closed => [text |-> t, version |-> docs[u].version + 1] \in Doc
    BY DEF StoreTypeOK, Doc, OpenDocument
  <2>4. StoreTypeOK' /\ PipeTypeOK'
    <3>1. CASE OpenDoc(u, t)
      BY <1>6, <3>1, <2>2, EmitType, DocNoteType
      DEF SyncText, OpenDoc, NextCall, StoreTypeOK, PipeTypeOK, world, DocKinds, Inputs
    <3>2. CASE UNCHANGED <<docs, sent, toServer>>
      BY <1>6, <3>2 DEF SyncText, NextCall, StoreTypeOK, PipeTypeOK, world
    <3>3. CASE /\ docs[u] # Closed
               /\ docs' = [docs EXCEPT ![u] = [text |-> t, version |-> @.version + 1]]
               /\ \/ UNCHANGED <<sent, toServer>>
                  \/ /\ Emit(DocNote("didChange", u, docs'[u])) \/ WriteThrows
                     /\ sent' = [sent EXCEPT ![u] = docs'[u]]
      <4>1. docs' \in [Uris -> Doc] /\ docs'[u] \in Doc
        BY <3>3, <2>3 DEF StoreTypeOK
      <4>2. DocNote("didChange", u, docs'[u]) \in Inputs
        BY <4>1, DocNoteType DEF DocKinds, Inputs
      <4>3. toServer' \in Seq(Inputs) /\ sent' \in [Uris -> Doc]
        BY <3>3, <4>1, <4>2, EmitType DEF WriteThrows, PipeTypeOK, StoreTypeOK, Inputs
      <4> QED
        BY <1>6, <4>1, <4>3 DEF SyncText, NextCall, StoreTypeOK, PipeTypeOK, world, Inputs
    <3> QED
      BY <1>6, <3>1, <3>2, <3>3 DEF SyncText, WriteThrows
  <2> QED
    BY <2>1, <2>4, <1>6 DEF SyncText, ServerTypeOK, world, serverVars
<1>7. ASSUME NEW u \in Uris, CloseFile(u) PROVE TypeOK'
  <2>1. CallTypeOK'
    BY <1>7 DEF CloseFile, CallTypeOK
  <2>2. StoreTypeOK' /\ PipeTypeOK'
    <3>1. docs' \in [Uris -> Doc] /\ sent' \in [Uris -> Doc]
      BY <1>7, ClosedType DEF CloseFile, StoreTypeOK
    <3>2. toServer' \in Seq(Inputs)
      BY <1>7, ClosedType, EmitType, DocNoteType
      DEF CloseFile, WriteThrows, PipeTypeOK, DocKinds, Inputs
    <3> QED
      BY <1>7, <3>1, <3>2
      DEF CloseFile, NextCall, StoreTypeOK, PipeTypeOK, world, Inputs
  <2> QED
    BY <2>1, <2>2, <1>7 DEF CloseFile, ServerTypeOK, world, serverVars
<1>8. ASSUME NEW u \in Uris, SyncMemory(u) \/ SyncDisk(u) PROVE TypeOK'
  BY <1>6, <1>8 DEF SyncMemory, SyncDisk, StoreTypeOK
<1> QED
  BY <1>1, <1>2, <1>3, <1>4, <1>5, <1>7, <1>8 DEF Invoke

\* What the pipe to the client yields is well-typed.
LEMMA PumpType ==
    ASSUME PipeTypeOK, toClient # <<>>
    PROVE  /\ Head(toClient) \in Answers \cup Sayings
           /\ Tail(toClient) \in Seq(Answers \cup Sayings)
BY DEF PipeTypeOK

LEMMA ProgressType == ASSUME TypeOK, Progress PROVE TypeOK'
<1> USE DEF TypeOK
<1>1. CASE EnsureOpen
  <2>1. call.uri \in Uris /\ call.step # "idle"
    BY <1>1 DEF EnsureOpen, CallTypeOK
  <2>2. CallTypeOK'
    BY <1>1, <2>1, ThrowType DEF EnsureOpen, CallTypeOK, RequestOps, QueryOps
  <2>3. StoreTypeOK' /\ PipeTypeOK'
    <3>1. CASE disk[call.uri] \in Encodable /\ OpenDoc(call.uri, disk[call.uri])
      <4> DEFINE d == [text |-> disk[call.uri], version |-> 1]
      <4>1. d \in Doc
        BY <3>1, <2>1 DEF Doc, OpenDocument, Encodable
      <4>2. DocNote("didOpen", call.uri, d) \in Inputs
        BY <4>1, <2>1, DocNoteType DEF DocKinds, Inputs
      <4>3. /\ toServer' \in Seq(Inputs) /\ docs' \in [Uris -> Doc]
            /\ sent' \in [Uris -> Doc]
        BY <3>1, <4>1, <4>2, <2>1, EmitType DEF OpenDoc, PipeTypeOK, StoreTypeOK, Inputs
      <4> QED
        BY <1>1, <4>3 DEF EnsureOpen, StoreTypeOK, PipeTypeOK, world, Inputs
    <3>2. CASE UNCHANGED <<docs, sent, toServer>>
      BY <1>1, <3>2 DEF EnsureOpen, StoreTypeOK, PipeTypeOK, world
    <3> QED
      BY <1>1, <3>1, <3>2 DEF EnsureOpen
  <2> QED
    BY <2>2, <2>3, <1>1 DEF EnsureOpen, ServerTypeOK, world, serverVars
<1>2. CASE SendRequest
  <2>1. Request(call.op, nextId, call.uri) \in Requests
    BY <1>2, RequestType DEF SendRequest, CallTypeOK, StoreTypeOK
  <2>2. CallTypeOK'
    <3>1. CASE call' = [call EXCEPT !.step = "wait", !.id = nextId] /\ UNCHANGED <<phase, result>>
      BY <3>1, <1>2 DEF SendRequest, CallTypeOK, StoreTypeOK
    <3>2. CASE Throw
      BY <3>2, <1>2, ThrowType DEF SendRequest
    <3> QED
      BY <1>2, <3>1, <3>2 DEF SendRequest
  <2>3. toServer' \in Seq(Inputs)
    BY <1>2, <2>1, EmitType DEF SendRequest, WriteThrows, PipeTypeOK, Inputs
  <2> QED
    BY <2>2, <2>3, <1>2
    DEF SendRequest, StoreTypeOK, PipeTypeOK, ServerTypeOK, world, serverVars, Inputs
<1>3. CASE TakeResponse
  <2>1. PICK r \in Mine : Finish(r.status, r.op, r.uri, r.text) /\ responses' = responses \ {r}
    BY <1>3 DEF TakeResponse
  <2>2. r \in Answers
    BY <2>1 DEF Mine, StoreTypeOK
  <2>3. CallTypeOK'
    BY <1>3, <2>1, <2>2, FinishType DEF TakeResponse, Answers
  <2> QED
    BY <2>1, <2>3, <1>3
    DEF TakeResponse, StoreTypeOK, PipeTypeOK, ServerTypeOK, world, serverVars
<1>4. CASE PumpAnswer
  <2>1. Head(toClient) \in Answers
    BY <1>4, PumpType DEF PumpAnswer, Pumping, Sayings
  <2> QED
    BY <1>4, <2>1, PumpType
    DEF PumpAnswer, Pumping, CallTypeOK, StoreTypeOK, PipeTypeOK, ServerTypeOK, world, serverVars
<1>5. CASE PumpAsk
  <2>1. Reply(Head(toClient).id) \in Inputs
    BY <1>5, PumpType, NoticeType DEF PumpAsk, Pumping, Answers, Sayings, Inputs
  <2>2. toServer' \in Seq(Inputs)
    BY <1>5, <2>1, EmitType DEF PumpAsk, WriteThrows, PipeTypeOK, Inputs
  <2>3. CallTypeOK'
    <3>1. CASE UNCHANGED <<phase, call, result>>
      BY <3>1 DEF CallTypeOK
    <3>2. CASE Throw
      BY <3>2, <1>5, ThrowType DEF PumpAsk, Pumping
    <3> QED
      BY <1>5, <3>1, <3>2 DEF PumpAsk
  <2>4. StoreTypeOK' /\ ServerTypeOK' /\ alive' = alive
    BY <1>5 DEF PumpAsk, StoreTypeOK, ServerTypeOK, world, serverVars
  <2> QED
    BY <1>5, <2>2, <2>3, <2>4, PumpType DEF PumpAsk, Pumping, PipeTypeOK, Inputs
<1>6. CASE PumpNotification
  BY <1>6, PumpType
  DEF PumpNotification, Pumping, CallTypeOK, StoreTypeOK, PipeTypeOK, ServerTypeOK,
      world, serverVars
<1>7. CASE PumpGarbage
  <2>1. CallTypeOK'
    BY <1>7, ThrowType DEF PumpGarbage, Pumping
  <2> QED
    BY <1>7, <2>1, PumpType
    DEF PumpGarbage, Pumping, StoreTypeOK, PipeTypeOK, ServerTypeOK, world, serverVars
<1>8. CASE PumpEof
  <2>1. CallTypeOK'
    BY <1>8, ThrowType DEF PumpEof
  <2> QED
    BY <1>8, <2>1 DEF PumpEof, StoreTypeOK, PipeTypeOK, ServerTypeOK, world, serverVars
<1>9. CASE SendExit
  <2>1. CallTypeOK'
    BY <1>9 DEF SendExit, CallTypeOK, NoCall
  <2>2. toServer' \in Seq(Inputs)
    BY <1>9, NoticeType, EmitType DEF SendExit, WriteThrows, PipeTypeOK, Inputs
  <2> QED
    BY <1>9, <2>1, <2>2
    DEF SendExit, StoreTypeOK, PipeTypeOK, ServerTypeOK, world, serverVars, Inputs
<1>10. CASE Wait
  BY <1>10
  DEF Wait, CallTypeOK, StoreTypeOK, PipeTypeOK, ServerTypeOK, world, serverVars
<1> QED
  BY <1>1, <1>2, <1>3, <1>4, <1>5, <1>6, <1>7, <1>8, <1>9, <1>10 DEF Progress

\* What the server reads is well-typed.
LEMMA InputType ==
    ASSUME PipeTypeOK, NEW kinds, Reads(kinds)
    PROVE  /\ Input \in Inputs /\ Input.kind \in kinds
           /\ toServer' \in Seq(Inputs)
BY DEF PipeTypeOK, Reads, Input, Inputs

LEMMA ServerType ==
    ASSUME TypeOK, SrvRead \/ SrvAnswer \/ SrvUnprompted \/ SrvCrash \/ EditDisk
    PROVE  TypeOK'
<1> USE DEF TypeOK
<1>1. CASE SrvReadDoc
  <2>1. Input.uri \in Uris /\ Input.doc \in Doc /\ toServer' \in Seq(Inputs)
    BY <1>1, InputType
    DEF SrvReadDoc, Inputs, DocKinds, DocNotes, Notices, Requests, Queries, RequestOps, QueryOps
  <2> QED
    BY <1>1, <2>1
    DEF SrvReadDoc, CallTypeOK, StoreTypeOK, PipeTypeOK, ServerTypeOK, clientVars, Inputs
<1>2. CASE SrvReadRequest
  <2>1. Input \in Requests /\ toServer' \in Seq(Inputs)
    BY <1>2, InputType
    DEF SrvReadRequest, Inputs, DocKinds, DocNotes, Notices, RequestOps, QueryOps
  <2> QED
    BY <1>2, <2>1
    DEF SrvReadRequest, CallTypeOK, StoreTypeOK, PipeTypeOK, ServerTypeOK, clientVars, Inputs
<1>3. CASE SrvReadInitialized
  BY <1>3, InputType
  DEF SrvReadInitialized, CallTypeOK, StoreTypeOK, PipeTypeOK, ServerTypeOK, clientVars, Inputs
<1>4. CASE SrvReadReply
  <2>1. toServer' \in Seq(Inputs)
    BY <1>4, InputType DEF SrvReadReply
  <2>2. PipeTypeOK'
    BY <1>4, <2>1 DEF SrvReadReply, PipeTypeOK, Inputs
  <2>3. CallTypeOK' /\ StoreTypeOK'
    BY <1>4 DEF SrvReadReply, CallTypeOK, StoreTypeOK, clientVars
  <2>4. ServerTypeOK'
    BY <1>4 DEF SrvReadReply, ServerTypeOK
  <2> QED
    BY <2>2, <2>3, <2>4
<1>5. CASE SrvReadExit
  <2>1. toServer' \in Seq(Inputs)
    BY <1>5, InputType DEF SrvReadExit
  <2>2. PipeTypeOK'
    BY <1>5, <2>1 DEF SrvReadExit, PipeTypeOK, Inputs
  <2> QED
    BY <1>5, <2>2 DEF SrvReadExit, CallTypeOK, StoreTypeOK, ServerTypeOK, clientVars, serverVars
<1>6. CASE SrvAnswer
  <2>1. PICK req \in srvPending, status \in {"ok", "error", "threw"} :
           /\ toClient' = Append(toClient, Answer(req, status, TextFor(req)))
           /\ srvPending' = srvPending \ {req}
           /\ srvPhase' = IF req.kind = "initialize" /\ srvPhase = "new"
                          THEN "ready" ELSE srvPhase
    BY <1>6 DEF SrvAnswer, SrvSay
  <2>2. req \in Requests
    BY <2>1 DEF ServerTypeOK
  <2>3. TextFor(req) \in Texts \cup {NoText}
    <3>1. CASE req.kind = "query"
      <4>1. srvDocs[req.uri] \in Doc
        BY <2>2, <3>1 DEF ServerTypeOK, Requests, Queries, RequestOps, QueryOps
      <4> QED
        BY <3>1, <4>1 DEF TextFor, Doc, OpenDocument, Closed
    <3> QED
      BY <3>1 DEF TextFor
  <2>4. Answer(req, status, TextFor(req)) \in Answers
    BY <2>2, <2>3 DEF Answer, Answers, Requests, Queries, RequestOps, QueryOps
  <2>5. toClient' \in Seq(Answers \cup Sayings)
    BY <2>1, <2>4 DEF PipeTypeOK
  <2>6. CallTypeOK' /\ StoreTypeOK' /\ PipeTypeOK'
    BY <1>6, <2>5 DEF SrvAnswer, CallTypeOK, StoreTypeOK, PipeTypeOK, clientVars
  <2> QED
    BY <1>6, <2>1, <2>6 DEF SrvAnswer, ServerTypeOK
<1>7. CASE SrvUnprompted
  <2>1. PICK kind \in {"ask", "notify", "garbage"} :
           /\ toClient' = Append(toClient, Unprompted(kind, unprompted'))
           /\ srvAsked' = IF kind = "ask" THEN srvAsked \cup {unprompted'} ELSE srvAsked
    BY <1>7 DEF SrvUnprompted, SrvSay
  <2>2. unprompted' \in Nat
    BY <1>7 DEF SrvUnprompted, ServerTypeOK
  <2>3. Unprompted(kind, unprompted') \in Sayings
    BY <2>1, <2>2 DEF Unprompted, Sayings
  <2>4. toClient' \in Seq(Answers \cup Sayings)
    BY <2>1, <2>3 DEF PipeTypeOK
  <2>5. CallTypeOK' /\ StoreTypeOK' /\ PipeTypeOK'
    BY <1>7, <2>4 DEF SrvUnprompted, CallTypeOK, StoreTypeOK, PipeTypeOK, clientVars
  <2> QED
    BY <1>7, <2>1, <2>2, <2>5 DEF SrvUnprompted, ServerTypeOK
<1>8. CASE SrvCrash
  <2>1. toServer' \in Seq(Inputs)
    BY <1>8 DEF SrvCrash
  <2>2. PipeTypeOK'
    BY <1>8, <2>1 DEF SrvCrash, PipeTypeOK, Inputs
  <2> QED
    BY <1>8, <2>2 DEF SrvCrash, CallTypeOK, StoreTypeOK, ServerTypeOK, clientVars, serverVars
<1>9. CASE EditDisk
  BY <1>9 DEF EditDisk, CallTypeOK, StoreTypeOK, PipeTypeOK, ServerTypeOK, clientVars, serverVars
<1> QED
  BY <1>1, <1>2, <1>3, <1>4, <1>5, <1>6, <1>7, <1>8, <1>9 DEF SrvRead

LEMMA StutterType == ASSUME TypeOK, UNCHANGED vars PROVE TypeOK'
BY DEF vars, world, clientVars, serverVars, TypeOK, CallTypeOK, StoreTypeOK,
       PipeTypeOK, ServerTypeOK

\* Every variable of the session, of both pipes and of the server keeps its type.
THEOREM TypeCorrect == Spec => []TypeOK
<1>1. TypeOK /\ [Next]_vars => TypeOK'
  BY InvokeType, ProgressType, ServerType, StutterType DEF Next, Over
<1> QED
  BY <1>1, InitType, PTL DEF Spec

-----------------------------------------------------------------------------
(* The server's copy follows what was encoded of the client's table. Given *)
(* types, Encoded and Mirrored are each inductive; WireLegal needs both,   *)
(* because a message is legal for the state the queue before it leads to:  *)
(* Mirrored says it is sent, and Encoded how sent and docs differ.         *)
(* QueryReady ties the two halves of a document query together.            *)

QueryReady ==
    /\ call.step = "ensure" => docs[call.uri] = Closed
    /\ call.op = "query" /\ call.step = "request" => docs[call.uri] # Closed

SessionInv == TypeOK /\ QueryReady /\ Encoded /\ Mirrored /\ WireLegal

\* What was encoded of a document is open when the table's document is, and of
\* no later version.
LEMMA SentOpen ==
    ASSUME TypeOK, Encoded, NEW u \in Uris
    PROVE  /\ docs[u] = Closed <=> sent[u] = Closed
           /\ sent[u].version <= docs[u].version
           /\ docs[u] # Closed => docs[u].text \in Texts /\ sent[u].text \in Encodable
<1>1. docs[u] \in Doc /\ sent[u] \in Doc
  BY DEF TypeOK, StoreTypeOK
<1>2. Closed.text \notin Texts /\ Closed.version = 0 /\ NotUtf8 \subseteq Texts
  BY TextsAssumption DEF Closed
<1>3. \A e \in Doc : e.version \in Nat /\ (e # Closed => e.text \in Texts)
  BY <1>2 DEF Doc, OpenDocument
<1> QED
  BY <1>1, <1>2, <1>3 DEF Encoded, Encodable

\* The table and what was encoded of it move together.
LEMMA EncodedTogether ==
    ASSUME TypeOK, Encoded, NEW u \in Uris, NEW d, d.text \notin NotUtf8,
           docs' = [docs EXCEPT ![u] = d], sent' = [sent EXCEPT ![u] = d]
    PROVE  Encoded'
BY DEF Encoded, TypeOK, StoreTypeOK

\* The table moves alone, to a text that cannot be encoded.
LEMMA EncodedAlone ==
    ASSUME TypeOK, Encoded, NEW u \in Uris, NEW t \in NotUtf8, docs[u] # Closed,
           docs' = [docs EXCEPT ![u] = [text |-> t, version |-> @.version + 1]],
           UNCHANGED sent
    PROVE  Encoded'
<1>1. /\ sent[u].text \in Encodable /\ sent[u].version <= docs[u].version
      /\ sent[u].version \in Nat /\ docs[u].version \in Nat
  BY SentOpen DEF TypeOK, StoreTypeOK, Doc, OpenDocument, Closed
<1>2. docs'[u] = [text |-> t, version |-> docs[u].version + 1]
  BY DEF TypeOK, StoreTypeOK
<1>3. \A v \in Uris : v # u => docs'[v] = docs[v]
  BY DEF TypeOK, StoreTypeOK
<1>4. sent[u].version < docs'[u].version
  BY <1>1, <1>2
<1> QED
  BY <1>1, <1>2, <1>3, <1>4 DEF Encoded

LEMMA EncodedOpened ==
    ASSUME TypeOK, Encoded, NEW u \in Uris, NEW t \in Encodable, OpenDoc(u, t)
    PROVE  Encoded'
<1> DEFINE d == [text |-> t, version |-> 1]
<1>1. d.text \notin NotUtf8
  BY DEF Encodable
<1>2. docs' = [docs EXCEPT ![u] = d] /\ sent' = [sent EXCEPT ![u] = d]
  BY DEF OpenDoc
<1> HIDE DEF d
<1> QED
  BY <1>1, <1>2, EncodedTogether

LEMMA EncodedSync ==
    ASSUME TypeOK, Encoded, NEW u \in Uris, NEW t \in Texts, SyncText(u, t)
    PROVE  Encoded'
<1>1. CASE UNCHANGED <<docs, sent>>
  BY <1>1 DEF Encoded
<1>2. CASE t \in Encodable /\ OpenDoc(u, t)
  BY <1>2, EncodedOpened
<1>3. CASE /\ docs[u] # Closed
           /\ docs' = [docs EXCEPT ![u] = [text |-> t, version |-> @.version + 1]]
  <2>1. CASE t \in NotUtf8 /\ UNCHANGED sent
    BY <1>3, <2>1, EncodedAlone
  <2>2. CASE t \in Encodable /\ sent' = [sent EXCEPT ![u] = docs'[u]]
    <3>e. PICK e : e = [text |-> t, version |-> docs[u].version + 1]
      OBVIOUS
    <3>1. docs' = [docs EXCEPT ![u] = e] /\ docs'[u] = e
      BY <1>3, <3>e DEF TypeOK, StoreTypeOK
    <3>2. sent' = [sent EXCEPT ![u] = e] /\ e.text \notin NotUtf8
      BY <2>2, <3>e, <3>1 DEF Encodable
    <3> QED
      BY <3>1, <3>2, EncodedTogether
  <2> QED
    BY <1>1, <1>3, <2>1, <2>2 DEF SyncText
<1> QED
  BY <1>1, <1>2, <1>3 DEF SyncText

\* The table is touched by the calls that open, change and close a document.
LEMMA EncodedStep == ASSUME TypeOK, Encoded, Next PROVE Encoded'
<1>1. CASE UNCHANGED <<docs, sent>>
  BY <1>1 DEF Encoded
<1>2. ASSUME NEW u \in Uris, NEW t \in Texts, SyncText(u, t) PROVE Encoded'
  BY <1>2, EncodedSync
<1>3. ASSUME NEW u \in Uris, CloseFile(u) PROVE Encoded'
  <2>1. Closed.text \notin NotUtf8
    BY TextsAssumption DEF Closed
  <2> QED
    BY <1>1, <1>3, <2>1, EncodedTogether DEF CloseFile
<1>4. CASE EnsureOpen
  <2>1. call.uri \in Uris
    BY <1>4 DEF EnsureOpen, TypeOK, CallTypeOK
  <2> QED
    BY <1>1, <1>4, <2>1, EncodedOpened DEF EnsureOpen
<1>5. CASE Invoke
  <2>1. CASE \E u \in Uris : SyncMemory(u) \/ SyncDisk(u) \/ CloseFile(u)
    BY <1>2, <1>3, <2>1 DEF SyncMemory, SyncDisk, TypeOK, StoreTypeOK
  <2>2. CASE Initialize \/ Initialized \/ Lookup \/ ShutdownAndExit
             \/ \E u \in Uris : DocumentQuery(u)
    BY <1>1, <2>2 DEF Initialize, Initialized, Lookup, ShutdownAndExit, DocumentQuery
  <2> QED
    BY <1>5, <2>1, <2>2 DEF Invoke
<1>6. CASE Progress /\ ~EnsureOpen
  BY <1>1, <1>6
  DEF Progress, SendRequest, TakeResponse, PumpAnswer, PumpAsk, PumpNotification,
      PumpGarbage, PumpEof, SendExit, Wait
<1>7. CASE SrvRead \/ SrvAnswer \/ SrvUnprompted \/ SrvCrash \/ EditDisk \/ Over
  BY <1>1, <1>7
  DEF SrvRead, SrvReadDoc, SrvReadRequest, SrvReadInitialized, SrvReadReply, SrvReadExit,
      SrvAnswer, SrvUnprompted, SrvCrash, EditDisk, Over, vars, clientVars
<1> QED
  BY <1>4, <1>5, <1>6, <1>7 DEF Next

\* The client writes m, and its table moves where m says.
LEMMA AppendStep ==
    ASSUME PipeTypeOK, alive, alive', Mirrored, WireLegal,
           NEW m \in Inputs, toServer' = Append(toServer, m), UNCHANGED srvDocs,
           \A u \in Uris : sent'[u] = IF About(m, u) THEN m.doc ELSE sent[u],
           m.uri \in Uris => Legal(m, sent[m.uri])
    PROVE  Mirrored' /\ WireLegal'
<1>n. PICK n \in Nat : n = Len(toServer)
  BY DEF PipeTypeOK
<1>1. /\ Len(toServer) = n /\ Len(toServer') = n + 1
      /\ toServer'[n + 1] = m /\ \A i \in 1 .. n : toServer'[i] = toServer[i]
      /\ DOMAIN toServer = 1 .. n /\ DOMAIN toServer' = 1 .. n + 1
  BY <1>n DEF PipeTypeOK, Inputs
<1>2. ASSUME NEW u \in Uris, NEW i \in 1 .. n + 1
      PROVE  /\ Untouched(i, u)' <=> Untouched(i, u)
             /\ \A j \in 1 .. n : Latest(i, u, j)' <=> Latest(i, u, j)
  BY <1>1 DEF Untouched, Latest, About
<1>3. Mirrored'
  <2> SUFFICES ASSUME NEW u \in Uris
               PROVE  /\ Untouched(n + 2, u)' => srvDocs[u] = sent'[u]
                      /\ \A j \in 1 .. n + 1 :
                           Latest(n + 2, u, j)' => toServer'[j].doc = sent'[u]
    BY <1>1 DEF Mirrored
  <2>1. CASE About(m, u)
    BY <1>1, <2>1 DEF Untouched, Latest
  <2>2. CASE ~About(m, u)
    <3>1. Untouched(n + 2, u)' => Untouched(n + 1, u)
      BY <1>1 DEF Untouched
    <3>2. ASSUME NEW j \in 1 .. n + 1, Latest(n + 2, u, j)'
          PROVE  j \in 1 .. n /\ Latest(n + 1, u, j)
      BY <1>1, <2>2, <3>2 DEF Latest
    <3> QED
      BY <1>1, <2>2, <3>1, <3>2 DEF Mirrored
  <2> QED
    BY <2>1, <2>2
<1>4. WireLegal'
  <2> SUFFICES ASSUME NEW i \in 1 .. n + 1, NEW u \in Uris, toServer'[i].uri = u
               PROVE  /\ Untouched(i, u)' => Legal(toServer'[i], srvDocs[u])
                      /\ \A j \in 1 .. n + 1 :
                           Latest(i, u, j)' => Legal(toServer'[i], toServer'[j].doc)
    BY <1>1 DEF WireLegal, Legal, Closed
  <2>1. CASE i \in 1 .. n
    <3>1. \A j \in 1 .. n + 1 : Latest(i, u, j)' => j \in 1 .. n
      BY <1>1, <2>1 DEF Latest
    <3> QED
      BY <1>1, <1>2, <2>1, <3>1 DEF WireLegal
  <2>2. CASE i = n + 1
    <3>1. Legal(m, sent[u])
      BY <1>1, <2>2
    <3>2. \A j \in 1 .. n + 1 : Latest(i, u, j)' => j \in 1 .. n
      BY <1>1, <2>2 DEF Latest
    <3>3. Untouched(i, u)' => srvDocs[u] = sent[u]
      BY <1>1, <1>2, <2>2 DEF Mirrored
    <3>4. ASSUME NEW j \in 1 .. n, Latest(i, u, j)'
          PROVE  toServer'[j].doc = sent[u]
      <4>1. Latest(n + 1, u, j)
        BY <1>2, <2>2, <3>4
      <4> QED
        BY <1>1, <4>1 DEF Mirrored
    <3>5. toServer'[i] = m
      BY <1>1, <2>2
    <3>6. Untouched(i, u)' => Legal(toServer'[i], srvDocs[u])
      BY <3>1, <3>3, <3>5
    <3>7. ASSUME NEW j \in 1 .. n + 1, Latest(i, u, j)'
          PROVE  Legal(toServer'[i], toServer'[j].doc)
      BY <3>1, <3>2, <3>4, <3>5, <3>7
    <3> QED
      BY <3>6, <3>7
  <2>3. i \in 1 .. n \/ i = n + 1
    OBVIOUS
  <2> QED
    BY <2>1, <2>2, <2>3
<1> QED
  BY <1>3, <1>4

\* The server reads the first message, and its copy moves where that one says.
LEMMA TailStep ==
    ASSUME PipeTypeOK, alive, Mirrored, WireLegal, toServer # <<>>,
           toServer' = Tail(toServer), UNCHANGED sent,
           \A u \in Uris : srvDocs'[u] = IF About(Head(toServer), u)
                                         THEN Head(toServer).doc ELSE srvDocs[u]
    PROVE  Mirrored' /\ WireLegal'
<1>n. PICK n \in Nat : n = Len(toServer)
  BY DEF PipeTypeOK
<1>1. /\ Len(toServer) = n /\ n > 0 /\ Len(toServer') = n - 1
      /\ Head(toServer) = toServer[1] /\ \A i \in 1 .. n - 1 : toServer'[i] = toServer[i + 1]
      /\ DOMAIN toServer = 1 .. n /\ DOMAIN toServer' = 1 .. n - 1
  BY <1>n DEF PipeTypeOK, Inputs
<1>2. ASSUME NEW u \in Uris, NEW i \in 1 .. n,
             NEW j \in 1 .. n - 1, Latest(i, u, j)'
      PROVE  Latest(i + 1, u, j + 1)
  <2>1. j + 1 \in 1 .. i /\ About(toServer[j + 1], u)
    BY <1>1, <1>2 DEF Latest
  <2>2. ASSUME NEW k \in j + 2 .. i PROVE ~About(toServer[k], u)
    <3>1. k - 1 \in j + 1 .. i - 1 /\ k - 1 \in 1 .. n - 1
      BY <1>1
    <3>2. toServer'[k - 1] = toServer[k]
      BY <1>1, <3>1
    <3> QED
      BY <1>2, <3>1, <3>2 DEF Latest
  <2> QED
    BY <2>1, <2>2 DEF Latest
<1>3. ASSUME NEW u \in Uris, NEW i \in 1 .. n, Untouched(i, u)'
      PROVE  IF About(toServer[1], u) THEN Latest(i + 1, u, 1) ELSE Untouched(i + 1, u)
  <2>1. ASSUME NEW k \in 2 .. i PROVE ~About(toServer[k], u)
    <3>1. k - 1 \in 1 .. i - 1 /\ k - 1 \in 1 .. n - 1
      BY <1>1
    <3>2. toServer'[k - 1] = toServer[k]
      BY <1>1, <3>1
    <3> QED
      BY <1>3, <3>1, <3>2 DEF Untouched
  <2> QED
    BY <1>1, <2>1 DEF Latest, Untouched
<1>4. Mirrored'
  <2> SUFFICES ASSUME NEW u \in Uris
               PROVE  /\ Untouched(n, u)' => srvDocs'[u] = sent[u]
                      /\ \A j \in 1 .. n - 1 :
                           Latest(n, u, j)' => toServer'[j].doc = sent[u]
    BY <1>1 DEF Mirrored
  <2>1. Untouched(n, u)' => srvDocs'[u] = sent[u]
    BY <1>1, <1>3 DEF Mirrored
  <2>2. ASSUME NEW j \in 1 .. n - 1, Latest(n, u, j)'
        PROVE  toServer'[j].doc = sent[u]
    <3>1. Latest(n + 1, u, j + 1) /\ j + 1 \in DOMAIN toServer
      <4>1. n \in 1 .. n /\ j + 1 \in 1 .. n
        BY <1>1
      <4> QED
        BY <1>1, <1>2, <2>2, <4>1
    <3>2. toServer[j + 1].doc = sent[u]
      BY <1>1, <3>1 DEF Mirrored
    <3> QED
      BY <1>1, <3>2
  <2> QED
    BY <2>1, <2>2
<1>5. WireLegal'
  <2> SUFFICES ASSUME NEW i \in 1 .. n - 1, NEW u \in Uris, toServer'[i].uri = u
               PROVE  /\ Untouched(i, u)' => Legal(toServer'[i], srvDocs'[u])
                      /\ \A j \in 1 .. n - 1 :
                           Latest(i, u, j)' => Legal(toServer'[i], toServer'[j].doc)
    BY <1>1 DEF WireLegal, Legal, Closed
  <2>1. /\ i + 1 \in DOMAIN toServer /\ toServer'[i] = toServer[i + 1]
        /\ toServer[i + 1].uri = u
    BY <1>1
  <2>2. Untouched(i, u)' => Legal(toServer'[i], srvDocs'[u])
    BY <1>1, <1>3, <2>1 DEF WireLegal
  <2>3. ASSUME NEW j \in 1 .. n - 1, Latest(i, u, j)'
        PROVE  Legal(toServer'[i], toServer'[j].doc)
    <3>1. Latest(i + 1, u, j + 1) /\ j + 1 \in DOMAIN toServer
      BY <1>1, <1>2, <2>3
    <3>2. Legal(toServer[i + 1], toServer[j + 1].doc)
      BY <2>1, <3>1 DEF WireLegal
    <3> QED
      BY <1>1, <2>1, <3>2
  <2> QED
    BY <2>2, <2>3
<1> QED
  BY <1>4, <1>5

\* A step that leaves the queue, both copies and the child alone.
LEMMA QuietStep ==
    ASSUME Mirrored, WireLegal, UNCHANGED <<toServer, sent, srvDocs>>, alive' => alive
    PROVE  Mirrored' /\ WireLegal'
BY DEF Mirrored, WireLegal, Untouched, Latest, Legal, Closed

\* A step after which nobody reads what the client writes.
LEMMA DeadStep == ASSUME ~alive' PROVE Mirrored' /\ WireLegal'
BY DEF Mirrored, WireLegal

\* A write of a message that is about no document.
LEMMA OtherStep ==
    ASSUME TypeOK, Mirrored, WireLegal, NEW m \in Requests \cup Notices, Emit(m),
           m.kind = "query" => sent[m.uri] # Closed,
           UNCHANGED <<sent, srvDocs, alive>>
    PROVE  Mirrored' /\ WireLegal'
<1>1. m \in Inputs /\ m.kind \notin DocKinds
  BY DEF Inputs, Requests, Queries, Notices, DocKinds, RequestOps, QueryOps
<1>2. m.uri \in Uris => Legal(m, sent[m.uri])
  BY <1>1 DEF Legal, DocKinds
<1>3. \A u \in Uris : sent'[u] = IF About(m, u) THEN m.doc ELSE sent[u]
  BY <1>1 DEF About
<1> QED
  BY <1>1, <1>2, <1>3, AppendStep DEF Emit, TypeOK

\* A write of a document note that says what has been encoded.
LEMMA NoteStep ==
    ASSUME TypeOK, Mirrored, WireLegal,
           NEW kind \in DocKinds, NEW u \in Uris, NEW d \in Doc,
           Emit(DocNote(kind, u, d)), sent' = [sent EXCEPT ![u] = d],
           Legal(DocNote(kind, u, d), sent[u]),
           UNCHANGED <<srvDocs, alive>>
    PROVE  Mirrored' /\ WireLegal'
<1> DEFINE m == DocNote(kind, u, d)
<1>1. m \in Inputs /\ m.uri = u /\ m.doc = d /\ m.kind \in DocKinds
  BY DocNoteType DEF Inputs, DocNote
<1>2. \A v \in Uris : sent'[v] = IF About(m, v) THEN m.doc ELSE sent[v]
  BY <1>1 DEF About, TypeOK, StoreTypeOK
<1> HIDE DEF m
<1> QED
  BY <1>1, <1>2, AppendStep DEF Emit, TypeOK, m

LEMMA InitMirror == Init => QueryReady /\ Encoded /\ Mirrored /\ WireLegal
<1> SUFFICES ASSUME Init PROVE QueryReady /\ Encoded /\ Mirrored /\ WireLegal
  OBVIOUS
<1>1. Encoded
  <2>1. Closed.text \notin NotUtf8
    BY TextsAssumption DEF Closed
  <2> QED
    BY <2>1 DEF Init, Encoded
<1> QED
  BY <1>1 DEF Init, QueryReady, Mirrored, WireLegal, NoCall, Closed

\* Opening a document.
LEMMA OpenStep ==
    ASSUME TypeOK, Mirrored, WireLegal, NEW u \in Uris, NEW t \in Texts,
           sent[u] = Closed, OpenDoc(u, t), UNCHANGED <<srvDocs, alive>>
    PROVE  Mirrored' /\ WireLegal' /\ sent'[u] # Closed
<1> DEFINE d == [text |-> t, version |-> 1]
<1>1. d \in Doc /\ d # Closed
  BY TextsAssumption DEF Doc, OpenDocument, Closed
<1>2. Legal(DocNote("didOpen", u, d), sent[u])
  BY <1>1 DEF Legal, DocNote
<1>3. Emit(DocNote("didOpen", u, d)) /\ sent' = [sent EXCEPT ![u] = d]
  BY DEF OpenDoc
<1>4. sent'[u] = d
  BY <1>3 DEF TypeOK, StoreTypeOK
<1> HIDE DEF d
<1> QED
  BY <1>1, <1>2, <1>3, <1>4, NoteStep DEF DocKinds

LEMMA SyncStep ==
    ASSUME TypeOK, Encoded, Mirrored, WireLegal,
           NEW u \in Uris, NEW t \in Texts, SyncText(u, t)
    PROVE  Mirrored' /\ WireLegal'
<1>1. UNCHANGED <<srvDocs, alive>>
  BY DEF SyncText, world, serverVars
<1>2. CASE WriteThrows
  BY <1>1, <1>2, DeadStep DEF WriteThrows
<1>3. CASE docs[u] = Closed /\ OpenDoc(u, t)
  BY <1>1, <1>3, SentOpen, OpenStep
<1>4. CASE UNCHANGED <<sent, toServer>>
  BY <1>1, <1>4, QuietStep
<1>5. CASE /\ docs[u] # Closed
           /\ docs' = [docs EXCEPT ![u] = [text |-> t, version |-> @.version + 1]]
           /\ Emit(DocNote("didChange", u, docs'[u]))
           /\ sent' = [sent EXCEPT ![u] = docs'[u]]
  <2> DEFINE d == [text |-> t, version |-> docs[u].version + 1]
  <2>1. d \in Doc /\ d.version = docs[u].version + 1 /\ docs[u].version \in Nat
    BY <1>5 DEF TypeOK, StoreTypeOK, Doc, OpenDocument
  <2>2. docs'[u] = d
    BY <1>5 DEF TypeOK, StoreTypeOK
  <2>3. sent[u].version \in Nat
    BY DEF TypeOK, StoreTypeOK, Doc, OpenDocument, Closed
  <2> HIDE DEF d
  <2>4. Legal(DocNote("didChange", u, d), sent[u])
    BY <1>5, <2>1, <2>3, SentOpen DEF Legal, DocNote
  <2> QED
    BY <1>1, <1>5, <2>1, <2>2, <2>4, NoteStep DEF DocKinds
<1> QED
  BY <1>2, <1>3, <1>4, <1>5 DEF SyncText

LEMMA InvokeMirror == ASSUME SessionInv, Invoke PROVE (QueryReady /\ Mirrored /\ WireLegal)'
<1> USE DEF SessionInv
<1>1. CASE Initialize
  <2>1. QueryReady'
    BY <1>1 DEF Initialize, Begin, QueryReady
  <2> QED
    BY <1>1, <2>1, QuietStep DEF Initialize, world, serverVars
<1>2. CASE Initialized
  <2>1. QueryReady'
    BY <1>2 DEF Initialized, QueryReady
  <2>2. Mirrored' /\ WireLegal'
    <3>1. CASE Emit(Notice("initialized"))
      <4>1. Notice("initialized") \in Notices /\ Notice("initialized").kind # "query"
        BY NoticeType DEF Notice, Request
      <4> QED
        BY <1>2, <3>1, <4>1, OtherStep DEF Initialized, world, serverVars
    <3>2. CASE WriteThrows
      BY <1>2, <3>2, DeadStep DEF Initialized, WriteThrows, world
    <3> QED
      BY <1>2, <3>1, <3>2 DEF Initialized
  <2> QED
    BY <2>1, <2>2
<1>3. CASE Lookup
  <2>1. QueryReady'
    BY <1>3 DEF Lookup, Begin, QueryReady
  <2> QED
    BY <1>3, <2>1, QuietStep DEF Lookup, world, serverVars
<1>4. CASE ShutdownAndExit
  <2>1. QueryReady'
    BY <1>4 DEF ShutdownAndExit, Begin, QueryReady
  <2> QED
    BY <1>4, <2>1, QuietStep DEF ShutdownAndExit, world, serverVars
<1>5. ASSUME NEW u \in Uris, DocumentQuery(u)
      PROVE  (QueryReady /\ Mirrored /\ WireLegal)'
  <2>1. QueryReady'
    BY <1>5 DEF DocumentQuery, Begin, QueryReady
  <2> QED
    BY <1>5, <2>1, QuietStep DEF DocumentQuery, world, serverVars
<1>6. ASSUME NEW u \in Uris, NEW t \in Texts, NextCall, SyncText(u, t)
      PROVE  (QueryReady /\ Mirrored /\ WireLegal)'
  <2>1. QueryReady'
    BY <1>6 DEF NextCall, Idle, SyncText, QueryReady
  <2> QED
    BY <1>6, <2>1, SyncStep
<1>7. ASSUME NEW u \in Uris, CloseFile(u)
      PROVE  (QueryReady /\ Mirrored /\ WireLegal)'
  <2>1. QueryReady'
    BY <1>7 DEF CloseFile, NextCall, Idle, QueryReady
  <2>2. CASE Emit(DocNote("didClose", u, Closed)) /\ sent' = [sent EXCEPT ![u] = Closed]
    <3>1. Legal(DocNote("didClose", u, Closed), sent[u])
      BY <1>7, SentOpen DEF CloseFile, Legal, DocNote
    <3> QED
      BY <1>7, <2>1, <2>2, <3>1, ClosedType, NoteStep DEF CloseFile, DocKinds, world, serverVars
  <2>3. CASE WriteThrows
    BY <1>7, <2>1, <2>3, DeadStep DEF CloseFile, WriteThrows, world
  <2> QED
    BY <1>7, <2>2, <2>3 DEF CloseFile
<1>8. ASSUME NEW u \in Uris, SyncMemory(u) \/ SyncDisk(u)
      PROVE  (QueryReady /\ Mirrored /\ WireLegal)'
  BY <1>6, <1>8 DEF SyncMemory, SyncDisk, TypeOK, StoreTypeOK
<1> QED
  BY <1>1, <1>2, <1>3, <1>4, <1>5, <1>7, <1>8 DEF Invoke

\* An exception leaves no document query in the middle.
LEMMA FinishReady ==
    ASSUME NEW outcome, NEW op, NEW u, NEW text, Finish(outcome, op, u, text)
    PROVE  QueryReady'
BY DEF Finish, QueryReady, NoCall

LEMMA ProgressMirror ==
    ASSUME SessionInv, Progress PROVE (QueryReady /\ Mirrored /\ WireLegal)'
<1> USE DEF SessionInv
<1>1. CASE EnsureOpen
  <2>1. call.uri \in Uris /\ call.op = "query"
    BY <1>1 DEF EnsureOpen, TypeOK, CallTypeOK
  <2>2. UNCHANGED <<srvDocs, alive>>
    BY <1>1 DEF EnsureOpen, world, serverVars
  <2>3. CASE /\ disk[call.uri] \in Encodable /\ OpenDoc(call.uri, disk[call.uri])
             /\ call' = [call EXCEPT !.step = "request"]
    <3>1. sent[call.uri] = Closed /\ disk[call.uri] \in Texts
      BY <1>1, <2>1, <2>3, SentOpen DEF EnsureOpen, QueryReady, Encodable
    <3>2. Mirrored' /\ WireLegal' /\ docs'[call.uri] # Closed
      <4>1. docs' = [docs EXCEPT ![call.uri] = sent'[call.uri]]
        BY <2>1, <2>3 DEF OpenDoc, TypeOK, StoreTypeOK
      <4>2. docs'[call.uri] = sent'[call.uri]
        BY <2>1, <4>1 DEF TypeOK, StoreTypeOK
      <4> QED
        BY <2>1, <2>2, <2>3, <3>1, <4>2, OpenStep
    <3>3. call'.uri = call.uri /\ call'.step = "request"
      BY <2>3 DEF TypeOK, CallTypeOK
    <3> QED
      BY <3>2, <3>3 DEF QueryReady
  <2>4. CASE Throw /\ UNCHANGED <<docs, sent, toServer>>
    BY <2>2, <2>4, FinishReady, QuietStep DEF Throw
  <2> QED
    BY <1>1, <2>3, <2>4 DEF EnsureOpen
<1>2. CASE SendRequest
  <2>1. UNCHANGED <<docs, sent, srvDocs, alive>>
    BY <1>2 DEF SendRequest, world, serverVars
  <2>2. CASE /\ Emit(Request(call.op, nextId, call.uri))
             /\ call' = [call EXCEPT !.step = "wait", !.id = nextId]
    <3> DEFINE m == Request(call.op, nextId, call.uri)
    <3>1. m \in Requests
      BY <1>2, RequestType DEF SendRequest, TypeOK, CallTypeOK, StoreTypeOK
    <3>2. m.kind = "query" => sent[m.uri] # Closed
      <4>1. call.op = "query" => call.uri \in Uris /\ docs[call.uri] # Closed
        BY <1>2 DEF SendRequest, QueryReady, TypeOK, CallTypeOK
      <4> QED
        BY <4>1, SentOpen DEF Request
    <3>3. Emit(m)
      BY <2>2
    <3> HIDE DEF m
    <3>4. Mirrored' /\ WireLegal'
      BY <2>1, <3>1, <3>2, <3>3, OtherStep
    <3>5. call'.step = "wait"
      BY <2>2 DEF TypeOK, CallTypeOK
    <3> QED
      BY <3>4, <3>5 DEF QueryReady
  <2>3. CASE WriteThrows /\ Throw
    BY <2>1, <2>3, FinishReady, DeadStep DEF Throw, WriteThrows
  <2> QED
    BY <1>2, <2>2, <2>3 DEF SendRequest
<1>3. CASE TakeResponse
  <2>1. PICK r \in Mine : Finish(r.status, r.op, r.uri, r.text)
    BY <1>3 DEF TakeResponse
  <2> QED
    BY <1>3, <2>1, FinishReady, QuietStep DEF TakeResponse, world, serverVars
<1>4. CASE PumpAnswer
  BY <1>4, QuietStep DEF PumpAnswer, QueryReady, world, serverVars
<1>5. CASE PumpAsk
  <2>1. UNCHANGED <<docs, sent, srvDocs, alive>>
    BY <1>5 DEF PumpAsk, world, serverVars
  <2>2. CASE Emit(Reply(Head(toClient).id)) /\ UNCHANGED call
    <3> DEFINE m == Reply(Head(toClient).id)
    <3>1. m \in Notices /\ m.kind # "query"
      BY <1>5, PumpType, NoticeType
      DEF PumpAsk, Pumping, TypeOK, Answers, Sayings, Reply, Request
    <3>2. Emit(m)
      BY <2>2
    <3> HIDE DEF m
    <3> QED
      BY <2>1, <2>2, <3>1, <3>2, OtherStep DEF QueryReady
  <2>3. CASE WriteThrows /\ Throw
    BY <2>1, <2>3, FinishReady, DeadStep DEF Throw, WriteThrows
  <2> QED
    BY <1>5, <2>2, <2>3 DEF PumpAsk
<1>6. CASE PumpNotification
  BY <1>6, QuietStep DEF PumpNotification, QueryReady, world, serverVars
<1>7. CASE PumpGarbage
  BY <1>7, FinishReady, QuietStep DEF PumpGarbage, Throw, world, serverVars
<1>8. CASE PumpEof
  BY <1>8, FinishReady, QuietStep DEF PumpEof, Throw, world, serverVars
<1>9. CASE SendExit
  <2>1. UNCHANGED <<docs, sent, srvDocs, alive>> /\ QueryReady'
    BY <1>9 DEF SendExit, NoCall, QueryReady, world, serverVars
  <2>2. CASE Emit(Notice("exit"))
    <3>1. Notice("exit") \in Notices /\ Notice("exit").kind # "query"
      BY NoticeType DEF Notice, Request
    <3> QED
      BY <2>1, <2>2, <3>1, OtherStep
  <2>3. CASE WriteThrows
    BY <2>1, <2>3, DeadStep DEF WriteThrows
  <2> QED
    BY <1>9, <2>2, <2>3 DEF SendExit
<1>10. CASE Wait
  BY <1>10, QuietStep DEF Wait, QueryReady, world, serverVars
<1> QED
  BY <1>1, <1>2, <1>3, <1>4, <1>5, <1>6, <1>7, <1>8, <1>9, <1>10 DEF Progress

\* A server step other than reading a document note takes at most the head of
\* the queue, and that head is about no document.
LEMMA OtherRead ==
    ASSUME SessionInv, NEW kinds, Reads(kinds), kinds \cap DocKinds = {},
           UNCHANGED <<sent, srvDocs>>
    PROVE  Mirrored' /\ WireLegal'
<1>1. \A u \in Uris : ~About(Head(toServer), u)
  BY DEF Reads, Input, About
<1> QED
  BY <1>1, TailStep DEF SessionInv, TypeOK, Reads

LEMMA ServerMirror ==
    ASSUME SessionInv, SrvRead \/ SrvAnswer \/ SrvUnprompted \/ SrvCrash \/ EditDisk
    PROVE  (QueryReady /\ Mirrored /\ WireLegal)'
<1>1. QueryReady'
  BY DEF SessionInv, QueryReady, SrvRead, SrvReadDoc, SrvReadRequest, SrvReadInitialized,
         SrvReadReply, SrvReadExit, SrvAnswer, SrvUnprompted, SrvCrash, EditDisk, clientVars
<1>2. CASE SrvReadDoc
  <2>1. Input \in DocNotes
    BY <1>2, InputType
    DEF SrvReadDoc, SessionInv, TypeOK, Inputs, DocKinds, Notices, Requests, Queries,
        RequestOps, QueryOps
  <2>2. \A u \in Uris : srvDocs'[u] = IF About(Head(toServer), u)
                                      THEN Head(toServer).doc ELSE srvDocs[u]
    BY <1>2, <2>1
    DEF SrvReadDoc, SessionInv, TypeOK, ServerTypeOK, About, Input, DocNotes
  <2> QED
    BY <1>1, <1>2, <2>2, TailStep DEF SrvReadDoc, Reads, SessionInv, TypeOK, clientVars
<1>3. CASE SrvReadRequest
  BY <1>1, <1>3, OtherRead DEF SrvReadRequest, clientVars, RequestOps, QueryOps, DocKinds
<1>4. CASE SrvReadInitialized
  BY <1>1, <1>4, OtherRead DEF SrvReadInitialized, clientVars, DocKinds
<1>5. CASE SrvReadReply
  BY <1>1, <1>5, OtherRead DEF SrvReadReply, clientVars, DocKinds
<1>6. CASE SrvReadExit \/ SrvCrash
  BY <1>1, <1>6, DeadStep DEF SrvReadExit, SrvCrash
<1>7. CASE SrvAnswer \/ SrvUnprompted \/ EditDisk
  BY <1>1, <1>7, QuietStep
  DEF SrvAnswer, SrvUnprompted, EditDisk, SessionInv, clientVars, serverVars
<1> QED
  BY <1>2, <1>3, <1>4, <1>5, <1>6, <1>7 DEF SrvRead

LEMMA StutterMirror ==
    ASSUME SessionInv, UNCHANGED vars PROVE (QueryReady /\ Encoded /\ Mirrored /\ WireLegal)'
BY QuietStep DEF SessionInv, QueryReady, Encoded, vars, world, clientVars, serverVars

\* Types, the mirrored documents, the opened queries and a legal wire, together,
\* hold in every reachable state.
THEOREM SessionInvariant == Spec => []SessionInv
<1>1. Init => SessionInv
  BY InitType, InitMirror DEF SessionInv
<1>2. SessionInv /\ [Next]_vars => SessionInv'
  BY InvokeType, ProgressType, ServerType, StutterType,
     InvokeMirror, ProgressMirror, ServerMirror, StutterMirror, EncodedStep
  DEF Next, Over, SessionInv
<1> QED
  BY <1>1, <1>2, PTL DEF Spec

\* Once the server has read what is under way to it, it has the client's table,
\* except for documents whose text in the table cannot be encoded, of which it
\* has an earlier one that could.
THEOREM MirrorHolds == Spec => []DocMirror
BY SessionInvariant, PTL DEF SessionInv, DocMirror

\* No message is ever under way that the server would have to refuse when it
\* reads it.
THEOREM WireIsLegal == Spec => []WireLegal
BY SessionInvariant, PTL DEF SessionInv

-----------------------------------------------------------------------------
(* A pipe after a write and after a read.                                  *)

LEMMA AppendAt ==
    ASSUME NEW S, NEW s \in Seq(S), NEW m \in S
    PROVE  /\ Append(s, m) \in Seq(S) /\ Len(Append(s, m)) = Len(s) + 1
           /\ DOMAIN Append(s, m) = 1 .. Len(s) + 1 /\ DOMAIN s = 1 .. Len(s)
           /\ Append(s, m)[Len(s) + 1] = m
           /\ \A i \in 1 .. Len(s) : Append(s, m)[i] = s[i]
OBVIOUS

LEMMA TailAt ==
    ASSUME NEW S, NEW s \in Seq(S), s # <<>>
    PROVE  /\ Tail(s) \in Seq(S) /\ Len(Tail(s)) = Len(s) - 1
           /\ DOMAIN Tail(s) = 1 .. Len(s) - 1 /\ DOMAIN s = 1 .. Len(s)
           /\ Len(s) \in Nat \ {0} /\ Head(s) = s[1]
           /\ \A i \in 1 .. Len(s) - 1 : Tail(s)[i] = s[i + 1]
OBVIOUS

LEMMA AppendRange ==
    ASSUME NEW S, NEW s \in Seq(S), NEW m \in S
    PROVE  Range(Append(s, m)) = Range(s) \cup {m}
BY AppendAt DEF Range

LEMMA TailRange ==
    ASSUME NEW S, NEW s \in Seq(S), s # <<>>
    PROVE  Range(s) = Range(Tail(s)) \cup {Head(s)}
<1>1. ASSUME NEW m \in Range(Tail(s)) PROVE m \in Range(s)
  <2>1. PICK i \in 1 .. Len(s) - 1 : m = Tail(s)[i]
    BY TailAt DEF Range
  <2>2. i + 1 \in DOMAIN s /\ m = s[i + 1]
    BY <2>1, TailAt
  <2> QED
    BY <2>2 DEF Range
<1>2. 1 \in DOMAIN s /\ Head(s) = s[1]
  BY TailAt
<1>3. ASSUME NEW m \in Range(s), m # Head(s) PROVE m \in Range(Tail(s))
  <2>1. PICK i \in 1 .. Len(s) : m = s[i]
    BY TailAt DEF Range
  <2>2. i - 1 \in DOMAIN Tail(s) /\ i - 1 \in 1 .. Len(s) - 1
    BY <1>2, <1>3, <2>1, TailAt
  <2>3. Tail(s)[i - 1] = s[i - 1 + 1]
    BY <2>2, TailAt
  <2>4. i - 1 + 1 = i
    BY <2>1
  <2>5. Tail(s)[i - 1] = m
    BY <2>1, <2>3, <2>4
  <2> QED
    BY <2>2, <2>5 DEF Range
<1> QED
  BY <1>1, <1>2, <1>3 DEF Range

LEMMA RangeType ==
    ASSUME TypeOK
    PROVE  Range(toServer) \subseteq Inputs /\ Range(toClient) \subseteq Answers \cup Sayings
BY DEF TypeOK, PipeTypeOK, Range, Inputs

-----------------------------------------------------------------------------
(* Whose answer it is. Ids are given out once, so the only request and the *)
(* only answer that carry the id of the call in progress are its own; and  *)
(* no document note follows the request, because the client writes nothing *)
(* but replies while it waits, so the server answers from the table.       *)

\* No id is used before the dispatcher gives it out.
FreshIds ==
    /\ \A m \in Range(toServer) : m.kind \in RequestOps => m.id < nextId
    /\ \A req \in srvPending : req.id < nextId
    /\ \A m \in Range(toClient) : m.kind = "answer" => m.id < nextId
    /\ \A r \in responses : r.id < nextId

NoNotesAfter(i) == \A j \in i + 1 .. Len(toServer) : toServer[j].kind \notin DocKinds

OwnRequest == call.step = "wait" =>
    /\ call.op = "query" => sent[call.uri] # Closed
    /\ \A i \in DOMAIN toServer :
         toServer[i].kind \in RequestOps /\ toServer[i].id = call.id =>
             toServer[i].kind = call.op /\ toServer[i].uri = call.uri /\ NoNotesAfter(i)
    /\ \A req \in srvPending : req.id = call.id =>
             req.kind = call.op /\ req.uri = call.uri /\ NoNotesAfter(0)

AnswersCall(r) ==
    /\ r.op = call.op /\ r.uri = call.uri
    /\ r.text = IF call.op = "query" THEN sent[call.uri].text ELSE NoText

OwnAnswer == call.step = "wait" =>
    /\ \A m \in Range(toClient) : m.kind = "answer" /\ m.id = call.id => AnswersCall(m)
    /\ \A r \in responses : r.id = call.id => AnswersCall(r)

ExchangeInv == SessionInv /\ FreshIds /\ OwnRequest /\ OwnAnswer

\* Only what is new in a step has to be looked at.
LEMMA FreshStep ==
    ASSUME TypeOK, FreshIds, nextId' \in Nat, nextId' >= nextId,
           \A m \in Range(toServer)' : m \in Range(toServer) \/ m.kind \notin RequestOps
                                                             \/ m.id < nextId',
           \A req \in srvPending' : req \in srvPending \/ req.id < nextId',
           \A m \in Range(toClient)' : m \in Range(toClient) \/ m.kind # "answer"
                                                             \/ m.id < nextId',
           \A r \in responses' : r \in responses \/ r.id < nextId'
    PROVE  FreshIds'
<1>1. /\ \A m \in Range(toServer) : m.kind \in RequestOps => m.id \in Nat
      /\ \A m \in Range(toClient) : m.kind = "answer" => m.id \in Nat
      /\ \A req \in srvPending : req.id \in Nat
      /\ \A r \in responses : r.id \in Nat
      /\ nextId \in Nat
  BY RangeType
  DEF TypeOK, StoreTypeOK, ServerTypeOK, Inputs, Requests, Queries, DocNotes, Notices,
      Answers, Sayings
<1> QED
  BY <1>1 DEF FreshIds

\* A call that is not waiting promises nothing yet.
LEMMA NotWaiting == ASSUME call'.step # "wait" PROVE OwnRequest' /\ OwnAnswer'
BY DEF OwnRequest, OwnAnswer

LEMMA FinishNotWaiting ==
    ASSUME TypeOK, NEW outcome, NEW op, NEW u, NEW text, Finish(outcome, op, u, text)
    PROVE  call'.step # "wait"
BY DEF Finish, NoCall, TypeOK, CallTypeOK

LEMMA InitExchange == Init => FreshIds /\ OwnRequest /\ OwnAnswer
BY DEF Init, FreshIds, OwnRequest, OwnAnswer, NoCall, Range

\* What the client writes becomes the last message under way.
LEMMA EmitRange ==
    ASSUME TypeOK, NEW m \in Inputs, Emit(m)
    PROVE  Range(toServer)' = Range(toServer) \cup {m}
BY AppendRange DEF Emit, TypeOK, PipeTypeOK, Inputs

\* A message of the client's that is no request.
LEMMA EmitOther ==
    ASSUME TypeOK, FreshIds, NEW m \in DocNotes \cup Notices, Emit(m),
           nextId' = nextId, UNCHANGED <<srvPending, responses>>,
           Range(toClient)' \subseteq Range(toClient)
    PROVE  FreshIds'
<1>1. m \in Inputs /\ m.kind \notin RequestOps
  BY DEF Inputs, DocNotes, Notices, DocKinds, RequestOps, QueryOps
<1>2. nextId \in Nat
  BY DEF TypeOK, StoreTypeOK
<1> QED
  BY <1>1, <1>2, EmitRange, FreshStep

LEMMA FreshQuiet ==
    ASSUME TypeOK, FreshIds, nextId' \in {nextId, nextId + 1},
           Range(toServer)' \subseteq Range(toServer), srvPending' \subseteq srvPending,
           Range(toClient)' \subseteq Range(toClient), responses' \subseteq responses
    PROVE  FreshIds'
<1>1. nextId \in Nat /\ nextId' \in Nat /\ nextId' >= nextId
  BY DEF TypeOK, StoreTypeOK
<1> QED
  BY <1>1, FreshStep

LEMMA InvokeExchange ==
    ASSUME ExchangeInv, Invoke PROVE FreshIds' /\ OwnRequest' /\ OwnAnswer'
<1> USE DEF ExchangeInv, SessionInv
<1>1. call'.step # "wait"
  <2>1. Idle
    BY DEF Invoke, Initialize, Initialized, Lookup, DocumentQuery, SyncMemory, SyncDisk,
           CloseFile, ShutdownAndExit, NextCall
  <2>2. call' = call \/ \E op, u : Begin(op, u, "ensure") \/ Begin(op, u, "request")
    BY DEF Invoke, Initialize, Initialized, Lookup, DocumentQuery, SyncMemory, SyncDisk,
           SyncText, CloseFile, ShutdownAndExit
  <2> QED
    BY <2>1, <2>2 DEF Idle, Begin
<1>2. /\ UNCHANGED <<nextId, srvPending, responses>>
      /\ Range(toClient)' \subseteq Range(toClient)
  BY DEF Invoke, Initialize, Initialized, Lookup, DocumentQuery, SyncMemory, SyncDisk,
         SyncText, CloseFile, ShutdownAndExit, world, serverVars
<1>3. ASSUME UNCHANGED toServer PROVE FreshIds'
  BY <1>2, <1>3, FreshQuiet
<1>4. ASSUME NEW m \in DocNotes \cup Notices, Emit(m) PROVE FreshIds'
  BY <1>2, <1>4, EmitOther
<1>5. ASSUME NEW u \in Uris, NEW t \in Texts, NextCall, SyncText(u, t) PROVE FreshIds'
  <2>1. CASE UNCHANGED toServer
    BY <1>3, <2>1
  <2>2. CASE OpenDoc(u, t)
    <3>1. DocNote("didOpen", u, [text |-> t, version |-> 1]) \in DocNotes
      BY DocNoteType DEF DocKinds, Doc, OpenDocument
    <3> QED
      BY <1>4, <2>2, <3>1 DEF OpenDoc
  <2>3. CASE /\ docs[u] # Closed
             /\ docs' = [docs EXCEPT ![u] = [text |-> t, version |-> @.version + 1]]
             /\ Emit(DocNote("didChange", u, docs'[u]))
    <3>1. docs'[u] \in Doc
      BY <2>3 DEF TypeOK, StoreTypeOK, Doc, OpenDocument
    <3>2. DocNote("didChange", u, docs'[u]) \in DocNotes
      BY <3>1, DocNoteType DEF DocKinds
    <3> QED
      BY <1>4, <2>3, <3>2
  <2> QED
    BY <1>5, <2>1, <2>2, <2>3 DEF SyncText, WriteThrows
<1>6. ASSUME NEW u \in Uris, CloseFile(u) PROVE FreshIds'
  <2>1. DocNote("didClose", u, Closed) \in DocNotes
    BY ClosedType, DocNoteType DEF DocKinds
  <2> QED
    BY <1>3, <1>4, <1>6, <2>1 DEF CloseFile, WriteThrows
<1>7. ASSUME Initialized PROVE FreshIds'
  BY <1>3, <1>4, <1>7, NoticeType DEF Initialized, WriteThrows
<1>8. ASSUME NEW u \in Uris, SyncMemory(u) \/ SyncDisk(u) PROVE FreshIds'
  <2>1. disk[u] # NoText => disk[u] \in Texts
    BY DEF TypeOK, StoreTypeOK
  <2> QED
    BY <1>5, <1>8, <2>1 DEF SyncMemory, SyncDisk
<1>9. ASSUME Initialize \/ Lookup \/ ShutdownAndExit \/ \E u \in Uris : DocumentQuery(u)
      PROVE  FreshIds'
  BY <1>3, <1>9 DEF Initialize, Lookup, DocumentQuery, ShutdownAndExit
<1> QED
  BY <1>1, <1>6, <1>7, <1>8, <1>9, NotWaiting DEF Invoke

\* The request is the last message under way, and nothing carries its id yet.
LEMMA AskStep ==
    ASSUME ExchangeInv, call.step = "request",
           Emit(Request(call.op, nextId, call.uri)), nextId' = nextId + 1,
           call' = [call EXCEPT !.step = "wait", !.id = nextId],
           UNCHANGED <<sent, toClient, responses, srvPending>>
    PROVE  FreshIds' /\ OwnRequest' /\ OwnAnswer'
<1> USE DEF ExchangeInv, SessionInv
<1> DEFINE m == Request(call.op, nextId, call.uri)
<1>1. /\ m \in Requests /\ m.id = nextId /\ m.kind = call.op /\ m.uri = call.uri
      /\ m \in Inputs
  BY RequestType DEF TypeOK, CallTypeOK, StoreTypeOK, Request, Inputs
<1>2. Emit(m) /\ nextId \in Nat
  BY DEF TypeOK, StoreTypeOK
<1>3. /\ call'.step = "wait" /\ call'.id = nextId
      /\ call'.op = call.op /\ call'.uri = call.uri
  BY DEF TypeOK, CallTypeOK
<1> HIDE DEF m
<1>4. Range(toServer)' = Range(toServer) \cup {m}
  BY <1>1, <1>2, EmitRange
<1>5. FreshIds'
  BY <1>1, <1>2, <1>4, FreshStep
<1>6. OwnAnswer'
  BY <1>2, <1>3 DEF FreshIds, OwnAnswer
<1>7. OwnRequest'
  <2>n. PICK n \in Nat : n = Len(toServer)
    BY DEF TypeOK, PipeTypeOK
  <2>1. /\ DOMAIN toServer' = 1 .. n + 1 /\ DOMAIN toServer = 1 .. n
        /\ toServer'[n + 1] = m /\ Len(toServer') = n + 1
        /\ \A i \in 1 .. n : toServer'[i] = toServer[i]
    BY <2>n, <1>1, <1>2, AppendAt DEF Emit, TypeOK, PipeTypeOK, Inputs
  <2>2. ASSUME NEW i \in DOMAIN toServer', toServer'[i].kind \in RequestOps,
               toServer'[i].id = nextId
        PROVE  i = n + 1
    <3> SUFFICES ASSUME i \in 1 .. n PROVE FALSE
      BY <2>1
    <3>1. toServer[i] \in Range(toServer) /\ toServer[i] = toServer'[i]
      BY <2>1 DEF Range
    <3> QED
      BY <1>2, <2>2, <3>1 DEF FreshIds
  <2>3. NoNotesAfter(n + 1)'
    BY <2>1 DEF NoNotesAfter
  <2>4. call.op = "query" => sent[call.uri] # Closed
    BY SentOpen DEF QueryReady, TypeOK, CallTypeOK
  <2>5. \A req \in srvPending : req.id # nextId
    BY <1>2 DEF FreshIds
  <2>6. ASSUME NEW i \in DOMAIN toServer', toServer'[i].kind \in RequestOps,
               toServer'[i].id = call'.id
        PROVE  toServer'[i].kind = call'.op /\ toServer'[i].uri = call'.uri /\ NoNotesAfter(i)'
    <3>1. i = n + 1
      BY <1>3, <2>2, <2>6
    <3> QED
      BY <1>1, <1>3, <2>1, <2>3, <3>1
  <2> QED
    BY <1>3, <2>4, <2>5, <2>6 DEF OwnRequest
<1> QED
  BY <1>5, <1>6, <1>7

\* While the call goes on and nothing is encoded, an answer that comes to light has
\* to be the one to the call's request, or somebody else's.
LEMMA OwnAnswerStep ==
    ASSUME OwnAnswer, UNCHANGED <<call, sent>>,
           \A m \in Range(toClient)' :
             m \in Range(toClient) \/
             (call.step = "wait" /\ m.kind = "answer" /\ m.id = call.id => AnswersCall(m)),
           \A r \in responses' :
             r \in responses \/ (call.step = "wait" /\ r.id = call.id => AnswersCall(r))
    PROVE  OwnAnswer'
<1>1. \A r : AnswersCall(r)' <=> AnswersCall(r)
  BY DEF AnswersCall
<1> QED
  BY <1>1 DEF OwnAnswer

LEMMA OwnRequestQuiet ==
    ASSUME OwnRequest, UNCHANGED <<call, sent, toServer>>, srvPending' \subseteq srvPending
    PROVE  OwnRequest'
BY DEF OwnRequest, NoNotesAfter

\* The client writes a message that is neither a request nor a document note.
LEMMA OwnRequestWrite ==
    ASSUME TypeOK, OwnRequest, NEW m \in Notices, Emit(m), UNCHANGED <<call, sent, srvPending>>
    PROVE  OwnRequest'
<1>n. PICK n \in Nat : n = Len(toServer)
  BY DEF TypeOK, PipeTypeOK
<1>1. m \in Inputs /\ m.kind \notin RequestOps /\ m.kind \notin DocKinds
  BY DEF Notices, Inputs, RequestOps, QueryOps, DocKinds
<1>2. /\ DOMAIN toServer' = 1 .. n + 1 /\ DOMAIN toServer = 1 .. n
      /\ toServer'[n + 1] = m /\ Len(toServer') = n + 1
      /\ \A i \in 1 .. n : toServer'[i] = toServer[i]
  BY <1>n, <1>1, AppendAt DEF Emit, TypeOK, PipeTypeOK, Inputs
<1>3. ASSUME NEW i \in 0 .. n, NoNotesAfter(i) PROVE NoNotesAfter(i)'
  BY <1>n, <1>1, <1>2, <1>3 DEF NoNotesAfter
<1>4. ASSUME NEW i \in DOMAIN toServer', toServer'[i].kind \in RequestOps
      PROVE  i \in DOMAIN toServer /\ toServer'[i] = toServer[i] /\ i \in 0 .. n
  BY <1>1, <1>2, <1>4
<1> QED
  BY <1>3, <1>4 DEF OwnRequest

\* The server reads the head; a request it reads is pending from then on.
LEMMA OwnRequestRead ==
    ASSUME TypeOK, OwnRequest, toServer # <<>>, toServer' = Tail(toServer),
           UNCHANGED <<call, sent>>,
           \A req \in srvPending' : req \in srvPending \/
                                    (req = Head(toServer) /\ req.kind \in RequestOps)
    PROVE  OwnRequest'
<1>n. PICK n \in Nat : n = Len(toServer)
  BY DEF TypeOK, PipeTypeOK
<1>1. /\ DOMAIN toServer' = 1 .. n - 1 /\ DOMAIN toServer = 1 .. n
      /\ Len(toServer') = n - 1 /\ n > 0 /\ Head(toServer) = toServer[1]
      /\ \A i \in 1 .. n - 1 : toServer'[i] = toServer[i + 1]
  BY <1>n, TailAt DEF TypeOK, PipeTypeOK
<1>2. ASSUME NEW i \in 0 .. n - 1, NoNotesAfter(i + 1) PROVE NoNotesAfter(i)'
  <2> SUFFICES ASSUME NEW j \in i + 1 .. n - 1 PROVE toServer'[j].kind \notin DocKinds
    BY <1>1 DEF NoNotesAfter
  <2>1. j + 1 \in i + 1 + 1 .. n /\ toServer'[j] = toServer[j + 1]
    BY <1>1
  <2> QED
    BY <1>n, <1>2, <2>1 DEF NoNotesAfter
<1>3. ASSUME NEW i \in DOMAIN toServer'
      PROVE  i + 1 \in DOMAIN toServer /\ toServer'[i] = toServer[i + 1] /\ i \in 0 .. n - 1
  BY <1>1
<1>4. NoNotesAfter(0) => NoNotesAfter(1)
  BY <1>n DEF NoNotesAfter
<1> SUFFICES ASSUME call.step = "wait" PROVE OwnRequest'
  BY DEF OwnRequest
<1>5. ASSUME NEW i \in DOMAIN toServer', toServer'[i].kind \in RequestOps,
             toServer'[i].id = call.id
      PROVE  toServer'[i].kind = call.op /\ toServer'[i].uri = call.uri /\ NoNotesAfter(i)'
  <2>1. /\ toServer[i + 1].kind = call.op /\ toServer[i + 1].uri = call.uri
        /\ NoNotesAfter(i + 1)
    BY <1>3, <1>5 DEF OwnRequest
  <2> QED
    BY <1>2, <1>3, <2>1
<1>6. ASSUME NEW req \in srvPending', req.id = call.id
      PROVE  req.kind = call.op /\ req.uri = call.uri /\ NoNotesAfter(0)'
  <2>1. CASE req \in srvPending
    BY <1>1, <1>2, <1>4, <1>6, <2>1 DEF OwnRequest
  <2>2. CASE req = toServer[1] /\ req.kind \in RequestOps
    BY <1>1, <1>2, <1>6, <2>2 DEF OwnRequest
  <2> QED
    BY <1>1, <2>1, <2>2
<1> QED
  BY <1>5, <1>6 DEF OwnRequest

\* The head of the pipe to the client goes; the rest of the client stays.
LEMMA PumpStep ==
    ASSUME ExchangeInv, Pumping, toClient' = Tail(toClient), nextId' = nextId,
           UNCHANGED srvPending,
           \A r \in responses' : r \in responses \/
                                 (r = Head(toClient) /\ r.kind = "answer")
    PROVE  /\ UNCHANGED <<call, sent>> => OwnAnswer'
           /\ UNCHANGED toServer => FreshIds'
           /\ Range(toClient)' \subseteq Range(toClient)
<1> USE DEF ExchangeInv, SessionInv
<1>1. Range(toClient)' \subseteq Range(toClient) /\ Head(toClient) \in Range(toClient)
  BY TailRange DEF Pumping, TypeOK, PipeTypeOK
<1>2. nextId \in Nat
  BY DEF TypeOK, StoreTypeOK
<1>3. UNCHANGED toServer => FreshIds'
  <2> SUFFICES ASSUME UNCHANGED toServer PROVE FreshIds'
    OBVIOUS
  <2>1. \A r \in responses' : r \in responses \/ r.id < nextId'
    BY <1>1 DEF FreshIds
  <2> QED
    BY <1>1, <1>2, <2>1, FreshStep
<1>4. ASSUME UNCHANGED <<call, sent>> PROVE OwnAnswer'
  <2>1. ASSUME NEW r \in responses'
        PROVE  r \in responses \/ (call.step = "wait" /\ r.id = call.id => AnswersCall(r))
    BY <1>1, <2>1 DEF OwnAnswer
  <2> QED
    BY <1>1, <1>4, <2>1, OwnAnswerStep
<1> QED
  BY <1>1, <1>3, <1>4

LEMMA ProgressExchange ==
    ASSUME ExchangeInv, Progress PROVE FreshIds' /\ OwnRequest' /\ OwnAnswer'
<1> USE DEF ExchangeInv, SessionInv
<1>q. ASSUME nextId' \in {nextId, nextId + 1}, UNCHANGED <<toServer, toClient, srvPending>>,
             responses' \subseteq responses
      PROVE  FreshIds'
  BY <1>q, FreshQuiet
<1>t. Throw => call'.step # "wait"
  BY FinishNotWaiting DEF Throw
<1>1. CASE EnsureOpen
  <2>1. call'.step # "wait" /\ UNCHANGED <<nextId, toClient, srvPending, responses>>
    <3>1. call'.step = "request" \/ Throw
      BY <1>1 DEF EnsureOpen, TypeOK, CallTypeOK
    <3> QED
      BY <1>1, <1>t, <3>1 DEF EnsureOpen, world, serverVars
  <2>2. CASE disk[call.uri] \in Encodable /\ OpenDoc(call.uri, disk[call.uri])
    <3>1. disk[call.uri] \in Texts /\ call.uri \in Uris
      BY <1>1, <2>2 DEF EnsureOpen, TypeOK, CallTypeOK, Encodable
    <3>2. DocNote("didOpen", call.uri, [text |-> disk[call.uri], version |-> 1]) \in DocNotes
      BY <3>1, DocNoteType DEF DocKinds, Doc, OpenDocument
    <3>3. FreshIds'
      BY <2>1, <2>2, <3>2, EmitOther DEF OpenDoc
    <3> QED
      BY <2>1, <3>3, NotWaiting
  <2>3. CASE UNCHANGED toServer
    BY <1>q, <2>1, <2>3, NotWaiting
  <2> QED
    BY <1>1, <2>2, <2>3 DEF EnsureOpen
<1>2. CASE SendRequest
  <2>1. nextId' = nextId + 1 /\ UNCHANGED <<sent, toClient, responses, srvPending>>
    BY <1>2 DEF SendRequest, world, serverVars
  <2>2. CASE /\ Emit(Request(call.op, nextId, call.uri))
             /\ call' = [call EXCEPT !.step = "wait", !.id = nextId]
    BY <1>2, <2>1, <2>2, AskStep DEF SendRequest
  <2>3. CASE WriteThrows /\ Throw
    BY <1>q, <1>t, <2>1, <2>3, NotWaiting DEF WriteThrows
  <2> QED
    BY <1>2, <2>2, <2>3 DEF SendRequest
<1>3. CASE TakeResponse
  <2>1. PICK r \in Mine : Finish(r.status, r.op, r.uri, r.text) /\ responses' = responses \ {r}
    BY <1>3 DEF TakeResponse
  <2>2. call'.step # "wait"
    BY <2>1, FinishNotWaiting
  <2> QED
    BY <1>3, <1>q, <2>1, <2>2, NotWaiting DEF TakeResponse, world, serverVars
<1>4. CASE PumpAnswer
  <2>1. UNCHANGED <<call, sent, nextId, toServer, srvPending>> /\ toClient' = Tail(toClient)
    BY <1>4 DEF PumpAnswer, world, serverVars
  <2> QED
    BY <1>4, <2>1, PumpStep, OwnRequestQuiet DEF PumpAnswer
<1>5. CASE PumpAsk
  <2>1. /\ UNCHANGED <<sent, nextId, responses, srvPending>>
        /\ toClient' = Tail(toClient) /\ Pumping
    BY <1>5 DEF PumpAsk, world, serverVars
  <2>2. CASE Emit(Reply(Head(toClient).id)) /\ UNCHANGED call
    <3> DEFINE m == Reply(Head(toClient).id)
    <3>1. m \in Notices
      BY <1>5, PumpType, NoticeType DEF PumpAsk, Pumping, TypeOK, Answers, Sayings
    <3>2. Emit(m)
      BY <2>2
    <3> HIDE DEF m
    <3>3. OwnAnswer' /\ Range(toClient)' \subseteq Range(toClient)
      BY <2>1, <2>2, PumpStep
    <3>4. FreshIds'
      BY <2>1, <3>1, <3>2, <3>3, EmitOther
    <3> QED
      BY <2>1, <2>2, <3>1, <3>2, <3>3, <3>4, OwnRequestWrite
  <2>3. CASE WriteThrows /\ Throw
    BY <1>t, <2>1, <2>3, PumpStep, NotWaiting DEF WriteThrows
  <2> QED
    BY <1>5, <2>2, <2>3 DEF PumpAsk
<1>6. CASE PumpNotification
  <2>1. /\ UNCHANGED <<call, sent, nextId, responses, toServer, srvPending>>
        /\ toClient' = Tail(toClient) /\ Pumping
    BY <1>6 DEF PumpNotification, world, serverVars
  <2> QED
    BY <2>1, PumpStep, OwnRequestQuiet
<1>7. CASE PumpGarbage
  <2>1. /\ UNCHANGED <<nextId, responses, toServer, srvPending>>
        /\ toClient' = Tail(toClient) /\ Pumping /\ Throw
    BY <1>7 DEF PumpGarbage, world, serverVars
  <2> QED
    BY <1>t, <2>1, PumpStep, NotWaiting
<1>8. CASE PumpEof
  BY <1>8, <1>t, <1>q, NotWaiting DEF PumpEof, world, serverVars
<1>9. CASE SendExit
  <2>1. call'.step # "wait" /\ UNCHANGED <<nextId, responses, toClient, srvPending>>
    BY <1>9 DEF SendExit, NoCall, world, serverVars
  <2>2. CASE Emit(Notice("exit"))
    <3>1. FreshIds'
      BY <2>1, <2>2, NoticeType, EmitOther
    <3> QED
      BY <2>1, <3>1, NotWaiting
  <2>3. CASE WriteThrows
    BY <1>q, <2>1, <2>3, NotWaiting DEF WriteThrows
  <2> QED
    BY <1>9, <2>2, <2>3 DEF SendExit
<1>10. CASE Wait
  <2>1. call'.step # "wait"
    BY <1>10 DEF Wait, Idle
  <2> QED
    BY <1>10, <1>q, <2>1, NotWaiting DEF Wait, world, serverVars
<1> QED
  BY <1>1, <1>2, <1>3, <1>4, <1>5, <1>6, <1>7, <1>8, <1>9, <1>10 DEF Progress

\* The server answers a request it has read with the text it holds.
LEMMA AnswerTyped ==
    ASSUME TypeOK, NEW req \in srvPending, NEW status \in {"ok", "error", "threw"}
    PROVE  Answer(req, status, TextFor(req)) \in Answers
<1>1. req \in Requests
  BY DEF TypeOK, ServerTypeOK
<1>2. TextFor(req) \in Texts \cup {NoText}
  <2>1. CASE req.kind = "query"
    <3>1. srvDocs[req.uri] \in Doc
      BY <1>1, <2>1 DEF TypeOK, ServerTypeOK, Requests, Queries, RequestOps, QueryOps
    <3> QED
      BY <2>1, <3>1 DEF TextFor, Doc, OpenDocument, Closed
  <2> QED
    BY <2>1 DEF TextFor
<1> QED
  BY <1>1, <1>2 DEF Answer, Answers, Requests, Queries, RequestOps, QueryOps

\* The server reads in order and answers with the text it holds by then: the
\* one encoded last, since Mirrored holds and no note is under way any more.
LEMMA ServerExchange ==
    ASSUME ExchangeInv, SrvRead \/ SrvAnswer \/ SrvUnprompted \/ SrvCrash \/ EditDisk
    PROVE  FreshIds' /\ OwnRequest' /\ OwnAnswer'
<1> USE DEF ExchangeInv, SessionInv
<1>c. UNCHANGED <<call, sent, nextId, responses>>
  BY DEF SrvRead, SrvReadDoc, SrvReadRequest, SrvReadInitialized, SrvReadReply, SrvReadExit,
         SrvAnswer, SrvUnprompted, SrvCrash, EditDisk, clientVars
<1>1. CASE SrvRead
  <2>1. /\ toServer # <<>> /\ toServer' = Tail(toServer) /\ UNCHANGED toClient
        /\ \A req \in srvPending' : req \in srvPending \/
                                    (req = Head(toServer) /\ req.kind \in RequestOps)
    BY <1>1 DEF SrvRead, SrvReadDoc, SrvReadRequest, SrvReadInitialized, SrvReadReply,
                SrvReadExit, Reads, Input, serverVars
  <2>2. Range(toServer)' \subseteq Range(toServer) /\ Head(toServer) \in Range(toServer)
    BY <2>1, TailRange DEF TypeOK, PipeTypeOK
  <2>3. \A req \in srvPending' : req \in srvPending \/ req.id < nextId
    BY <2>1, <2>2 DEF FreshIds
  <2>4. FreshIds'
    BY <1>c, <2>1, <2>2, <2>3, FreshStep DEF TypeOK, StoreTypeOK
  <2> QED
    BY <1>c, <2>1, <2>4, OwnRequestRead, OwnAnswerStep
<1>2. CASE SrvAnswer
  <2>1. PICK req \in srvPending, status \in {"ok", "error", "threw"} :
           /\ SrvSay(Answer(req, status, TextFor(req)))
           /\ srvPending' = srvPending \ {req}
    BY <1>2 DEF SrvAnswer
  <2>2. UNCHANGED toServer
    BY <1>2 DEF SrvAnswer
  <2> DEFINE m == Answer(req, status, TextFor(req))
  <2>4. m.id = req.id /\ m.op = req.kind /\ m.uri = req.uri /\ m.text = TextFor(req)
    BY DEF Answer
  <2>6. m \in Answers
    BY AnswerTyped
  <2>7. alive /\ toClient' = Append(toClient, m)
    BY <2>1 DEF SrvSay
  <2>8. ASSUME call.step = "wait", m.id = call.id PROVE AnswersCall(m)
    <3>1. req.kind = call.op /\ req.uri = call.uri /\ NoNotesAfter(0)
      BY <2>4, <2>8 DEF OwnRequest
    <3>2. CASE call.op = "query"
      <4>1. call.uri \in Uris
        BY <3>2 DEF TypeOK, CallTypeOK
      <4>2. Untouched(Len(toServer) + 1, call.uri)
        BY <3>1 DEF NoNotesAfter, Untouched, About, TypeOK, PipeTypeOK
      <4>3. srvDocs[call.uri] = sent[call.uri]
        BY <2>7, <4>1, <4>2 DEF Mirrored
      <4> QED
        BY <2>4, <3>1, <3>2, <4>3 DEF AnswersCall, TextFor
    <3>3. CASE call.op # "query"
      BY <2>4, <3>1, <3>3 DEF AnswersCall, TextFor
    <3> QED
      BY <3>2, <3>3
  <2> HIDE DEF m
  <2>9. Range(toClient)' = Range(toClient) \cup {m}
    BY <2>6, <2>7, AppendRange DEF TypeOK, PipeTypeOK
  <2>10. FreshIds'
    <3>1. m.id < nextId
      BY <2>4 DEF FreshIds
    <3> QED
      BY <1>c, <2>1, <2>2, <2>9, <3>1, FreshStep DEF TypeOK, StoreTypeOK
  <2>11. OwnAnswer'
    BY <1>c, <2>8, <2>9, OwnAnswerStep
  <2> QED
    BY <1>c, <2>1, <2>2, <2>10, <2>11, OwnRequestQuiet
<1>3. CASE SrvUnprompted
  <2>1. PICK kind \in {"ask", "notify", "garbage"} : SrvSay(Unprompted(kind, unprompted'))
    BY <1>3 DEF SrvUnprompted
  <2>2. UNCHANGED <<toServer, srvPending>> /\ unprompted' \in Nat
    BY <1>3 DEF SrvUnprompted, TypeOK, ServerTypeOK
  <2> DEFINE m == Unprompted(kind, unprompted')
  <2>3. m \in Sayings /\ m.kind # "answer" /\ toClient' = Append(toClient, m)
    BY <2>1, <2>2 DEF SrvSay, Unprompted, Sayings
  <2> HIDE DEF m
  <2>4. Range(toClient)' = Range(toClient) \cup {m}
    BY <2>3, AppendRange DEF TypeOK, PipeTypeOK
  <2>5. FreshIds'
    BY <1>c, <2>2, <2>3, <2>4, FreshStep DEF TypeOK, StoreTypeOK
  <2>6. OwnAnswer'
    BY <1>c, <2>3, <2>4, OwnAnswerStep
  <2> QED
    BY <1>c, <2>2, <2>5, <2>6, OwnRequestQuiet
<1>4. CASE SrvCrash
  <2>1. UNCHANGED <<toClient, srvPending>> /\ toServer' = <<>>
    BY <1>4 DEF SrvCrash, serverVars
  <2>2. Range(toServer)' = {}
    BY <2>1 DEF Range
  <2>3. FreshIds'
    BY <1>c, <2>1, <2>2, FreshQuiet
  <2>4. OwnAnswer'
    BY <1>c, <2>1, OwnAnswerStep
  <2>5. OwnRequest'
    BY <1>c, <2>1 DEF OwnRequest, NoNotesAfter
  <2> QED
    BY <2>3, <2>4, <2>5
<1>5. CASE EditDisk
  <2>1. UNCHANGED <<toServer, toClient, srvPending>>
    BY <1>5 DEF EditDisk, serverVars
  <2> QED
    BY <1>c, <2>1, FreshQuiet, OwnRequestQuiet, OwnAnswerStep
<1> QED
  BY <1>1, <1>2, <1>3, <1>4, <1>5

LEMMA StutterExchange ==
    ASSUME ExchangeInv, UNCHANGED vars PROVE FreshIds' /\ OwnRequest' /\ OwnAnswer'
BY FreshQuiet, OwnRequestQuiet, OwnAnswerStep
DEF ExchangeInv, SessionInv, vars, world, clientVars, serverVars

\* Ids are fresh, and what carries the id of the call in progress is its own.
THEOREM ExchangeInvariant == Spec => []ExchangeInv
<1>1. Init => ExchangeInv
  BY InitType, InitMirror, InitExchange DEF SessionInv, ExchangeInv
<1>2. ExchangeInv /\ [Next]_vars => ExchangeInv'
  BY InvokeType, ProgressType, ServerType, StutterType,
     InvokeMirror, ProgressMirror, ServerMirror, StutterMirror, EncodedStep,
     InvokeExchange, ProgressExchange, ServerExchange, StutterExchange
  DEF Next, Over, SessionInv, ExchangeInv
<1> QED
  BY <1>1, <1>2, PTL DEF Spec

\* The answer a call ends with.
LEMMA TakenIsCurrent ==
    ASSUME ExchangeInv, TakeResponse
    PROVE  /\ result'.op = call.op /\ result'.uri = call.uri
           /\ result'.text = IF call.op = "query" THEN sent[call.uri].text ELSE NoText
           /\ call.op = "query" => call.uri \in Uris
           /\ result'.outcome \in {"ok", "error", "threw"}
<1>1. PICK r \in Mine : Finish(r.status, r.op, r.uri, r.text)
  BY DEF TakeResponse
<1>2. AnswersCall(r)
  BY DEF TakeResponse, ExchangeInv, OwnAnswer, Mine
<1>4. call.op = "query" => call.uri \in Uris
  BY DEF ExchangeInv, SessionInv, TypeOK, CallTypeOK
<1>3. r.status \in {"ok", "error", "threw"}
  BY DEF ExchangeInv, SessionInv, TypeOK, StoreTypeOK, Mine, Answers
<1> QED
  BY <1>1, <1>2, <1>3, <1>4 DEF AnswersCall, Finish

\* Only TakeResponse ends a wait without an exception.
LEMMA OthersThrow ==
    ASSUME Next, call.step = "wait", call'.step # "wait", ~TakeResponse
    PROVE  Throw
<1>1. call' # call
  OBVIOUS
<1>2. ~Invoke
  BY <1>1 DEF Invoke, Initialize, Initialized, Lookup, DocumentQuery, SyncMemory, SyncDisk,
              CloseFile, ShutdownAndExit, NextCall, Idle
<1>3. ~(SrvRead \/ SrvAnswer \/ SrvUnprompted \/ SrvCrash \/ EditDisk)
  BY <1>1 DEF SrvRead, SrvReadDoc, SrvReadRequest, SrvReadInitialized, SrvReadReply,
              SrvReadExit, SrvAnswer, SrvUnprompted, SrvCrash, EditDisk, clientVars
<1>4. ~Over
  BY <1>1 DEF Over, vars, clientVars
<1>5. Progress
  BY <1>2, <1>3, <1>4 DEF Next
<1> QED
  BY <1>1, <1>5
  DEF Progress, EnsureOpen, SendRequest, PumpAnswer, PumpAsk, PumpNotification,
      PumpGarbage, PumpEof, SendExit, Wait, Idle

\* What may be read of a document: the table's text, or the last one before it
\* that could be encoded.
Readable(u) == IF docs[u].text \in NotUtf8 THEN sent[u].text ELSE docs[u].text

LEMMA ReadableIsSent ==
    ASSUME Encoded, NEW u \in Uris PROVE Readable(u) = sent[u].text
BY DEF Encoded, Readable

\* A request call that returns normally has the answer to its own request, made
\* from the text its caller has open or, if that cannot be encoded, from the last
\* one before it that could, however late other answers come in.
THEOREM AnswersAreCurrent == Spec => AnswerIsCurrent
<1>1. ASSUME ExchangeInv, [Next]_vars
      PROVE  [ call.step = "wait" /\ call'.step # "wait" /\ result'.outcome = "ok" =>
                 /\ result'.op = call.op /\ result'.uri = call.uri
                 /\ call.op = "query" => result'.text = Readable(call.uri) ]_vars
  <2> SUFFICES ASSUME Next, call.step = "wait", call'.step # "wait", result'.outcome = "ok"
               PROVE  /\ result'.op = call.op /\ result'.uri = call.uri
                      /\ call.op = "query" => result'.text = Readable(call.uri)
    BY <1>1
  <2>1. TakeResponse
    BY OthersThrow DEF Throw, Finish
  <2> QED
    BY <1>1, <2>1, TakenIsCurrent, ReadableIsSent DEF ExchangeInv, SessionInv
<1> QED
  BY <1>1, ExchangeInvariant, PTL DEF Spec, AnswerIsCurrent, Readable

-----------------------------------------------------------------------------
(* The session implements DocumentService. The abstract call is under way   *)
(* from the call's beginning until its result is known; the abstract table *)
(* is the text of docs, what is told that of sent. Every step maps to a step of the service or leaves *)
(* what the service shows alone; that a result is one the service may      *)
(* return is AnswersCall, and that there is a text to answer from is        *)
(* QueryReady while a query is sent and OwnRequest while it waits.          *)

Table == [u \in Uris |-> docs[u].text]
Told == [u \in Uris |-> sent[u].text]
Current == IF call.step \in {"idle", "exit"}
           THEN [op |-> "none", uri |-> NoUri]
           ELSE [op |-> call.op, uri |-> call.uri]

LEMMA InitRefines == Init => Service!Init
BY DEF Init, Service!Init, Service!NoCall, Service!NoReply, NoCall, NoResult, Closed

\* What the service does not see.
LEMMA StutterRefines ==
    ASSUME UNCHANGED <<docs, sent, result>>, Current' = Current
    PROVE  UNCHANGED Service!vars
BY DEF Service!vars, Current

\* A call begins.
LEMMA BeginRefines ==
    ASSUME Idle, UNCHANGED <<docs, sent, result>>,
           NEW op \in RequestOps, NEW u, NEW step \in {"ensure", "request"},
           IF op = "query" THEN u \in Uris ELSE u = NoUri,
           Begin(op, u, step)
    PROVE  Service!Next
<1>1. Current = [op |-> "none", uri |-> NoUri] /\ Current' = [op |-> op, uri |-> u]
  BY DEF Current, Idle, Begin
<1>2. Table' = Table /\ Told' = Told
  BY DEF Table, Told
<1>3. Service!Invoke
  BY <1>1, <1>2 DEF Service!Invoke, Service!NoCall, Current, Table, Told, RequestOps, QueryOps
<1> QED
  BY <1>3 DEF Service!Next

\* The table changes between calls, and so does what is told.
LEMMA UpdateRefines ==
    ASSUME TypeOK, Idle, UNCHANGED <<call, result>>, NEW u \in Uris, NEW d \in Doc,
           d.text \notin NotUtf8,
           docs' = [docs EXCEPT ![u] = d], sent' = [sent EXCEPT ![u] = d]
    PROVE  Service!Next
<1>1. d.text \in (Texts \ NotUtf8) \cup {NoText}
  BY DEF Doc, OpenDocument, Closed
<1>2. Current = [op |-> "none", uri |-> NoUri] /\ Current' = Current
  BY DEF Current, Idle
<1>3. Table' = [Table EXCEPT ![u] = d.text] /\ Told' = [Told EXCEPT ![u] = d.text]
  BY DEF Table, Told, TypeOK, StoreTypeOK
<1>4. Service!Set(u, d.text)
  BY <1>3 DEF Service!Set, Table, Told
<1>5. Service!Update
  BY <1>1, <1>2, <1>4 DEF Service!Update, Service!NoCall, Current
<1> QED
  BY <1>5 DEF Service!Next

\* The table changes between calls to a text that cannot be told.
LEMMA UntoldRefines ==
    ASSUME TypeOK, Idle, UNCHANGED <<call, result, sent>>, NEW u \in Uris, NEW t \in NotUtf8,
           docs[u] # Closed,
           docs' = [docs EXCEPT ![u] = [text |-> t, version |-> @.version + 1]]
    PROVE  Service!Next
<1>1. Table[u] # NoText
  BY TextsAssumption DEF Table, TypeOK, StoreTypeOK, Doc, OpenDocument
<1>2. Current = [op |-> "none", uri |-> NoUri] /\ Current' = Current
  BY DEF Current, Idle
<1>3. Table' = [Table EXCEPT ![u] = t] /\ Told' = Told
  <2>1. docs'[u].text = t /\ \A v \in Uris : v # u => docs'[v] = docs[v]
    BY DEF TypeOK, StoreTypeOK
  <2>2. Told' = Told
    BY DEF Told
  <2>3. \A v \in Uris : docs'[v].text = IF v = u THEN t ELSE Table[v]
    BY <2>1 DEF Table
  <2>4. Table' = [Table EXCEPT ![u] = t]
    BY <2>3 DEF Table
  <2> QED
    BY <2>2, <2>4
<1>4. Service!UpdateUntold
  BY <1>1, <1>2, <1>3 DEF Service!UpdateUntold, Service!NoCall, Current, Table, Told
<1> QED
  BY <1>4 DEF Service!Next

\* A call ends with a result the service allows.
LEMMA FinishRefines ==
    ASSUME TypeOK, call.step \notin {"idle", "exit"}, UNCHANGED <<docs, sent>>,
           NEW outcome, NEW text \in Texts \cup {NoText},
           Finish(outcome, call.op, call.uri, text),
           \/ outcome \in {"error", "threw"}
           \/ /\ outcome = "ok"
              /\ IF call.op = "query" THEN docs[call.uri] # Closed /\ text = sent[call.uri].text
                 ELSE text = NoText
    PROVE  Service!Next
<1>1. call.op \in RequestOps /\ (call.op = "query" => call.uri \in Uris)
  BY DEF TypeOK, CallTypeOK
<1>2. Current = [op |-> call.op, uri |-> call.uri]
  BY DEF Current
<1>3. Current' = [op |-> "none", uri |-> NoUri]
  BY DEF Finish, Current, NoCall, TypeOK, CallTypeOK
<1>4. /\ Table' = Table /\ Told' = Told
      /\ call.op = "query" /\ docs[call.uri] # Closed =>
           Table[call.uri] # NoText /\ Told[call.uri] = sent[call.uri].text
  BY <1>1, TextsAssumption DEF Table, Told, TypeOK, StoreTypeOK, Doc, OpenDocument
<1>5. result' = [op |-> call.op, uri |-> call.uri, outcome |-> outcome, text |-> text]
  BY DEF Finish
<1>6. Service!End(outcome, text)
  <2>1. Current # [op |-> "none", uri |-> NoUri] /\ Current.op = call.op /\ Current.uri = call.uri
    BY <1>1, <1>2 DEF RequestOps, QueryOps
  <2> QED
    BY <2>1, <1>3, <1>4, <1>5 DEF Service!End, Service!NoCall, Current, Table, Told
<1>7. CASE outcome \in {"error", "threw"}
  BY <1>6, <1>7 DEF Service!Next, Service!Fail
<1>8. CASE /\ outcome = "ok"
           /\ IF call.op = "query" THEN docs[call.uri] # Closed /\ text = sent[call.uri].text
              ELSE text = NoText
  <2>1. Current.op = call.op /\ Current.uri = call.uri
    BY <1>2
  <2>2. Service!Return
    BY <2>1, <1>4, <1>6, <1>8 DEF Service!Return, Current, Table, Told
  <2> QED
    BY <2>2 DEF Service!Next
<1> QED
  BY <1>7, <1>8

LEMMA ThrowRefines ==
    ASSUME TypeOK, call.step \notin {"idle", "exit"}, UNCHANGED <<docs, sent>>, Throw
    PROVE  Service!Next
BY FinishRefines DEF Throw

LEMMA InvokeRefines ==
    ASSUME ExchangeInv, Invoke PROVE Service!Next \/ UNCHANGED Service!vars
<1> USE DEF ExchangeInv, SessionInv
<1>1. CASE Initialize \/ Lookup \/ ShutdownAndExit
  <2>1. PICK op \in {"initialize", "lookup", "shutdown"} : Begin(op, NoUri, "request")
    BY <1>1 DEF Initialize, Lookup, ShutdownAndExit
  <2>2. Idle /\ UNCHANGED <<docs, sent, result>>
    BY <1>1 DEF Initialize, Lookup, ShutdownAndExit, NextCall
  <2> QED
    BY <2>1, <2>2, BeginRefines DEF RequestOps, QueryOps
<1>2. CASE Initialized
  BY <1>2, StutterRefines DEF Initialized, Current
<1>3. ASSUME NEW u \in Uris, DocumentQuery(u) PROVE Service!Next
  <2>1. PICK step \in {"ensure", "request"} : Begin("query", u, step)
    BY <1>3 DEF DocumentQuery
  <2>2. Idle /\ UNCHANGED <<docs, sent, result>>
    BY <1>3 DEF DocumentQuery, NextCall
  <2> QED
    BY <2>1, <2>2, BeginRefines DEF RequestOps, QueryOps
<1>4. ASSUME NEW u \in Uris, NEW t \in Texts, NextCall, SyncText(u, t)
      PROVE  Service!Next \/ UNCHANGED Service!vars
  <2>1. Idle /\ UNCHANGED <<call, result>>
    BY <1>4 DEF NextCall, SyncText
  <2>2. CASE UNCHANGED <<docs, sent>>
    BY <2>1, <2>2, StutterRefines DEF Current
  <2>3. CASE t \in Encodable /\ OpenDoc(u, t)
    <3> DEFINE d == [text |-> t, version |-> 1]
    <3>1. d \in Doc /\ d.text \notin NotUtf8
      BY <2>3 DEF Doc, OpenDocument, Encodable
    <3>2. docs' = [docs EXCEPT ![u] = d] /\ sent' = [sent EXCEPT ![u] = d]
      BY <2>3 DEF OpenDoc
    <3> HIDE DEF d
    <3> QED
      BY <2>1, <3>1, <3>2, UpdateRefines
  <2>4. CASE /\ docs[u] # Closed
             /\ docs' = [docs EXCEPT ![u] = [text |-> t, version |-> @.version + 1]]
    <3>1. CASE t \in NotUtf8 /\ UNCHANGED sent
      BY <2>1, <2>4, <3>1, UntoldRefines
    <3>2. CASE t \in Encodable /\ sent' = [sent EXCEPT ![u] = docs'[u]]
      <4>d. PICK d : d = [text |-> t, version |-> docs[u].version + 1]
        OBVIOUS
      <4>1. d \in Doc /\ d.text \notin NotUtf8
        BY <2>4, <3>2, <4>d DEF TypeOK, StoreTypeOK, Doc, OpenDocument, Encodable
      <4>2. docs' = [docs EXCEPT ![u] = d] /\ docs'[u] = d
        BY <2>4, <4>d DEF TypeOK, StoreTypeOK
      <4> QED
        BY <2>1, <3>2, <4>1, <4>2, UpdateRefines
    <3> QED
      BY <1>4, <2>2, <2>4, <3>1, <3>2 DEF SyncText
  <2> QED
    BY <1>4, <2>2, <2>3, <2>4 DEF SyncText
<1>5. ASSUME NEW u \in Uris, SyncMemory(u) \/ SyncDisk(u)
      PROVE  Service!Next \/ UNCHANGED Service!vars
  <2>1. disk[u] # NoText => disk[u] \in Texts
    BY DEF TypeOK, StoreTypeOK
  <2> QED
    BY <1>4, <1>5, <2>1 DEF SyncMemory, SyncDisk
<1>6. ASSUME NEW u \in Uris, CloseFile(u) PROVE Service!Next \/ UNCHANGED Service!vars
  <2>1. Idle /\ UNCHANGED <<call, result>>
    BY <1>6 DEF CloseFile, NextCall
  <2>2. CASE UNCHANGED <<docs, sent>>
    BY <2>1, <2>2, StutterRefines DEF Current
  <2>3. CASE docs' = [docs EXCEPT ![u] = Closed] /\ sent' = [sent EXCEPT ![u] = Closed]
    <3>1. Closed.text \notin NotUtf8
      BY TextsAssumption DEF Closed
    <3> QED
      BY <2>1, <2>3, <3>1, ClosedType, UpdateRefines
  <2> QED
    BY <1>6, <2>2, <2>3 DEF CloseFile
<1> QED
  BY <1>1, <1>2, <1>3, <1>5, <1>6 DEF Invoke

LEMMA ProgressRefines ==
    ASSUME ExchangeInv, Progress PROVE Service!Next \/ UNCHANGED Service!vars
<1> USE DEF ExchangeInv, SessionInv
<1>1. CASE EnsureOpen
  <2>1. call.uri \in Uris /\ call.op = "query" /\ docs[call.uri] = Closed
    BY <1>1 DEF EnsureOpen, TypeOK, CallTypeOK, QueryReady
  <2>2. CASE /\ disk[call.uri] \in Encodable /\ OpenDoc(call.uri, disk[call.uri])
             /\ call' = [call EXCEPT !.step = "request"] /\ UNCHANGED result
    <3>1. Current = [op |-> "query", uri |-> call.uri] /\ Current' = Current
      BY <1>1, <2>1, <2>2 DEF EnsureOpen, Current, TypeOK, CallTypeOK
    <3>2. disk[call.uri] \in Texts \ NotUtf8
      BY <2>2 DEF Encodable
    <3>3. /\ Table' = [Table EXCEPT ![call.uri] = disk[call.uri]]
          /\ Told' = [Told EXCEPT ![call.uri] = disk[call.uri]]
      BY <2>1, <2>2 DEF OpenDoc, Table, Told, TypeOK, StoreTypeOK
    <3>4. Table[call.uri] = NoText
      BY <2>1 DEF Table, Closed
    <3>5. Current.op = "query" /\ Current.uri = call.uri
      BY <3>1
    <3>6. Service!OpenForQuery
      BY <2>2, <3>1, <3>2, <3>3, <3>4, <3>5
      DEF Service!OpenForQuery, Service!Set, Current, Table, Told
    <3> QED
      BY <3>6 DEF Service!Next
  <2>3. CASE Throw /\ UNCHANGED <<docs, sent>>
    BY <1>1, <2>3, ThrowRefines DEF EnsureOpen
  <2> QED
    BY <1>1, <2>2, <2>3 DEF EnsureOpen
<1>2. CASE SendRequest
  <2>1. CASE call' = [call EXCEPT !.step = "wait", !.id = nextId] /\ UNCHANGED result
    <3>1. Current' = Current
      BY <1>2, <2>1 DEF SendRequest, Current, TypeOK, CallTypeOK
    <3> QED
      BY <1>2, <2>1, <3>1, StutterRefines DEF SendRequest
  <2>2. CASE Throw
    BY <1>2, <2>2, ThrowRefines DEF SendRequest
  <2> QED
    BY <1>2, <2>1, <2>2 DEF SendRequest
<1>3. CASE TakeResponse
  <2>1. PICK r \in Mine : Finish(r.status, r.op, r.uri, r.text)
    BY <1>3 DEF TakeResponse
  <2>2. AnswersCall(r)
    BY <1>3 DEF TakeResponse, OwnAnswer, Mine
  <2>3. r.status \in {"ok", "error", "threw"} /\ r.text \in Texts \cup {NoText}
    BY DEF TypeOK, StoreTypeOK, Mine, Answers
  <2>4. call.op = "query" => docs[call.uri] # Closed
    BY <1>3, SentOpen DEF TakeResponse, OwnRequest, TypeOK, CallTypeOK
  <2>5. Finish(r.status, call.op, call.uri, r.text)
    BY <2>1, <2>2 DEF AnswersCall
  <2> QED
    BY <1>3, <2>2, <2>3, <2>4, <2>5, FinishRefines DEF TakeResponse, AnswersCall
<1>4. CASE PumpAnswer \/ PumpNotification \/ Wait
  BY <1>4, StutterRefines DEF PumpAnswer, PumpNotification, Wait, Current
<1>5. CASE PumpAsk
  <2>1. CASE UNCHANGED <<call, result>>
    BY <1>5, <2>1, StutterRefines DEF PumpAsk, Current
  <2>2. CASE Throw
    BY <1>5, <2>2, ThrowRefines DEF PumpAsk, Pumping
  <2> QED
    BY <1>5, <2>1, <2>2 DEF PumpAsk
<1>6. CASE PumpGarbage \/ PumpEof
  BY <1>6, ThrowRefines DEF PumpGarbage, PumpEof, Pumping
<1>7. CASE SendExit
  BY <1>7, StutterRefines DEF SendExit, Current, NoCall
<1> QED
  BY <1>1, <1>2, <1>3, <1>4, <1>5, <1>6, <1>7 DEF Progress

\* Nothing the server or the files' owner does shows, and neither does a stutter.
LEMMA OthersRefine ==
    ASSUME SrvRead \/ SrvAnswer \/ SrvUnprompted \/ SrvCrash \/ EditDisk \/ UNCHANGED vars
    PROVE  UNCHANGED Service!vars
<1>1. UNCHANGED <<call, docs, sent, result>>
  BY DEF SrvRead, SrvReadDoc, SrvReadRequest, SrvReadInitialized, SrvReadReply, SrvReadExit,
         SrvAnswer, SrvUnprompted, SrvCrash, EditDisk, vars, clientVars
<1> QED
  BY <1>1, StutterRefines DEF Current

\* The session with its server, pipes, ids and buffered answers implements the
\* table of documents that answers one query at a time.
THEOREM RefinesService == Spec => ImplementsService
<1>1. ExchangeInv /\ [Next]_vars => [Service!Next]_(Service!vars)
  BY InvokeRefines, ProgressRefines, OthersRefine DEF Next, Over
<1> QED
  BY <1>1, InitRefines, ExchangeInvariant, PTL DEF Spec, ImplementsService, Service!Spec

-----------------------------------------------------------------------------
(* What the server asks. Each request of its own has an id of its own; the *)
(* id is in exactly one pipe, in the request or in the reply.              *)

Positions(s, kind) == {i \in DOMAIN s : s[i].kind = kind}
Ids(s, kind) == {s[i].id : i \in Positions(s, kind)}
Distinct(s, kind) == \A i, j \in Positions(s, kind) : s[i].id = s[j].id => i = j

AsksInv == alive =>
    /\ Distinct(toClient, "ask") /\ Distinct(toServer, "reply")
    /\ Ids(toClient, "ask") \cap Ids(toServer, "reply") = {}
    /\ srvAsked = Ids(toClient, "ask") \cup Ids(toServer, "reply")
    /\ \A id \in srvAsked : id <= unprompted

LEMMA AppendIds ==
    ASSUME NEW S, NEW s \in Seq(S), NEW m \in S, NEW kind
    PROVE  /\ Ids(Append(s, m), kind) =
                  Ids(s, kind) \cup (IF m.kind = kind THEN {m.id} ELSE {})
           /\ Distinct(s, kind) /\ (m.kind = kind => m.id \notin Ids(s, kind))
                => Distinct(Append(s, m), kind)
<1>n. PICK n \in Nat : n = Len(s)
  OBVIOUS
<1> DEFINE t == Append(s, m)
<1>1. /\ DOMAIN t = 1 .. n + 1 /\ DOMAIN s = 1 .. n /\ t[n + 1] = m
      /\ \A i \in 1 .. n : t[i] = s[i]
  BY <1>n, AppendAt
<1> HIDE DEF t
<1>2. Positions(t, kind) = Positions(s, kind) \cup (IF m.kind = kind THEN {n + 1} ELSE {})
  BY <1>1 DEF Positions
<1>3. \A i \in Positions(s, kind) : i # n + 1 /\ t[i] = s[i] /\ s[i].id \in Ids(s, kind)
  BY <1>1 DEF Positions, Ids
<1>4. Ids(t, kind) = Ids(s, kind) \cup (IF m.kind = kind THEN {m.id} ELSE {})
  BY <1>1, <1>2, <1>3 DEF Ids
<1>5. ASSUME Distinct(s, kind), m.kind = kind => m.id \notin Ids(s, kind)
      PROVE  Distinct(t, kind)
  BY <1>1, <1>2, <1>3, <1>5 DEF Distinct
<1> QED
  BY <1>4, <1>5 DEF t

LEMMA TailIds ==
    ASSUME NEW S, NEW s \in Seq(S), s # <<>>, NEW kind, Distinct(s, kind)
    PROVE  /\ Ids(Tail(s), kind) =
                  Ids(s, kind) \ (IF Head(s).kind = kind THEN {Head(s).id} ELSE {})
           /\ Distinct(Tail(s), kind)
           /\ Head(s).kind = kind => Head(s).id \in Ids(s, kind)
<1>n. PICK n \in Nat : n = Len(s)
  OBVIOUS
<1> DEFINE t == Tail(s)
<1>1. /\ DOMAIN t = 1 .. n - 1 /\ DOMAIN s = 1 .. n /\ n > 0 /\ Head(s) = s[1]
      /\ \A i \in 1 .. n - 1 : t[i] = s[i + 1]
  BY <1>n, TailAt
<1> HIDE DEF t
<1>2. \A i \in Positions(t, kind) : i + 1 \in Positions(s, kind) /\ t[i] = s[i + 1] /\ i \in Nat
  BY <1>1 DEF Positions
<1>3. \A i \in Positions(s, kind) :
        i = 1 \/ (i - 1 \in Positions(t, kind) /\ t[i - 1] = s[i] /\ i \in Nat)
  <2> SUFFICES ASSUME NEW i \in Positions(s, kind), i # 1
               PROVE  i - 1 \in Positions(t, kind) /\ t[i - 1] = s[i] /\ i \in Nat
    OBVIOUS
  <2>1. i - 1 \in 1 .. n - 1 /\ i \in Nat /\ i - 1 + 1 = i /\ s[i].kind = kind
    BY <1>1 DEF Positions
  <2>2. t[i - 1] = s[i]
    BY <1>1, <2>1
  <2> QED
    BY <1>1, <2>1, <2>2 DEF Positions
<1>4. Head(s).kind = kind <=> 1 \in Positions(s, kind)
  BY <1>1 DEF Positions
<1>5. Distinct(t, kind)
  BY <1>2 DEF Distinct
<1>6. ASSUME NEW id \in Ids(t, kind)
      PROVE  id \in Ids(s, kind) /\ (Head(s).kind = kind => id # Head(s).id)
  <2>1. PICK i \in Positions(t, kind) : id = t[i].id
    BY <1>6 DEF Ids
  <2>2. i + 1 \in Positions(s, kind) /\ id = s[i + 1].id /\ i + 1 # 1
    BY <1>1, <1>2, <2>1 DEF Positions
  <2> QED
    BY <1>1, <1>4, <2>2 DEF Ids, Distinct
<1>7. ASSUME NEW id \in Ids(s, kind), Head(s).kind = kind => id # Head(s).id
      PROVE  id \in Ids(t, kind)
  <2>1. PICK i \in Positions(s, kind) : id = s[i].id
    BY <1>7 DEF Ids
  <2>2. i # 1
    BY <1>1, <1>7, <2>1 DEF Positions
  <2> QED
    BY <1>3, <2>1, <2>2 DEF Ids
<1>8. Head(s).kind = kind => Head(s).id \in Ids(s, kind)
  BY <1>1, <1>4 DEF Ids
<1> QED
  BY <1>5, <1>6, <1>7, <1>8 DEF t

\* As many ids as messages.
LEMMA IdsCount ==
    ASSUME NEW S, NEW s \in Seq(S), NEW kind, Distinct(s, kind)
    PROVE  /\ IsFiniteSet(Ids(s, kind)) /\ IsFiniteSet(Positions(s, kind))
           /\ Cardinality(Ids(s, kind)) = Cardinality(Positions(s, kind))
<1>1. IsFiniteSet(Positions(s, kind))
  <2>1. IsFiniteSet(1 .. Len(s)) /\ Positions(s, kind) \in SUBSET (1 .. Len(s))
    BY FS_Interval DEF Positions
  <2> QED
    BY <2>1, FS_Subset
<1> DEFINE f == [i \in Positions(s, kind) |-> s[i].id]
<1>2. f \in Bijection(Positions(s, kind), Ids(s, kind))
  BY DEF Ids, Distinct, Bijection, Injection, Surjection, IsInjective
<1>3. ExistsBijection(Positions(s, kind), Ids(s, kind))
  BY <1>2 DEF ExistsBijection
<1> QED
  BY <1>1, <1>3, FS_Bijection

LEMMA AsksConservedHere ==
    ASSUME TypeOK, AsksInv PROVE AsksConserved
<1> SUFFICES ASSUME alive
             PROVE  /\ srvAsked = Ids(toClient, "ask") \cup Ids(toServer, "reply")
                    /\ Cardinality(srvAsked) = Cardinality(Positions(toClient, "ask"))
                                             + Cardinality(Positions(toServer, "reply"))
  BY DEF AsksConserved, Ids, Positions
<1> DEFINE A == Ids(toClient, "ask")
           B == Ids(toServer, "reply")
<1>1. /\ Distinct(toClient, "ask") /\ Distinct(toServer, "reply")
      /\ A \cap B = {} /\ srvAsked = A \cup B
  BY DEF AsksInv
<1>2. /\ IsFiniteSet(A) /\ Cardinality(A) = Cardinality(Positions(toClient, "ask"))
      /\ IsFiniteSet(B) /\ Cardinality(B) = Cardinality(Positions(toServer, "reply"))
  BY <1>1, IdsCount DEF TypeOK, PipeTypeOK
<1> HIDE DEF A, B
<1>3. Cardinality(A \cup B) = Cardinality(A) + Cardinality(B)
  <2>1. Cardinality(A \cup B) = Cardinality(A) + Cardinality(B) - Cardinality(A \cap B)
    BY <1>2, FS_Union
  <2>2. Cardinality(A \cap B) = 0 /\ Cardinality(A) \in Nat /\ Cardinality(B) \in Nat
    BY <1>1, <1>2, FS_EmptySet, FS_CardinalityType
  <2> QED
    BY <2>1, <2>2
<1> QED
  BY <1>1, <1>2, <1>3 DEF A, B

\* The client writes something other than a reply.
LEMMA AsksWrite ==
    ASSUME TypeOK, AsksInv, NEW m \in Inputs, m.kind # "reply", Emit(m),
           UNCHANGED <<toClient, srvAsked, unprompted>>
    PROVE  AsksInv'
<1>1. Ids(toServer', "reply") = Ids(toServer, "reply") /\ Distinct(toServer', "reply")
  <2>1. alive /\ toServer' = Append(toServer, m) /\ toServer \in Seq(Inputs)
    BY DEF Emit, TypeOK, PipeTypeOK, Inputs
  <2>2. /\ Ids(toServer', "reply") =
               Ids(toServer, "reply") \cup (IF m.kind = "reply" THEN {m.id} ELSE {})
        /\ Distinct(toServer, "reply") => Distinct(toServer', "reply")
    BY <2>1, AppendIds
  <2> QED
    BY <2>1, <2>2 DEF AsksInv
<1>2. alive
  BY DEF Emit
<1> QED
  BY <1>1, <1>2 DEF AsksInv

\* pump_once takes something other than an ask.
LEMMA AsksPumped ==
    ASSUME TypeOK, AsksInv, toClient # <<>>, Head(toClient).kind # "ask",
           toClient' = Tail(toClient), UNCHANGED <<toServer, srvAsked, unprompted, alive>>
    PROVE  AsksInv'
<1> SUFFICES ASSUME alive PROVE AsksInv'
  BY DEF AsksInv
<1>1. Ids(toClient', "ask") = Ids(toClient, "ask") /\ Distinct(toClient', "ask")
  BY TailIds DEF AsksInv, TypeOK, PipeTypeOK
<1> QED
  BY <1>1 DEF AsksInv

\* pump_once takes an ask and its reply goes out: the id changes pipes.
LEMMA AsksReplied ==
    ASSUME TypeOK, AsksInv, toClient # <<>>, Head(toClient).kind = "ask",
           toClient' = Tail(toClient), Emit(Reply(Head(toClient).id)),
           UNCHANGED <<srvAsked, unprompted>>
    PROVE  AsksInv'
<1> DEFINE id == Head(toClient).id
           m == Reply(id)
<1>1. alive /\ toServer' = Append(toServer, m)
  BY DEF Emit
<1>2. m \in Inputs /\ m.kind = "reply" /\ m.id = id
  BY PumpType, NoticeType DEF TypeOK, Answers, Sayings, Inputs, Reply, Request
<1> HIDE DEF m
<1>3. /\ Ids(toClient', "ask") = Ids(toClient, "ask") \ {id}
      /\ Distinct(toClient', "ask") /\ id \in Ids(toClient, "ask")
  BY <1>1, TailIds DEF AsksInv, TypeOK, PipeTypeOK
<1>4. id \notin Ids(toServer, "reply")
  BY <1>1, <1>3 DEF AsksInv
<1>5. Ids(toServer', "reply") = Ids(toServer, "reply") \cup {id} /\ Distinct(toServer', "reply")
  BY <1>1, <1>2, <1>4, AppendIds DEF AsksInv, TypeOK, PipeTypeOK, Inputs
<1> QED
  BY <1>1, <1>3, <1>4, <1>5 DEF AsksInv

\* The server reads the head; a reply it reads ends its wait for it.
LEMMA AsksRead ==
    ASSUME TypeOK, AsksInv, alive, toServer # <<>>, toServer' = Tail(toServer),
           UNCHANGED <<toClient, unprompted>>,
           srvAsked' = IF Head(toServer).kind = "reply" THEN srvAsked \ {Head(toServer).id}
                       ELSE srvAsked
    PROVE  AsksInv'
<1>1. /\ Ids(toServer', "reply") =
             Ids(toServer, "reply") \ (IF Head(toServer).kind = "reply"
                                       THEN {Head(toServer).id} ELSE {})
      /\ Distinct(toServer', "reply")
      /\ Head(toServer).kind = "reply" => Head(toServer).id \in Ids(toServer, "reply")
  BY TailIds DEF AsksInv, TypeOK, PipeTypeOK
<1> QED
  BY <1>1 DEF AsksInv

\* The server says something; an ask has an id nobody has used.
LEMMA AsksSaid ==
    ASSUME TypeOK, AsksInv, NEW m \in Answers \cup Sayings, SrvSay(m), UNCHANGED toServer,
           \/ m.kind # "ask" /\ UNCHANGED srvAsked /\ unprompted' \in {unprompted, unprompted + 1}
           \/ /\ m.kind = "ask" /\ m.id = unprompted' /\ unprompted' = unprompted + 1
              /\ srvAsked' = srvAsked \cup {m.id}
    PROVE  AsksInv'
<1>1. alive /\ toClient' = Append(toClient, m)
  BY DEF SrvSay
<1>2. unprompted \in Nat /\ srvAsked \subseteq Nat
  BY DEF TypeOK, ServerTypeOK
<1>3. /\ Ids(toClient', "ask") =
             Ids(toClient, "ask") \cup (IF m.kind = "ask" THEN {m.id} ELSE {})
      /\ (m.kind = "ask" => m.id \notin Ids(toClient, "ask")) => Distinct(toClient', "ask")
  BY <1>1, AppendIds DEF AsksInv, TypeOK, PipeTypeOK
<1>4. m.kind = "ask" => m.id \notin srvAsked
  BY <1>1, <1>2 DEF AsksInv
<1>5. ASSUME NEW id \in srvAsked' PROVE id <= unprompted'
  <2>1. unprompted' \in Nat /\ unprompted <= unprompted'
    BY <1>2
  <2>2. id \in srvAsked \/ id = unprompted'
    OBVIOUS
  <2>3. id \in srvAsked => id \in Nat /\ id <= unprompted
    BY <1>1, <1>2 DEF AsksInv
  <2> QED
    BY <1>2, <2>1, <2>2, <2>3
<1>6. Distinct(toClient', "ask")
  BY <1>1, <1>3, <1>4 DEF AsksInv
<1>7. /\ Ids(toClient', "ask") \cap Ids(toServer, "reply") = {}
      /\ srvAsked' = Ids(toClient', "ask") \cup Ids(toServer, "reply")
  BY <1>1, <1>3, <1>4 DEF AsksInv
<1> QED
  BY <1>1, <1>5, <1>6, <1>7 DEF AsksInv

LEMMA AsksQuiet ==
    ASSUME AsksInv, UNCHANGED <<toClient, toServer, srvAsked, unprompted>>, alive' => alive
    PROVE  AsksInv'
BY DEF AsksInv

-----------------------------------------------------------------------------
(* The handshake. HandshakeLegal speaks of the next message the server     *)
(* reads; WireOrder speaks of all that are under way, each in the light of *)
(* those before it, and ClientAhead of what the client's phase says about  *)
(* the wire and the server, which is what the next write needs.            *)

Work == DocKinds \cup QueryOps
Sent(kind) == \E m \in Range(toServer) : m.kind = kind
OnlySent(kinds) == \A m \in Range(toServer) : m.kind \in kinds
Before(i, kinds) == \A j \in 1 .. i - 1 : toServer[j].kind \in kinds
SentBefore(i, kind) == \E j \in 1 .. i - 1 : toServer[j].kind = kind

CallAndPhase ==
    /\ call.op = "initialize" <=> phase = "initializing"
    /\ call.op = "shutdown" <=> phase = "closing"
    /\ call.op \in QueryOps => phase = "open"
    /\ call.step = "exit" => call.op = "shutdown"

OrderAt(i) ==
    LET kind == toServer[i].kind
    IN  /\ kind = "initialize" => srvPhase = "new" /\ Before(i, {"reply"})
        /\ kind = "initialized" => srvPhase = "ready" /\ Before(i, {"reply"})
        /\ kind \in Work =>
             /\ srvPhase = "running" \/ (srvPhase = "ready" /\ SentBefore(i, "initialized"))
             /\ Before(i, Work \cup {"initialized", "reply"})
        /\ kind = "shutdown" =>
             srvPhase # "down" /\ ~SentBefore(i, "shutdown") /\ ~SentBefore(i, "exit")
        /\ kind = "exit" => srvPhase = "down" \/ SentBefore(i, "shutdown")

WireOrder == alive => \A i \in DOMAIN toServer : OrderAt(i)

\* One initialize request, which is on its way, pending, or answered.
InitializeOnce == alive =>
    /\ Sent("initialize") => \A req \in srvPending : req.kind # "initialize"
    /\ srvPhase = "new" =>
         /\ \A m \in Range(toClient) : m.op # "initialize"
         /\ \A r \in responses : r.op # "initialize"

ClientAhead == alive =>
    /\ phase = "spawned" \/ (call.op = "initialize" /\ call.step = "request") =>
         toServer = <<>> /\ srvPhase = "new" /\ srvPending = {}
    /\ phase \in {"initializing", "failed"} =>
         OnlySent({"initialize", "reply"}) /\ srvPhase \in {"new", "ready"}
    /\ phase = "ready" => OnlySent({"reply"}) /\ srvPhase = "ready"
    /\ phase = "open" =>
         /\ OnlySent(Work \cup {"initialized", "reply"})
         /\ srvPhase = "running" \/ (srvPhase = "ready" /\ Sent("initialized"))
    /\ phase = "closing" =>
         /\ ~Sent("exit")
         /\ IF call.step = "request" THEN srvPhase # "down" /\ ~Sent("shutdown")
            ELSE srvPhase = "down" \/ Sent("shutdown")

HandshakeInv ==
    /\ ExchangeInv /\ AsksInv
    /\ CallAndPhase /\ WireOrder /\ InitializeOnce /\ ClientAhead

LEMMA InitHandshake ==
    Init => AsksInv /\ CallAndPhase /\ WireOrder /\ InitializeOnce /\ ClientAhead
<1> SUFFICES ASSUME Init
             PROVE  AsksInv /\ CallAndPhase /\ WireOrder /\ InitializeOnce /\ ClientAhead
  OBVIOUS
<1> USE DEF Init
<1>1. Range(<<>>) = {}
  BY DEF Range
<1>2. AsksInv
  BY DEF AsksInv, Ids, Positions, Distinct
<1>3. CallAndPhase /\ WireOrder
  BY DEF CallAndPhase, WireOrder, NoCall, QueryOps
<1> QED
  BY <1>1, <1>2, <1>3 DEF InitializeOnce, ClientAhead, Sent, OnlySent, NoCall

\* What a message may be, given what is under way.
Admits(kind) ==
    /\ kind = "initialize" => srvPhase = "new" /\ OnlySent({"reply"})
    /\ kind = "initialized" => srvPhase = "ready" /\ OnlySent({"reply"})
    /\ kind \in Work =>
         /\ srvPhase = "running" \/ (srvPhase = "ready" /\ Sent("initialized"))
         /\ OnlySent(Work \cup {"initialized", "reply"})
    /\ kind = "shutdown" => srvPhase # "down" /\ ~Sent("shutdown") /\ ~Sent("exit")
    /\ kind = "exit" => srvPhase = "down" \/ Sent("shutdown")

LEMMA OrderWrite ==
    ASSUME TypeOK, WireOrder, NEW m \in Inputs, Emit(m), Admits(m.kind),
           UNCHANGED <<srvPhase, alive>>
    PROVE  WireOrder'
<1>n. PICK n \in Nat : n = Len(toServer)
  BY DEF TypeOK, PipeTypeOK
<1>1. /\ DOMAIN toServer' = 1 .. n + 1 /\ DOMAIN toServer = 1 .. n
      /\ toServer'[n + 1] = m /\ alive
      /\ \A i \in 1 .. n : toServer'[i] = toServer[i]
  BY <1>n, AppendAt DEF Emit, TypeOK, PipeTypeOK, Inputs
<1>2. ASSUME NEW i \in 1 .. n PROVE OrderAt(i)'
  <2>1. OrderAt(i) /\ toServer'[i] = toServer[i]
    BY <1>1 DEF WireOrder
  <2>2. /\ \A kinds : Before(i, kinds) => Before(i, kinds)'
        /\ \A kind : SentBefore(i, kind)' <=> SentBefore(i, kind)
    BY <1>1 DEF Before, SentBefore
  <2> QED
    BY <2>1, <2>2 DEF OrderAt
<1>3. OrderAt(n + 1)'
  <2>1. \A j \in 1 .. n : toServer'[j] \in Range(toServer)
    BY <1>1 DEF Range
  <2>2. \A kinds : OnlySent(kinds) => Before(n + 1, kinds)'
    BY <1>1, <2>1 DEF OnlySent, Before
  <2>3. \A kind : Sent(kind) <=> SentBefore(n + 1, kind)'
    BY <1>1 DEF Sent, SentBefore, Range
  <2> QED
    BY <1>1, <2>2, <2>3 DEF OrderAt, Admits
<1> QED
  BY <1>1, <1>2, <1>3 DEF WireOrder

\* How reading a message moves the server's view of the handshake.
PhaseAfter(kind) == CASE kind = "initialized" -> "running"
                      [] kind = "shutdown"    -> "down"
                      [] OTHER                -> srvPhase

\* What was in order behind the head is in order once the head has been read.
LEMMA OrderRead ==
    ASSUME TypeOK, WireOrder, alive, toServer # <<>>, toServer' = Tail(toServer),
           srvPhase' = PhaseAfter(Head(toServer).kind)
    PROVE  WireOrder'
<1>n. PICK n \in Nat : n = Len(toServer)
  BY DEF TypeOK, PipeTypeOK
<1>1. /\ DOMAIN toServer' = 1 .. n - 1 /\ DOMAIN toServer = 1 .. n
      /\ n > 0 /\ Head(toServer) = toServer[1]
      /\ \A i \in 1 .. n - 1 : toServer'[i] = toServer[i + 1]
  BY <1>n, TailAt DEF TypeOK, PipeTypeOK
<1>2. OrderAt(1)
  BY <1>1 DEF WireOrder
<1> SUFFICES ASSUME NEW i \in 1 .. n - 1 PROVE OrderAt(i)'
  BY <1>1 DEF WireOrder
<1>3. OrderAt(i + 1) /\ toServer'[i] = toServer[i + 1] /\ i + 1 - 1 = i /\ 1 \in 1 .. i
  BY <1>1 DEF WireOrder
<1>4. ASSUME NEW kinds, Before(i + 1, kinds)
      PROVE  Head(toServer).kind \in kinds /\ Before(i, kinds)'
  <2>1. \A j \in 1 .. i - 1 : j + 1 \in 1 .. i /\ toServer'[j] = toServer[j + 1]
    BY <1>1
  <2> QED
    BY <1>1, <1>3, <1>4, <2>1 DEF Before
<1>5. ASSUME NEW kind
      PROVE  SentBefore(i + 1, kind) <=> Head(toServer).kind = kind \/ SentBefore(i, kind)'
  <2>1. \A j \in 1 .. i - 1 : j + 1 \in 1 .. i /\ toServer'[j] = toServer[j + 1]
    BY <1>1
  <2>2. \A j \in 1 .. i : j = 1 \/ (j - 1 \in 1 .. i - 1 /\ toServer'[j - 1] = toServer[j])
    <3> SUFFICES ASSUME NEW j \in 1 .. i, j # 1
                 PROVE  j - 1 \in 1 .. i - 1 /\ toServer'[j - 1] = toServer[j]
      OBVIOUS
    <3>1. j - 1 \in 1 .. i - 1 /\ j - 1 \in 1 .. n - 1 /\ j - 1 + 1 = j
      OBVIOUS
    <3> QED
      BY <1>1, <3>1
  <2>3. ASSUME SentBefore(i + 1, kind)
        PROVE  Head(toServer).kind = kind \/ SentBefore(i, kind)'
    <3>1. PICK j \in 1 .. i : toServer[j].kind = kind
      BY <1>3, <2>3 DEF SentBefore
    <3> QED
      BY <1>1, <2>2, <3>1 DEF SentBefore
  <2>4. ASSUME Head(toServer).kind = kind \/ SentBefore(i, kind)'
        PROVE  SentBefore(i + 1, kind)
    <3>1. \E j \in 1 .. i : toServer[j].kind = kind
      BY <1>1, <1>3, <2>1, <2>4 DEF SentBefore
    <3> QED
      BY <1>3, <3>1 DEF SentBefore
  <2> QED
    BY <2>3, <2>4
<1>6. toServer'[i].kind = "initialize" => srvPhase' = "new" /\ Before(i, {"reply"})'
  BY <1>3, <1>4 DEF OrderAt, PhaseAfter
<1>7. toServer'[i].kind = "initialized" => srvPhase' = "ready" /\ Before(i, {"reply"})'
  BY <1>3, <1>4 DEF OrderAt, PhaseAfter
<1>8. toServer'[i].kind \in Work =>
        /\ srvPhase' = "running" \/ (srvPhase' = "ready" /\ SentBefore(i, "initialized")')
        /\ Before(i, Work \cup {"initialized", "reply"})'
  <2>1. "shutdown" \notin Work \cup {"initialized", "reply"}
    BY DEF Work, DocKinds, QueryOps
  <2> QED
    BY <1>3, <1>4, <1>5, <2>1 DEF OrderAt, PhaseAfter
<1>9. toServer'[i].kind = "shutdown" =>
        srvPhase' # "down" /\ ~SentBefore(i, "shutdown")' /\ ~SentBefore(i, "exit")'
  BY <1>3, <1>5 DEF OrderAt, PhaseAfter
<1>10. toServer'[i].kind = "exit" => srvPhase' = "down" \/ SentBefore(i, "shutdown")'
  BY <1>2, <1>3, <1>5 DEF OrderAt, PhaseAfter
<1> QED
  BY <1>6, <1>7, <1>8, <1>9, <1>10 DEF OrderAt

\* Only the answer to initialize moves the server's view without a read.
LEMMA OrderQuiet ==
    ASSUME WireOrder, UNCHANGED toServer, alive' => alive,
           \/ UNCHANGED srvPhase
           \/ srvPhase = "new" /\ srvPhase' = "ready" /\ (alive => ~Sent("initialize"))
    PROVE  WireOrder'
<1> SUFFICES ASSUME alive, NEW i \in DOMAIN toServer PROVE OrderAt(i)'
  BY DEF WireOrder
<1>1. OrderAt(i) /\ toServer[i] \in Range(toServer)
  BY DEF WireOrder, Range
<1>2. /\ \A kinds : Before(i, kinds)' <=> Before(i, kinds)
      /\ \A kind : SentBefore(i, kind)' <=> SentBefore(i, kind)
  BY DEF Before, SentBefore
<1> QED
  BY <1>1, <1>2 DEF OrderAt, Sent

\* What a write, a read and any other step make of what has been sent.
LEMMA SentAfterWrite ==
    ASSUME TypeOK, NEW m \in Inputs, Emit(m)
    PROVE  /\ \A kind : Sent(kind)' <=> Sent(kind) \/ m.kind = kind
           /\ \A kinds : OnlySent(kinds)' <=> OnlySent(kinds) /\ m.kind \in kinds
           /\ toServer' # <<>>
<1>1. Range(toServer)' = Range(toServer) \cup {m}
  BY EmitRange
<1>2. toServer' # <<>>
  BY DEF Emit, TypeOK, PipeTypeOK
<1>3. ASSUME NEW kind PROVE Sent(kind)' <=> Sent(kind) \/ m.kind = kind
  BY <1>1 DEF Sent
<1>4. ASSUME NEW kinds PROVE OnlySent(kinds)' <=> OnlySent(kinds) /\ m.kind \in kinds
  BY <1>1 DEF OnlySent
<1> QED
  BY <1>2, <1>3, <1>4

LEMMA SentAfterRead ==
    ASSUME TypeOK, toServer # <<>>, toServer' = Tail(toServer)
    PROVE  /\ \A kind : Sent(kind) <=> Sent(kind)' \/ Head(toServer).kind = kind
           /\ \A kinds : OnlySent(kinds) <=> OnlySent(kinds)' /\ Head(toServer).kind \in kinds
<1>1. Range(toServer) = Range(toServer') \cup {Head(toServer)}
  BY TailRange DEF TypeOK, PipeTypeOK
<1> QED
  BY <1>1 DEF Sent, OnlySent

LEMMA SentQuiet ==
    ASSUME UNCHANGED toServer
    PROVE  /\ \A kind : Sent(kind)' <=> Sent(kind)
           /\ \A kinds : OnlySent(kinds)' <=> OnlySent(kinds)
BY DEF Sent, OnlySent

LEMMA DeadHandshake ==
    ASSUME ~alive' PROVE AsksInv' /\ WireOrder' /\ InitializeOnce' /\ ClientAhead'
BY DEF AsksInv, WireOrder, InitializeOnce, ClientAhead

\* The client leaves the pipe to the server alone.
LEMMA QuietHandshake ==
    ASSUME HandshakeInv, UNCHANGED <<toServer, alive, serverVars>>,
           \A m \in Range(toClient)' : m \in Range(toClient),
           \A r \in responses' : r \in responses \/ r \in Range(toClient)
    PROVE  /\ WireOrder' /\ InitializeOnce'
           /\ UNCHANGED toClient => AsksInv'
           /\ UNCHANGED <<phase, call>> => CallAndPhase' /\ ClientAhead'
<1> USE DEF HandshakeInv
<1>1. WireOrder'
  BY OrderQuiet DEF serverVars
<1>2. InitializeOnce'
  BY SentQuiet DEF InitializeOnce, serverVars
<1>3. UNCHANGED toClient => AsksInv'
  BY AsksQuiet DEF serverVars
<1>4. ASSUME UNCHANGED <<phase, call>> PROVE CallAndPhase' /\ ClientAhead'
  BY <1>4, SentQuiet DEF CallAndPhase, ClientAhead, serverVars
<1> QED
  BY <1>1, <1>2, <1>3, <1>4

\* The client writes what the wire admits.
LEMMA WriteHandshake ==
    ASSUME HandshakeInv, NEW m \in Inputs, Emit(m), Admits(m.kind),
           m.kind = "initialize" => srvPending = {},
           UNCHANGED <<alive, serverVars, responses>>,
           \A v \in Range(toClient)' : v \in Range(toClient)
    PROVE  /\ WireOrder' /\ InitializeOnce'
           /\ UNCHANGED toClient /\ m.kind # "reply" => AsksInv'
<1> USE DEF HandshakeInv, ExchangeInv, SessionInv
<1>1. WireOrder'
  BY OrderWrite DEF serverVars
<1>2. InitializeOnce'
  BY SentAfterWrite DEF InitializeOnce, serverVars
<1>3. UNCHANGED toClient /\ m.kind # "reply" => AsksInv'
  BY AsksWrite DEF serverVars
<1> QED
  BY <1>1, <1>2, <1>3

\* Documents, queries and replies are written while the session is open.
LEMMA OpenWrite ==
    ASSUME HandshakeInv, phase = "open", NEW m \in Inputs, m.kind \in Work, Emit(m),
           UNCHANGED <<phase, responses, toClient, world>>,
           call'.op \notin {"initialize", "shutdown"}, call'.step # "exit"
    PROVE  AsksInv' /\ CallAndPhase' /\ WireOrder' /\ InitializeOnce' /\ ClientAhead'
<1> USE DEF HandshakeInv, ExchangeInv, SessionInv
<1>1. alive /\ UNCHANGED <<alive, serverVars, srvPhase, srvPending>>
  BY DEF Emit, world, serverVars
<1>2. m.kind \notin {"initialize", "initialized", "shutdown", "exit", "reply"}
  BY DEF Work, DocKinds, QueryOps
<1>3. Admits(m.kind)
  BY <1>1, <1>2 DEF Admits, ClientAhead
<1>4. AsksInv' /\ WireOrder' /\ InitializeOnce'
  BY <1>1, <1>2, <1>3, WriteHandshake
<1>5. ClientAhead'
  BY <1>1, SentAfterWrite DEF ClientAhead
<1>6. CallAndPhase'
  BY DEF CallAndPhase
<1> QED
  BY <1>4, <1>5, <1>6

LEMMA InvokeHandshake ==
    ASSUME HandshakeInv, Invoke
    PROVE  AsksInv' /\ CallAndPhase' /\ WireOrder' /\ InitializeOnce' /\ ClientAhead'
<1> USE DEF HandshakeInv, ExchangeInv, SessionInv
<1>w. UNCHANGED <<responses, toClient, world, alive, serverVars>>
  BY DEF Invoke, Initialize, Initialized, Lookup, DocumentQuery, SyncMemory, SyncDisk,
         SyncText, CloseFile, ShutdownAndExit, world
<1>p. UNCHANGED <<srvPhase, srvPending>>
  BY <1>w DEF serverVars
<1>q. ASSUME UNCHANGED toServer PROVE AsksInv' /\ WireOrder' /\ InitializeOnce'
  BY <1>w, <1>q, QuietHandshake
<1>1. CASE Initialize
  <2>1. UNCHANGED toServer /\ call'.op = "initialize" /\ phase' = "initializing"
        /\ phase = "spawned" /\ call'.step = "request"
    BY <1>1 DEF Initialize, Begin
  <2>2. CallAndPhase' /\ ClientAhead'
    BY <1>w, <1>p, <2>1, SentQuiet
    DEF CallAndPhase, ClientAhead, OnlySent, QueryOps, Range
  <2> QED
    BY <1>q, <2>1, <2>2
<1>2. CASE Initialized
  <2>1. CASE Emit(Notice("initialized")) /\ phase' = "open"
    <3> DEFINE m == Notice("initialized")
    <3>1. m \in Inputs /\ m.kind = "initialized" /\ Emit(m)
      BY <2>1, NoticeType DEF Inputs, Notice, Request
    <3> HIDE DEF m
    <3>2. alive /\ srvPhase = "ready" /\ OnlySent({"reply"})
      BY <1>2, <3>1 DEF Initialized, Emit, ClientAhead
    <3>3. Admits(m.kind)
      BY <3>1, <3>2 DEF Admits, Work, DocKinds, QueryOps
    <3>4. AsksInv' /\ WireOrder' /\ InitializeOnce'
      BY <1>w, <3>1, <3>3, WriteHandshake
    <3>5. call' = call /\ CallAndPhase'
      BY <1>2, <2>1 DEF Initialized, CallAndPhase
    <3>6. OnlySent(Work \cup {"initialized", "reply"})' /\ Sent("initialized")'
      <4>1. OnlySent(Work \cup {"initialized", "reply"})
        BY <3>2 DEF OnlySent
      <4> QED
        BY <3>1, <4>1, SentAfterWrite
    <3>7. ClientAhead'
      BY <1>2, <1>p, <2>1, <3>2, <3>5, <3>6 DEF ClientAhead, Initialized, CallAndPhase
    <3> QED
      BY <3>4, <3>5, <3>7
  <2>2. CASE WriteThrows /\ phase' = "failed"
    <3>1. ~alive' /\ CallAndPhase'
      BY <1>2, <1>w, <2>2 DEF Initialized, WriteThrows, CallAndPhase
    <3> QED
      BY <3>1, DeadHandshake
  <2> QED
    BY <1>2, <2>1, <2>2 DEF Initialized
<1>3. CASE Lookup \/ \E u \in Uris : DocumentQuery(u)
  <2>1. /\ UNCHANGED <<toServer, phase>> /\ call'.op \in QueryOps /\ phase = "open"
        /\ call'.step # "exit"
    BY <1>3 DEF Lookup, DocumentQuery, NextCall, Begin, QueryOps
  <2>2. CallAndPhase' /\ ClientAhead'
    BY <1>w, <1>p, <2>1, SentQuiet DEF CallAndPhase, ClientAhead, QueryOps
  <2> QED
    BY <1>q, <2>1, <2>2
<1>4. CASE ShutdownAndExit
  <2>1. /\ UNCHANGED toServer /\ phase \in {"open", "failed"}
        /\ call'.op = "shutdown" /\ call'.step = "request" /\ phase' = "closing"
    BY <1>4 DEF ShutdownAndExit, Begin
  <2>2. alive => srvPhase # "down" /\ ~Sent("shutdown") /\ ~Sent("exit")
    BY <2>1 DEF ClientAhead, Sent, OnlySent, Work, DocKinds, QueryOps
  <2>3. CallAndPhase' /\ ClientAhead'
    BY <1>w, <1>p, <2>1, <2>2, SentQuiet DEF CallAndPhase, ClientAhead, QueryOps
  <2> QED
    BY <1>q, <2>1, <2>3
<1>5. ASSUME NextCall, UNCHANGED <<phase, call>>,
             \/ UNCHANGED toServer
             \/ \E kind \in DocKinds, u \in Uris, d \in Doc : Emit(DocNote(kind, u, d))
      PROVE  AsksInv' /\ CallAndPhase' /\ WireOrder' /\ InitializeOnce' /\ ClientAhead'
  <2>1. phase = "open"
    BY <1>5 DEF NextCall
  <2>2. CASE UNCHANGED toServer
    BY <1>5, <1>w, <2>2, QuietHandshake
  <2>3. ASSUME NEW kind \in DocKinds, NEW u \in Uris, NEW d \in Doc, Emit(DocNote(kind, u, d))
        PROVE  AsksInv' /\ CallAndPhase' /\ WireOrder' /\ InitializeOnce' /\ ClientAhead'
    <3> DEFINE m == DocNote(kind, u, d)
    <3>1. m \in Inputs /\ m.kind \in Work /\ Emit(m)
      BY <2>3, DocNoteType DEF Inputs, DocNote, Work
    <3> HIDE DEF m
    <3>2. call'.op \notin {"initialize", "shutdown"} /\ call'.step # "exit"
      BY <1>5, <2>1 DEF CallAndPhase
    <3> QED
      BY <1>5, <1>w, <2>1, <3>1, <3>2, OpenWrite
  <2> QED
    BY <1>5, <2>2, <2>3
<1>6. ASSUME NEW u \in Uris, NEW t \in Texts, NextCall, SyncText(u, t)
      PROVE  AsksInv' /\ CallAndPhase' /\ WireOrder' /\ InitializeOnce' /\ ClientAhead'
  <2>1. UNCHANGED <<phase, call>>
    BY <1>6 DEF SyncText
  <2>2. [text |-> t, version |-> 1] \in Doc
    BY DEF Doc, OpenDocument
  <2>3. docs[u] # Closed => [text |-> t, version |-> docs[u].version + 1] \in Doc
    BY DEF TypeOK, StoreTypeOK, Doc, OpenDocument
  <2>4. CASE OpenDoc(u, t)
    BY <1>5, <1>6, <2>1, <2>2, <2>4 DEF OpenDoc, DocKinds
  <2>5. CASE UNCHANGED toServer
    BY <1>5, <1>6, <2>1, <2>5
  <2>6. CASE /\ docs[u] # Closed
             /\ docs' = [docs EXCEPT ![u] = [text |-> t, version |-> @.version + 1]]
             /\ Emit(DocNote("didChange", u, docs'[u]))
    <3>1. docs'[u] \in Doc
      BY <2>3, <2>6 DEF TypeOK, StoreTypeOK
    <3> QED
      BY <1>5, <1>6, <2>1, <2>6, <3>1 DEF DocKinds
  <2> QED
    BY <1>6, <2>4, <2>5, <2>6 DEF SyncText, WriteThrows
<1>7. ASSUME NEW u \in Uris, SyncMemory(u) \/ SyncDisk(u)
      PROVE  AsksInv' /\ CallAndPhase' /\ WireOrder' /\ InitializeOnce' /\ ClientAhead'
  <2>1. disk[u] # NoText => disk[u] \in Texts
    BY DEF TypeOK, StoreTypeOK
  <2> QED
    BY <1>6, <1>7, <2>1 DEF SyncMemory, SyncDisk
<1>8. ASSUME NEW u \in Uris, CloseFile(u)
      PROVE  AsksInv' /\ CallAndPhase' /\ WireOrder' /\ InitializeOnce' /\ ClientAhead'
  <2>1. NextCall /\ UNCHANGED <<phase, call>>
    BY <1>8 DEF CloseFile
  <2>2. Emit(DocNote("didClose", u, Closed)) \/ UNCHANGED toServer
    BY <1>8 DEF CloseFile, WriteThrows
  <2> QED
    BY <1>5, <2>1, <2>2, ClosedType DEF DocKinds
<1> QED
  BY <1>1, <1>2, <1>3, <1>4, <1>7, <1>8 DEF Invoke

\* A call ends. Only the answer to initialize tells the client that the server
\* is ready, and only a shutdown that was written is followed by exit.
LEMMA FinishHandshake ==
    ASSUME TypeOK, CallAndPhase, ClientAhead,
           NEW outcome, NEW op, NEW u, NEW text, Finish(outcome, op, u, text),
           UNCHANGED <<toServer, alive, srvPhase, srvPending>>,
           alive /\ call.op = "shutdown" => call.step # "request",
           alive /\ call.op = "initialize" /\ outcome = "ok" =>
               OnlySent({"reply"}) /\ srvPhase = "ready"
    PROVE  CallAndPhase' /\ ClientAhead'
<1>1. CASE call.op = "shutdown"
  <2>1. call'.op = "shutdown" /\ call'.step = "exit" /\ UNCHANGED phase /\ phase = "closing"
    BY <1>1 DEF Finish, CallAndPhase, TypeOK, CallTypeOK
  <2> QED
    BY <1>1, <2>1, SentQuiet DEF CallAndPhase, ClientAhead, QueryOps
<1>2. CASE call.op = "initialize"
  <2>1. /\ call'.op = "none" /\ phase' = IF outcome = "ok" THEN "ready" ELSE "failed"
        /\ phase = "initializing" /\ call'.step = "idle"
    BY <1>2 DEF Finish, CallAndPhase, NoCall
  <2> QED
    BY <1>2, <2>1, SentQuiet DEF CallAndPhase, ClientAhead, QueryOps
<1>3. CASE call.op \notin {"shutdown", "initialize"}
  <2>1. /\ call'.op = "none" /\ UNCHANGED phase /\ phase \notin {"initializing", "closing"}
        /\ call'.step = "idle"
    BY <1>3 DEF Finish, CallAndPhase, NoCall
  <2> QED
    BY <1>3, <2>1, SentQuiet DEF CallAndPhase, ClientAhead, QueryOps
<1> QED
  BY <1>1, <1>2, <1>3

\* The exception of a call, when the request had been written or was never due.
LEMMA ThrowHandshake ==
    ASSUME HandshakeInv, Throw, UNCHANGED <<toServer, alive, serverVars>>,
           alive /\ call.op = "shutdown" => call.step # "request"
    PROVE  CallAndPhase' /\ ClientAhead'
BY FinishHandshake DEF HandshakeInv, ExchangeInv, SessionInv, Throw, serverVars

\* A write that throws tells the client that the server is gone.
LEMMA DeadThrow ==
    ASSUME HandshakeInv, WriteThrows, Throw, UNCHANGED <<alive, serverVars>>
    PROVE  AsksInv' /\ CallAndPhase' /\ WireOrder' /\ InitializeOnce' /\ ClientAhead'
<1>1. ~alive' /\ UNCHANGED toServer
  BY DEF WriteThrows
<1> QED
  BY <1>1, DeadHandshake, ThrowHandshake

LEMMA EnsureHandshake ==
    ASSUME HandshakeInv, EnsureOpen
    PROVE  AsksInv' /\ CallAndPhase' /\ WireOrder' /\ InitializeOnce' /\ ClientAhead'
<1> USE DEF HandshakeInv, ExchangeInv, SessionInv
<1>1. call.op = "query" /\ call.uri \in Uris /\ phase = "open"
  BY DEF EnsureOpen, TypeOK, CallTypeOK, CallAndPhase, QueryOps
<1>2. UNCHANGED <<responses, toClient, world, alive, serverVars>>
  BY DEF EnsureOpen, world
<1>3. CASE /\ disk[call.uri] \in Encodable /\ OpenDoc(call.uri, disk[call.uri])
           /\ call' = [call EXCEPT !.step = "request"] /\ UNCHANGED phase
  <2> DEFINE m == DocNote("didOpen", call.uri, [text |-> disk[call.uri], version |-> 1])
  <2>1. disk[call.uri] \in Texts
    BY <1>3 DEF Encodable
  <2>2. m \in Inputs /\ m.kind \in Work
    BY <1>1, <2>1, DocNoteType DEF Doc, OpenDocument, Inputs, Work, DocKinds, DocNote
  <2>3. Emit(m)
    BY <1>3 DEF OpenDoc
  <2> HIDE DEF m
  <2>4. call'.op = "query" /\ call'.step = "request"
    BY <1>1, <1>3 DEF TypeOK, CallTypeOK
  <2> QED
    BY <1>1, <1>2, <1>3, <2>2, <2>3, <2>4, OpenWrite
<1>4. CASE Throw /\ UNCHANGED toServer
  BY <1>1, <1>2, <1>4, ThrowHandshake, QuietHandshake
<1> QED
  BY <1>3, <1>4 DEF EnsureOpen

\* The request of each call is written where the wire admits it.
LEMMA SendHandshake ==
    ASSUME HandshakeInv, SendRequest
    PROVE  AsksInv' /\ CallAndPhase' /\ WireOrder' /\ InitializeOnce' /\ ClientAhead'
<1> USE DEF HandshakeInv, ExchangeInv, SessionInv
<1>1. UNCHANGED <<responses, toClient, world, alive, serverVars, srvPhase, srvPending>>
  BY DEF SendRequest, world, serverVars
<1>2. CASE WriteThrows /\ Throw
  BY <1>1, <1>2, DeadThrow
<1>3. CASE /\ Emit(Request(call.op, nextId, call.uri))
           /\ call' = [call EXCEPT !.step = "wait", !.id = nextId] /\ UNCHANGED phase
  <2> DEFINE m == Request(call.op, nextId, call.uri)
  <2>1. m \in Inputs /\ m.kind = call.op /\ call.op \in RequestOps
    BY RequestType DEF SendRequest, TypeOK, CallTypeOK, StoreTypeOK, Inputs, Request
  <2>2. Emit(m)
    BY <1>3
  <2>3. call'.op = call.op /\ call'.step = "wait" /\ call.step = "request" /\ alive
    BY <1>3 DEF SendRequest, Emit, TypeOK, CallTypeOK
  <2> HIDE DEF m
  <2>4. CallAndPhase'
    BY <1>3, <2>3 DEF CallAndPhase
  <2>5. CASE call.op \in QueryOps
    <3>1. m.kind \in Work /\ phase = "open" /\ call'.op \notin {"initialize", "shutdown"}
      BY <2>1, <2>3, <2>5 DEF Work, CallAndPhase, QueryOps
    <3> QED
      BY <1>1, <1>3, <2>1, <2>2, <2>3, <3>1, OpenWrite
  <2>6. CASE call.op = "initialize"
    <3>1. toServer = <<>> /\ srvPhase = "new" /\ srvPending = {} /\ phase = "initializing"
      BY <2>3, <2>6 DEF ClientAhead, CallAndPhase
    <3>2. OnlySent({"reply"}) /\ OnlySent({"initialize", "reply"})
      BY <3>1 DEF OnlySent, Range
    <3>3. Admits(m.kind)
      BY <2>1, <2>6, <3>1, <3>2 DEF Admits, Work, DocKinds, QueryOps
    <3>4. AsksInv' /\ WireOrder' /\ InitializeOnce'
      BY <1>1, <2>1, <2>2, <2>6, <3>1, <3>3, WriteHandshake
    <3>5. OnlySent({"initialize", "reply"})'
      BY <2>1, <2>2, <2>6, <3>2, SentAfterWrite
    <3>6. ClientAhead'
      BY <1>1, <1>3, <2>3, <3>1, <3>5 DEF ClientAhead
    <3> QED
      BY <2>4, <3>4, <3>6
  <2>7. CASE call.op = "shutdown"
    <3>1. phase = "closing" /\ ~Sent("exit") /\ srvPhase # "down" /\ ~Sent("shutdown")
      BY <2>3, <2>7 DEF ClientAhead, CallAndPhase
    <3>2. Admits(m.kind)
      BY <2>1, <2>7, <3>1 DEF Admits, Work, DocKinds, QueryOps
    <3>3. AsksInv' /\ WireOrder' /\ InitializeOnce'
      BY <1>1, <2>1, <2>2, <2>7, <3>2, WriteHandshake
    <3>4. ~Sent("exit")' /\ Sent("shutdown")'
      BY <2>1, <2>2, <2>7, <3>1, SentAfterWrite
    <3>5. ClientAhead'
      BY <1>3, <2>3, <2>7, <3>1, <3>4 DEF ClientAhead
    <3> QED
      BY <2>4, <3>3, <3>5
  <2> QED
    BY <2>1, <2>5, <2>6, <2>7 DEF RequestOps
<1> QED
  BY <1>2, <1>3 DEF SendRequest

\* An answer to initialize is taken only once the server has given it, and then
\* no second initialize is under way.
LEMMA TakeHandshake ==
    ASSUME HandshakeInv, TakeResponse
    PROVE  AsksInv' /\ CallAndPhase' /\ WireOrder' /\ InitializeOnce' /\ ClientAhead'
<1> USE DEF HandshakeInv, ExchangeInv, SessionInv
<1>1. UNCHANGED <<toServer, toClient, alive, serverVars, srvPhase, srvPending>>
  BY DEF TakeResponse, world, serverVars
<1>2. PICK r \in Mine : responses' = responses \ {r} /\ Finish(r.status, r.op, r.uri, r.text)
  BY DEF TakeResponse
<1>3. call.step = "wait" /\ r \in responses /\ AnswersCall(r)
  BY DEF TakeResponse, Mine, OwnAnswer
<1>4. ASSUME alive, call.op = "initialize" PROVE OnlySent({"reply"}) /\ srvPhase = "ready"
  <2>1. srvPhase # "new"
    BY <1>3, <1>4 DEF InitializeOnce, AnswersCall
  <2>2. OnlySent({"initialize", "reply"}) /\ srvPhase = "ready"
    BY <1>4, <2>1 DEF ClientAhead, CallAndPhase
  <2>3. \A m \in Range(toServer) : m.kind # "initialize"
    BY <1>4, <2>1 DEF WireOrder, OrderAt, Range
  <2> QED
    BY <2>2, <2>3 DEF OnlySent
<1>5. CallAndPhase' /\ ClientAhead'
  BY <1>1, <1>2, <1>3, <1>4, FinishHandshake
<1> QED
  BY <1>1, <1>2, <1>5, QuietHandshake

\* The pump answers a request of the server's in the middle of a call.
LEMMA ReplyHandshake ==
    ASSUME HandshakeInv, PumpAsk
    PROVE  AsksInv' /\ CallAndPhase' /\ WireOrder' /\ InitializeOnce' /\ ClientAhead'
<1> USE DEF HandshakeInv, ExchangeInv, SessionInv
<1>1. /\ UNCHANGED <<responses, alive, serverVars, srvPhase, srvPending, srvAsked, unprompted>>
      /\ toClient' = Tail(toClient) /\ toClient # <<>> /\ Head(toClient).kind = "ask"
      /\ call.step = "wait"
  BY DEF PumpAsk, Pumping, world, serverVars
<1>2. CASE WriteThrows /\ Throw
  BY <1>1, <1>2, DeadThrow
<1>3. CASE Emit(Reply(Head(toClient).id)) /\ UNCHANGED <<phase, call>>
  <2>1. AsksInv'
    BY <1>1, <1>3, AsksReplied
  <2> DEFINE m == Reply(Head(toClient).id)
  <2>2. m \in Inputs /\ m.kind = "reply"
    BY <1>1, PumpType, NoticeType DEF TypeOK, Answers, Sayings, Inputs, Reply, Request
  <2>3. Emit(m)
    BY <1>3
  <2> HIDE DEF m
  <2>4. Admits(m.kind)
    BY <2>2 DEF Admits, Work, DocKinds, QueryOps
  <2>5. \A v \in Range(toClient)' : v \in Range(toClient)
    BY <1>1, TailRange DEF TypeOK, PipeTypeOK
  <2>6. WireOrder' /\ InitializeOnce'
    BY <1>1, <2>2, <2>3, <2>4, <2>5, WriteHandshake
  <2>7. \A kinds : "reply" \in kinds => (OnlySent(kinds)' <=> OnlySent(kinds))
    BY <2>2, <2>3, SentAfterWrite
  <2>8. \A kind : kind # "reply" => (Sent(kind)' <=> Sent(kind))
    BY <2>2, <2>3, SentAfterWrite
  <2>9. phase # "spawned"
    BY <1>1 DEF CallAndPhase, TypeOK, CallTypeOK, RequestOps
  <2>10. ClientAhead'
    BY <1>1, <1>3, <2>7, <2>8, <2>9 DEF ClientAhead
  <2> QED
    BY <1>3, <2>1, <2>6, <2>10 DEF CallAndPhase
<1> QED
  BY <1>2, <1>3 DEF PumpAsk

\* Whatever else the pump reads leaves the wire to the server as it is.
LEMMA PumpHandshake ==
    ASSUME HandshakeInv, Pumping, Head(toClient).kind # "ask", toClient' = Tail(toClient),
           UNCHANGED <<toServer, alive, serverVars>>,
           \A r \in responses' : r \in responses \/ r = Head(toClient),
           UNCHANGED <<phase, call>> \/ Throw
    PROVE  AsksInv' /\ CallAndPhase' /\ WireOrder' /\ InitializeOnce' /\ ClientAhead'
<1> USE DEF HandshakeInv, ExchangeInv, SessionInv
<1>1. toClient # <<>> /\ call.step = "wait" /\ UNCHANGED <<srvAsked, unprompted>>
  BY DEF Pumping, serverVars
<1>2. AsksInv'
  BY <1>1, AsksPumped
<1>3. (\A m \in Range(toClient)' : m \in Range(toClient)) /\ Head(toClient) \in Range(toClient)
  BY <1>1, TailRange DEF TypeOK, PipeTypeOK
<1>4. WireOrder' /\ InitializeOnce' /\ (UNCHANGED <<phase, call>> => CallAndPhase' /\ ClientAhead')
  BY <1>3, QuietHandshake
<1>5. Throw => CallAndPhase' /\ ClientAhead'
  BY <1>1, ThrowHandshake
<1> QED
  BY <1>2, <1>4, <1>5

\* "exit" follows a "shutdown" that was written.
LEMMA ExitHandshake ==
    ASSUME HandshakeInv, SendExit
    PROVE  AsksInv' /\ CallAndPhase' /\ WireOrder' /\ InitializeOnce' /\ ClientAhead'
<1> USE DEF HandshakeInv, ExchangeInv, SessionInv
<1>1. /\ UNCHANGED <<responses, toClient, alive, serverVars, srvPhase, srvPending>>
      /\ call'.op = "none" /\ phase' = "exiting" /\ call.step = "exit" /\ call'.step = "idle"
  BY DEF SendExit, NoCall, world, serverVars
<1>2. CallAndPhase'
  BY <1>1 DEF CallAndPhase, QueryOps
<1>3. CASE WriteThrows
  BY <1>1, <1>2, <1>3, DeadHandshake DEF WriteThrows
<1>4. CASE Emit(Notice("exit"))
  <2> DEFINE m == Notice("exit")
  <2>1. m \in Inputs /\ m.kind = "exit" /\ Emit(m)
    BY <1>4, NoticeType DEF Inputs, Notice, Request
  <2> HIDE DEF m
  <2>2. alive /\ (srvPhase = "down" \/ Sent("shutdown"))
    BY <1>1, <2>1 DEF Emit, ClientAhead, CallAndPhase
  <2>3. Admits(m.kind)
    BY <2>1, <2>2 DEF Admits, Work, DocKinds, QueryOps
  <2>4. AsksInv' /\ WireOrder' /\ InitializeOnce'
    BY <1>1, <2>1, <2>3, WriteHandshake
  <2>5. ClientAhead'
    BY <1>1 DEF ClientAhead
  <2> QED
    BY <1>2, <2>4, <2>5
<1> QED
  BY <1>3, <1>4 DEF SendExit

LEMMA ProgressHandshake ==
    ASSUME HandshakeInv, Progress
    PROVE  AsksInv' /\ CallAndPhase' /\ WireOrder' /\ InitializeOnce' /\ ClientAhead'
<1>1. CASE EnsureOpen \/ SendRequest \/ TakeResponse \/ PumpAsk \/ SendExit
  BY <1>1, EnsureHandshake, SendHandshake, TakeHandshake, ReplyHandshake, ExitHandshake
<1>2. CASE PumpAnswer \/ PumpNotification \/ PumpGarbage
  <2>1. /\ Pumping /\ Head(toClient).kind # "ask" /\ toClient' = Tail(toClient)
        /\ UNCHANGED <<toServer, alive, serverVars>>
        /\ \A r \in responses' : r \in responses \/ r = Head(toClient)
    BY <1>2 DEF PumpAnswer, PumpNotification, PumpGarbage, world
  <2>2. UNCHANGED <<phase, call>> \/ Throw
    BY <1>2 DEF PumpAnswer, PumpNotification, PumpGarbage
  <2> QED
    BY <2>1, <2>2, PumpHandshake
<1>3. CASE PumpEof
  <2>1. ~alive' /\ UNCHANGED <<toServer, alive, serverVars>> /\ Throw /\ call.step = "wait"
    BY <1>3 DEF PumpEof, world
  <2> QED
    BY <2>1, DeadHandshake, ThrowHandshake
<1>4. CASE Wait
  <2>1. ~alive' /\ UNCHANGED call /\ phase = "exiting" /\ phase' = "closed"
    BY <1>4 DEF Wait, world
  <2>2. CallAndPhase'
    BY <2>1 DEF HandshakeInv, CallAndPhase
  <2> QED
    BY <2>1, <2>2, DeadHandshake
<1> QED
  BY <1>1, <1>2, <1>3, <1>4 DEF Progress

\* The server reads the head of its input, whatever it is.
LEMMA ReadHandshake ==
    ASSUME HandshakeInv, alive, toServer # <<>>, toServer' = Tail(toServer),
           UNCHANGED <<clientVars, toClient, unprompted>>,
           srvPhase' = PhaseAfter(Head(toServer).kind),
           srvAsked' = IF Head(toServer).kind = "reply" THEN srvAsked \ {Head(toServer).id}
                       ELSE srvAsked,
           \A req \in srvPending' : req \in srvPending \/ req = Head(toServer)
    PROVE  AsksInv' /\ CallAndPhase' /\ WireOrder' /\ InitializeOnce' /\ ClientAhead'
<1> USE DEF HandshakeInv, ExchangeInv, SessionInv
<1> DEFINE kind == Head(toServer).kind
<1>1. AsksInv' /\ WireOrder'
  BY AsksRead, OrderRead
<1>2. CallAndPhase' /\ UNCHANGED <<phase, call, responses>>
  BY DEF CallAndPhase, clientVars
<1>3. /\ \A k : Sent(k) <=> Sent(k)' \/ kind = k
      /\ \A kinds : OnlySent(kinds) <=> OnlySent(kinds)' /\ kind \in kinds
  BY SentAfterRead
<1>4. OrderAt(1) /\ toServer[1] = Head(toServer)
  BY DEF WireOrder, TypeOK, PipeTypeOK
<1>5. Sent("initialize")' => kind = "reply"
  <2> SUFFICES ASSUME Sent("initialize")' PROVE kind = "reply"
    OBVIOUS
  <2>1. PICK i \in DOMAIN Tail(toServer) : Tail(toServer)[i].kind = "initialize"
    BY DEF Sent, Range
  <2>2. i \in Nat /\ i > 0 /\ i + 1 \in DOMAIN toServer /\ toServer[i + 1].kind = "initialize"
    BY <2>1, TailAt DEF TypeOK, PipeTypeOK
  <2>3. Before(i + 1, {"reply"})
    BY <2>2 DEF WireOrder, OrderAt
  <2> QED
    BY <1>4, <2>2, <2>3 DEF Before
<1> HIDE DEF kind
<1>6. InitializeOnce'
  <2>1. ASSUME Sent("initialize")' PROVE \A req \in srvPending' : req.kind # "initialize"
    <3>1. Sent("initialize") /\ kind = "reply"
      BY <1>3, <1>5, <2>1
    <3> QED
      BY <3>1 DEF InitializeOnce, kind
  <2>2. srvPhase' = "new" => srvPhase = "new"
    BY DEF PhaseAfter
  <2> QED
    BY <1>2, <2>1, <2>2 DEF InitializeOnce
<1>7. ClientAhead'
  <2>1. ~(phase = "spawned" \/ (call.op = "initialize" /\ call.step = "request"))
    BY DEF ClientAhead
  <2>2. srvPhase' = CASE kind = "initialized" -> "running"
                      [] kind = "shutdown"    -> "down"
                      [] OTHER                -> srvPhase
    BY DEF PhaseAfter, kind
  <2>3. kind = "initialized" => srvPhase = "ready"
    BY <1>4 DEF OrderAt, kind
  <2>4. phase \in {"initializing", "failed", "ready", "open"} => kind # "shutdown"
    BY <1>3 DEF ClientAhead, Work, DocKinds, QueryOps
  <2>5. ASSUME phase \in {"initializing", "failed"}
        PROVE  OnlySent({"initialize", "reply"})' /\ srvPhase' \in {"new", "ready"}
    BY <1>3, <2>2, <2>5 DEF ClientAhead
  <2>6. ASSUME phase = "ready" PROVE OnlySent({"reply"})' /\ srvPhase' = "ready"
    BY <1>3, <2>2, <2>6 DEF ClientAhead
  <2>7. ASSUME phase = "open"
        PROVE  /\ OnlySent(Work \cup {"initialized", "reply"})'
               /\ srvPhase' = "running" \/ (srvPhase' = "ready" /\ Sent("initialized")')
    BY <1>3, <2>2, <2>4, <2>7 DEF ClientAhead
  <2>8. ASSUME phase = "closing"
        PROVE  /\ ~Sent("exit")'
               /\ IF call.step = "request" THEN srvPhase' # "down" /\ ~Sent("shutdown")'
                  ELSE srvPhase' = "down" \/ Sent("shutdown")'
    BY <1>3, <2>2, <2>3, <2>8 DEF ClientAhead
  <2> QED
    BY <1>2, <2>1, <2>5, <2>6, <2>7, <2>8 DEF ClientAhead
<1> QED
  BY <1>1, <1>2, <1>6, <1>7

\* An answer. The one to initialize makes the server ready, and then no other
\* initialize is under way.
LEMMA AnswerHandshake ==
    ASSUME HandshakeInv, SrvAnswer
    PROVE  AsksInv' /\ CallAndPhase' /\ WireOrder' /\ InitializeOnce' /\ ClientAhead'
<1> USE DEF HandshakeInv, ExchangeInv, SessionInv
<1>1. /\ UNCHANGED <<phase, call, responses, toServer, alive, srvAsked, unprompted>>
      /\ alive
  BY DEF SrvAnswer, SrvSay, clientVars
<1>2. PICK req \in srvPending, status \in {"ok", "error", "threw"} :
        /\ SrvSay(Answer(req, status, TextFor(req)))
        /\ srvPending' = srvPending \ {req}
        /\ srvPhase' = IF req.kind = "initialize" /\ srvPhase = "new"
                       THEN "ready" ELSE srvPhase
  BY DEF SrvAnswer
<1> DEFINE m == Answer(req, status, TextFor(req))
<1>3. m \in Answers /\ m.kind = "answer" /\ m.op = req.kind
  BY <1>2, AnswerTyped DEF Answer
<1>4. toClient' = Append(toClient, m) /\ SrvSay(m)
  BY <1>2 DEF SrvSay
<1> HIDE DEF m
<1>5. Range(toClient)' = Range(toClient) \cup {m}
  BY <1>3, <1>4, AppendRange DEF TypeOK, PipeTypeOK
<1>6. AsksInv'
  BY <1>1, <1>3, <1>4, AsksSaid
<1>7. req.kind = "initialize" => ~Sent("initialize")
  BY <1>1, <1>2 DEF InitializeOnce
<1>8. CallAndPhase' /\ WireOrder'
  BY <1>1, <1>2, <1>7, OrderQuiet DEF CallAndPhase
<1>9. InitializeOnce'
  BY <1>1, <1>2, <1>3, <1>5, SentQuiet DEF InitializeOnce
<1>10. ClientAhead'
  BY <1>1, <1>2, SentQuiet DEF ClientAhead
<1> QED
  BY <1>6, <1>8, <1>9, <1>10

\* What the server says of its own accord is no answer to initialize.
LEMMA UnpromptedHandshake ==
    ASSUME HandshakeInv, SrvUnprompted
    PROVE  AsksInv' /\ CallAndPhase' /\ WireOrder' /\ InitializeOnce' /\ ClientAhead'
<1> USE DEF HandshakeInv, ExchangeInv, SessionInv
<1>1. /\ UNCHANGED <<phase, call, responses, toServer, alive, srvPhase, srvPending>>
      /\ unprompted' = unprompted + 1 /\ unprompted' \in Nat
  BY DEF SrvUnprompted, clientVars, TypeOK, ServerTypeOK
<1>2. PICK kind \in {"ask", "notify", "garbage"} :
        /\ SrvSay(Unprompted(kind, unprompted'))
        /\ srvAsked' = IF kind = "ask" THEN srvAsked \cup {unprompted'} ELSE srvAsked
  BY DEF SrvUnprompted
<1> DEFINE m == Unprompted(kind, unprompted')
<1>3. m \in Sayings /\ m.kind = kind /\ m.id = unprompted' /\ m.op = "none"
  BY <1>1 DEF Unprompted, Sayings
<1>4. toClient' = Append(toClient, m) /\ SrvSay(m)
  BY <1>2 DEF SrvSay
<1> HIDE DEF m
<1>5. Range(toClient)' = Range(toClient) \cup {m}
  BY <1>3, <1>4, AppendRange DEF TypeOK, PipeTypeOK
<1>6. AsksInv'
  BY <1>1, <1>2, <1>3, <1>4, AsksSaid
<1>7. CallAndPhase' /\ WireOrder'
  BY <1>1, OrderQuiet DEF CallAndPhase
<1>8. InitializeOnce' /\ ClientAhead'
  BY <1>1, <1>3, <1>5, SentQuiet DEF InitializeOnce, ClientAhead
<1> QED
  BY <1>6, <1>7, <1>8

LEMMA ServerHandshake ==
    ASSUME HandshakeInv, SrvRead \/ SrvAnswer \/ SrvUnprompted \/ SrvCrash \/ EditDisk
    PROVE  AsksInv' /\ CallAndPhase' /\ WireOrder' /\ InitializeOnce' /\ ClientAhead'
<1>1. CASE SrvReadDoc \/ SrvReadRequest \/ SrvReadInitialized \/ SrvReadReply
  <2>1. /\ alive /\ toServer # <<>> /\ toServer' = Tail(toServer)
        /\ UNCHANGED <<clientVars, toClient, unprompted>>
        /\ \A req \in srvPending' : req \in srvPending \/ req = Head(toServer)
    BY <1>1 DEF SrvReadDoc, SrvReadRequest, SrvReadInitialized, SrvReadReply, Reads, Input
  <2>2. srvPhase' = PhaseAfter(Head(toServer).kind)
    BY <1>1 DEF SrvReadDoc, SrvReadRequest, SrvReadInitialized, SrvReadReply, Reads, Input,
                PhaseAfter, DocKinds, RequestOps, QueryOps
  <2>3. srvAsked' = IF Head(toServer).kind = "reply" THEN srvAsked \ {Head(toServer).id}
                    ELSE srvAsked
    BY <1>1 DEF SrvReadDoc, SrvReadRequest, SrvReadInitialized, SrvReadReply, Reads, Input,
                DocKinds, RequestOps, QueryOps
  <2> QED
    BY <2>1, <2>2, <2>3, ReadHandshake
<1>2. CASE SrvReadExit \/ SrvCrash
  <2>1. ~alive' /\ UNCHANGED <<phase, call>>
    BY <1>2 DEF SrvReadExit, SrvCrash, clientVars
  <2> QED
    BY <2>1, DeadHandshake DEF HandshakeInv, CallAndPhase
<1>3. CASE EditDisk
  BY <1>3, QuietHandshake DEF EditDisk, clientVars
<1> QED
  BY <1>1, <1>2, <1>3, AnswerHandshake, UnpromptedHandshake DEF SrvRead

LEMMA StutterHandshake ==
    ASSUME HandshakeInv, UNCHANGED vars
    PROVE  AsksInv' /\ CallAndPhase' /\ WireOrder' /\ InitializeOnce' /\ ClientAhead'
BY QuietHandshake DEF vars, clientVars, world

\* The order of the handshake, and the books kept on the server's own requests,
\* hold in every reachable state.
THEOREM HandshakeInvariant == Spec => []HandshakeInv
<1>1. Init => HandshakeInv
  BY InitType, InitMirror, InitExchange, InitHandshake
  DEF HandshakeInv, ExchangeInv, SessionInv
<1>2. HandshakeInv /\ [Next]_vars /\ ExchangeInv' => HandshakeInv'
  <2> SUFFICES ASSUME HandshakeInv, [Next]_vars, ExchangeInv' PROVE HandshakeInv'
    OBVIOUS
  <2>1. AsksInv' /\ CallAndPhase' /\ WireOrder' /\ InitializeOnce' /\ ClientAhead'
    BY InvokeHandshake, ProgressHandshake, ServerHandshake, StutterHandshake DEF Next, Over
  <2> QED
    BY <2>1 DEF HandshakeInv
<1> QED
  BY <1>1, <1>2, ExchangeInvariant, PTL DEF Spec

\* Once a call has been made, "initialized" has been read or is on its way.
Opened == alive /\ calls # 0 => srvPhase \in {"running", "down"} \/ Sent("initialized")

LEMMA SentStays ==
    ASSUME TypeOK, NEW m, Emit(m), NEW kind, Sent(kind) PROVE Sent(kind)'
<1>1. toServer \in Seq(Inputs \cup {m}) /\ toServer' = Append(toServer, m)
  BY DEF Emit, TypeOK, PipeTypeOK, Inputs
<1>2. Range(toServer)' = Range(toServer) \cup {m}
  BY <1>1, AppendRange
<1> QED
  BY <1>2 DEF Sent

\* The client only adds to what is under way, and calls only while it is open.
LEMMA OpenedWrite ==
    ASSUME HandshakeInv, Opened, UNCHANGED <<alive, srvPhase>>,
           UNCHANGED toServer \/ \E m : Emit(m),
           UNCHANGED calls \/ phase = "open"
    PROVE  Opened'
<1>1. alive /\ (calls # 0 \/ phase = "open") =>
        srvPhase \in {"running", "down"} \/ Sent("initialized")
  BY DEF HandshakeInv, ClientAhead, Opened
<1>2. Sent("initialized") => Sent("initialized")'
  BY SentStays, SentQuiet DEF HandshakeInv, ExchangeInv, SessionInv
<1> QED
  BY <1>1, <1>2 DEF Opened

LEMMA OpenedClient == ASSUME HandshakeInv, Opened, Invoke \/ Progress PROVE Opened'
<1>1. UNCHANGED <<alive, srvPhase>>
  BY DEF Invoke, Initialize, Initialized, Lookup, DocumentQuery, SyncMemory, SyncDisk,
         SyncText, CloseFile, ShutdownAndExit, Progress, EnsureOpen, SendRequest,
         TakeResponse, PumpAnswer, PumpAsk, PumpNotification, PumpGarbage, PumpEof,
         SendExit, Wait, world, serverVars
<1>2. UNCHANGED calls \/ phase = "open"
  BY DEF Invoke, Initialize, Initialized, Lookup, DocumentQuery, SyncMemory, SyncDisk,
         CloseFile, ShutdownAndExit, NextCall, Progress, EnsureOpen, SendRequest,
         TakeResponse, PumpAnswer, PumpAsk, PumpNotification, PumpGarbage, PumpEof,
         SendExit, Wait
<1>3. CASE Invoke
  <2>1. ASSUME NEW u \in Uris, NEW t, SyncText(u, t)
        PROVE  UNCHANGED toServer \/ \E m : Emit(m)
    BY <2>1 DEF SyncText, OpenDoc, WriteThrows
  <2>2. UNCHANGED toServer \/ \E m : Emit(m)
    BY <1>3, <2>1
    DEF Invoke, Initialize, Initialized, Lookup, DocumentQuery, SyncMemory, SyncDisk,
        CloseFile, ShutdownAndExit, WriteThrows
  <2> QED
    BY <1>1, <1>2, <2>2, OpenedWrite
<1>4. CASE Progress
  <2>1. UNCHANGED toServer \/ \E m : Emit(m)
    BY <1>4
    DEF Progress, EnsureOpen, OpenDoc, SendRequest, TakeResponse, PumpAnswer, PumpAsk,
        PumpNotification, PumpGarbage, PumpEof, SendExit, Wait, WriteThrows
  <2> QED
    BY <1>1, <1>2, <2>1, OpenedWrite
<1> QED
  BY <1>3, <1>4

\* The server forgets "initialized" only by reading it.
LEMMA OpenedServer ==
    ASSUME HandshakeInv, Opened, SrvRead \/ SrvAnswer \/ SrvUnprompted \/ SrvCrash \/ EditDisk
    PROVE  Opened'
<1> SUFFICES ASSUME alive', calls' # 0
             PROVE  srvPhase' \in {"running", "down"} \/ Sent("initialized")'
  BY DEF Opened
<1>1. UNCHANGED calls
  BY DEF SrvRead, SrvReadDoc, SrvReadRequest, SrvReadInitialized, SrvReadReply, SrvReadExit,
         SrvAnswer, SrvUnprompted, SrvCrash, EditDisk, clientVars
<1>2. CASE SrvRead
  <2>1. /\ alive /\ toServer # <<>> /\ toServer' = Tail(toServer)
        /\ Head(toServer).kind = "initialized" => srvPhase' = "running"
        /\ srvPhase' = srvPhase \/ srvPhase' \in {"running", "down"}
    BY <1>2
    DEF SrvRead, SrvReadDoc, SrvReadRequest, SrvReadInitialized, SrvReadReply, SrvReadExit,
        Reads, Input, serverVars, DocKinds, RequestOps, QueryOps
  <2>2. Sent("initialized") <=> Sent("initialized")' \/ Head(toServer).kind = "initialized"
    BY <2>1, SentAfterRead DEF HandshakeInv, ExchangeInv, SessionInv
  <2> QED
    BY <1>1, <2>1, <2>2 DEF Opened
<1>3. CASE SrvAnswer \/ SrvUnprompted \/ EditDisk
  <2>1. /\ alive /\ UNCHANGED toServer
        /\ srvPhase' = srvPhase \/ srvPhase = "new"
    BY <1>3 DEF SrvAnswer, SrvUnprompted, EditDisk, serverVars
  <2> QED
    BY <1>1, <2>1, SentQuiet DEF Opened
<1>4. CASE SrvCrash
  BY <1>4 DEF SrvCrash
<1> QED
  BY <1>2, <1>3, <1>4

THEOREM OpenedInvariant == Spec => []Opened
<1>1. Init => Opened
  BY DEF Init, Opened
<1>2. HandshakeInv /\ Opened /\ [Next]_vars => Opened'
  <2>1. ASSUME Opened, UNCHANGED vars PROVE Opened'
    BY <2>1, SentQuiet DEF Opened, vars, clientVars, world, serverVars
  <2> QED
    BY <2>1, OpenedClient, OpenedServer DEF Next, Over
<1> QED
  BY <1>1, <1>2, HandshakeInvariant, PTL DEF Spec

LEMMA HandshakeHolds == ASSUME HandshakeInv, Opened PROVE HandshakeLegal
<1> USE DEF HandshakeInv, ExchangeInv, SessionInv
<1> SUFFICES ASSUME alive, toServer # <<>> PROVE HandshakeLegal
  BY DEF HandshakeLegal
<1>1. 1 \in DOMAIN toServer /\ Input = toServer[1] /\ Input \in Inputs
  BY DEF Input, TypeOK, PipeTypeOK, Inputs
<1>2. Input.kind \in {"initialize", "initialized", "exit", "shutdown", "reply"} \cup Work
  BY <1>1 DEF Inputs, Requests, Queries, DocNotes, Notices, RequestOps, QueryOps, Work
<1>3. OrderAt(1) /\ ~SentBefore(1, "initialized") /\ ~SentBefore(1, "shutdown")
  BY <1>1 DEF WireOrder, SentBefore
<1>4. Input.kind = "reply" => Input.id \in srvAsked
  BY TailIds DEF AsksInv, TypeOK, PipeTypeOK, Input
<1>5. ASSUME Input.kind = "shutdown" PROVE ~Sent("initialized")
  <2> SUFFICES ASSUME NEW i \in DOMAIN toServer, toServer[i].kind = "initialized" PROVE FALSE
    BY DEF Sent, Range
  <2>1. Before(i, {"reply"})
    BY DEF WireOrder, OrderAt
  <2>2. i = 1 \/ 1 \in 1 .. i - 1
    BY DEF TypeOK, PipeTypeOK
  <2> QED
    BY <1>1, <1>5, <2>1, <2>2 DEF Before
<1>6. ASSUME Input.kind = "shutdown"
      PROVE  srvPhase = "running" \/ (calls = 0 /\ srvPhase \in {"new", "ready"})
  <2>1. srvPhase # "down"
    BY <1>1, <1>3, <1>6 DEF OrderAt
  <2> QED
    BY <1>5, <1>6, <2>1 DEF Opened, TypeOK, ServerTypeOK
<1> QED
  BY <1>1, <1>2, <1>3, <1>4, <1>6 DEF HandshakeLegal, OrderAt, Work, DocKinds, QueryOps

\* The server never reads a message that the protocol does not allow at that
\* point of the conversation: nothing but replies is written between "initialize"
\* and its answer, no work before "initialized", no "exit" before "shutdown", no
\* "shutdown" before "initialized" unless nothing was ever called.
THEOREM HandshakeIsLegal == Spec => []HandshakeLegal
<1>1. HandshakeInv /\ Opened => HandshakeLegal
  BY HandshakeHolds
<1> QED
  BY <1>1, HandshakeInvariant, OpenedInvariant, PTL

\* No request of the server's is lost or answered twice while it lives, whatever
\* calls the pump reads it in.
THEOREM AsksAreConserved == Spec => []AsksConserved
<1>1. HandshakeInv => AsksConserved
  BY AsksConservedHere DEF HandshakeInv, ExchangeInv, SessionInv
<1> QED
  BY <1>1, HandshakeInvariant, PTL

=============================================================================
