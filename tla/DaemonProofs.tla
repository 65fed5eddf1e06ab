--------------------------- MODULE DaemonProofs ---------------------------
(***************************************************************************)
(* Theorems about Daemon, for every number of receivers, connections,       *)
(* capture groups and requests: its types, its maps, the shared capture     *)
(* groups, the connections, and last the cleanups: what Shutdown waits for, *)
(* that nothing leaks, and that nothing is torn down twice.                 *)
(***************************************************************************)
EXTENDS Daemon, FiniteSetTheorems, TLAPS

USE DEF Nil

-----------------------------------------------------------------------------
(* The shape of cleanup plans and of the state after a detachment.          *)

\* What an entry or a group holds is a set of resources (addStream,
\* addCaptureGroup).
LEMMA HeldType ==
    ASSUME TypeOK
    PROVE  /\ \A e \in Entries : Held(e) \subseteq Resource
           /\ \A g \in Groups : GroupHeld(g) \subseteq Resource
PROOF
<1>1. /\ Entries \subseteq Nat /\ Groups \subseteq Nat
  BY BoundsAssumption DEF Entries, Groups
<1>2. ASSUME NEW e \in Entries PROVE Held(e) \subseteq Resource
  <2>1. entry[e].client \in Nat
    BY DEF TypeOK, EntryRecord
  <2>2. QED
    BY <1>1, <2>1 DEF Held, Resource, Ctx, Sink, Session, Client
<1>3. ASSUME NEW g \in Groups PROVE GroupHeld(g) \subseteq Resource
  BY <1>1 DEF GroupHeld, Resource, GroupCtx, Capture
<1> QED BY <1>2, <1>3

\* Detaching keeps the types of the maps and of the plans.
LEMMA DetachType ==
    ASSUME TypeOK, NEW E \in SUBSET Entries,
           NEW G \in SUBSET Groups, NEW a \in Actors, Detach(E, G, a)
    PROVE  /\ streams' \in [Targets -> Entries \cup {Nil}]
           /\ groups' \in [Keys -> Groups \cup {Nil}]
           /\ entry' \in [Entries -> EntryRecord]
           /\ group' \in [Groups -> GroupRecord]
           /\ plan' \in [Actors -> SUBSET Resource]
PROOF
<1>1. streams' \in [Targets -> Entries \cup {Nil}]
  BY DEF TypeOK, Detach
<1>2. groups' \in [Keys -> Groups \cup {Nil}]
  BY DEF TypeOK, Detach
<1>3. entry' \in [Entries -> EntryRecord]
  <2>1. ASSUME NEW x \in EntryRecord PROVE Stripped(x) \in EntryRecord
    BY DEF Stripped, EntryRecord
  <2>2. QED BY <2>1 DEF TypeOK, Detach
<1>4. group' \in [Groups -> GroupRecord]
  <2>1. ASSUME NEW x \in GroupRecord PROVE GroupStripped(x) \in GroupRecord
    BY DEF GroupStripped, GroupRecord
  <2>2. QED BY <2>1 DEF TypeOK, Detach
<1>5. plan' \in [Actors -> SUBSET Resource]
  <2>1. /\ UNION {Held(e) : e \in E} \subseteq Resource
           /\ UNION {GroupHeld(g) : g \in G} \subseteq Resource
    BY HeldType
  <2>2. QED BY <2>1 DEF TypeOK, Detach
<1> QED BY <1>1, <1>2, <1>3, <1>4, <1>5

\* The resources a worker opens.
LEMMA ResourceType ==
    /\ \A e \in Entries : /\ {Session(e), Sink(e), Audio(e), Ctx(e)} \subseteq Resource
                          /\ \A i \in Nat : Client(e, i) \in Resource
    /\ \A g \in Groups \cup {Nil} : {Capture(g), GroupCtx(g)} \subseteq Resource
PROOF
<1>1. Entries \subseteq Nat /\ Groups \cup {Nil} \subseteq Nat
  BY BoundsAssumption DEF Entries, Groups
<1>2. QED
  BY <1>1 DEF Resource, Session, Sink, Audio, Ctx, Client, Capture, GroupCtx

\* A worker stays well typed whatever step it takes.
LEMMA WorkerType ==
    ASSUME TypeOK, NEW e \in Entries, WorkerStep(e)
    PROVE  worker' \in [Entries -> WorkerRecord]
PROOF
<1>a. worker \in [Entries -> WorkerRecord]
  BY DEF TypeOK
<1>b. ASSUME PairOutcome(e) PROVE worker' \in [Entries -> WorkerRecord]
  <2>1. {"setup", "askPin", "askPassword", "fail", "dial"} \subseteq WorkerPCs
    BY DEF WorkerPCs
  <2>2. \/ worker' = [worker EXCEPT ![e].pc = "setup"]
        \/ worker' = [worker EXCEPT ![e].pc = "fail"]
        \/ \E p \in {"askPin", "askPassword", "dial"}, n \in {"setup", "pairPin"} :
              worker' = [worker EXCEPT ![e].pc = p, ![e].next = n]
    BY <1>b DEF PairOutcome, Goto, Ask, Reconnect
  <2>3. QED BY <1>a, <2>1, <2>2 DEF WorkerRecord
<1>c. ASSUME Reconnect(e, "pair") PROVE worker' \in [Entries -> WorkerRecord]
  <2>1. "dial" \in WorkerPCs
    BY DEF WorkerPCs
  <2>2. QED BY <1>a, <1>c, <2>1 DEF Reconnect, WorkerRecord
<1>1. ASSUME Dial(e) PROVE worker' \in [Entries -> WorkerRecord]
  <2>1. {"fail", "info"} \subseteq WorkerPCs
    BY DEF WorkerPCs
  <2>2. QED BY <1>a, <1>1, <2>1 DEF Dial, Goto, WorkerRecord
<1>2. ASSUME GetInfo(e) PROVE worker' \in [Entries -> WorkerRecord]
  <2>1. {"fail", "verify", "pair", "pairPin", "setup"} \subseteq WorkerPCs
    BY DEF WorkerPCs
  <2>2. QED BY <1>a, <1>2, <2>1 DEF GetInfo, Goto, WorkerRecord
<1>3. ASSUME PairPin(e) PROVE worker' \in [Entries -> WorkerRecord]
  <2>1. {"setup", "askPin"} \subseteq WorkerPCs
    BY DEF WorkerPCs
  <2>2. QED BY <1>a, <1>3, <2>1 DEF PairPin, Goto, WorkerRecord, Ask
<1>4. ASSUME AskCredential(e) PROVE worker' \in [Entries -> WorkerRecord]
  <2>1. {"showPin", "prompt", "fail"} \subseteq WorkerPCs
    BY DEF WorkerPCs
  <2>2. QED BY <1>a, <1>4, <2>1 DEF AskCredential, Goto, WorkerRecord
<1>5. ASSUME ShowPin(e) PROVE worker' \in [Entries -> WorkerRecord]
  <2>1. {"prompt", "fail"} \subseteq WorkerPCs
    BY DEF WorkerPCs
  <2>2. QED BY <1>a, <1>5, <2>1 DEF ShowPin, Goto, WorkerRecord
<1>6. ASSUME PromptReady(e) PROVE worker' \in [Entries -> WorkerRecord]
  <2>1. {"waiting", "fail"} \subseteq WorkerPCs
    BY DEF WorkerPCs
  <2>2. QED BY <1>a, <1>6, <2>1 DEF PromptReady, Goto, WorkerRecord
<1>7. ASSUME ReceiveCredential(e) PROVE worker' \in [Entries -> WorkerRecord]
  <2>1. {"verify", "pair", "pairPin", "setup"} \subseteq WorkerPCs
    BY DEF WorkerPCs
  <2>2. QED BY <1>a, <1>7, <2>1 DEF ReceiveCredential, Goto, WorkerRecord
<1>8. ASSUME WaitCancelled(e) PROVE worker' \in [Entries -> WorkerRecord]
  <2>1. {"fail"} \subseteq WorkerPCs
    BY DEF WorkerPCs
  <2>2. QED BY <1>a, <1>8, <2>1 DEF WaitCancelled, Goto, WorkerRecord
<1>9. ASSUME Setup(e) PROVE worker' \in [Entries -> WorkerRecord]
  <2>1. {"fail", "askPassword", "prepare", "attach", "ready"} \subseteq WorkerPCs
    BY DEF WorkerPCs
  <2>2. QED BY <1>a, <1>9, <2>1 DEF Setup, Goto, WorkerRecord
<1>10. ASSUME PrepareAudio(e) PROVE worker' \in [Entries -> WorkerRecord]
  <2>1. {"fail", "attach"} \subseteq WorkerPCs
    BY DEF WorkerPCs
  <2>2. QED BY <1>a, <1>10, <2>1 DEF PrepareAudio, Goto, WorkerRecord
<1>11. ASSUME RefuseCapture(e) PROVE worker' \in [Entries -> WorkerRecord]
  <2>1. {"fail"} \subseteq WorkerPCs
    BY DEF WorkerPCs
  <2>2. QED BY <1>a, <1>11, <2>1 DEF RefuseCapture, Goto, WorkerRecord
<1>12. ASSUME JoinGroup(e) PROVE worker' \in [Entries -> WorkerRecord]
  <2>1. {"setup", "fail"} \subseteq WorkerPCs
    BY DEF WorkerPCs
  <2>2. QED BY <1>a, <1>12, <2>1 DEF JoinGroup, Goto, WorkerRecord
<1>13. ASSUME PublishGroup(e) PROVE worker' \in [Entries -> WorkerRecord]
  <2>1. {"startCapture"} \subseteq WorkerPCs
    BY DEF WorkerPCs
  <2>2. PICK g \in Groups : worker' = [worker EXCEPT ![e].pc = "startCapture", ![e].bc = g]
    BY <1>13 DEF PublishGroup
  <2>3. QED BY <1>a, <2>1, <2>2 DEF WorkerRecord
<1>14. ASSUME CaptureFails(e) PROVE worker' \in [Entries -> WorkerRecord]
  <2>1. {"fail"} \subseteq WorkerPCs
    BY DEF WorkerPCs
  <2>2. QED BY <1>a, <1>14, <2>1 DEF CaptureFails, Goto, WorkerRecord
<1>15. ASSUME PublishCapture(e) PROVE worker' \in [Entries -> WorkerRecord]
  <2>1. {"setup"} \subseteq WorkerPCs
    BY DEF WorkerPCs
  <2>2. QED BY <1>a, <1>15, <2>1 DEF PublishCapture, Goto, WorkerRecord
<1>16. ASSUME DiscardCapture(e) PROVE worker' \in [Entries -> WorkerRecord]
  <2>1. {"discarded"} \subseteq WorkerPCs
    BY DEF WorkerPCs
  <2>2. QED BY <1>a, <1>16, <2>1 DEF DiscardCapture, Goto, WorkerRecord
<1>17. ASSUME CaptureDiscarded(e) PROVE worker' \in [Entries -> WorkerRecord]
  <2>1. {"fail"} \subseteq WorkerPCs
    BY DEF WorkerPCs
  <2>2. QED BY <1>a, <1>17, <2>1 DEF CaptureDiscarded, Goto, WorkerRecord
<1>18. ASSUME Attach(e) PROVE worker' \in [Entries -> WorkerRecord]
  <2>1. {"streaming", "startAudio"} \subseteq WorkerPCs
    BY DEF WorkerPCs
  <2>2. QED BY <1>a, <1>18, <2>1 DEF Attach, Goto, WorkerRecord
<1>19. ASSUME AttachObsolete(e) PROVE worker' \in [Entries -> WorkerRecord]
  <2>1. {"abandon"} \subseteq WorkerPCs
    BY DEF WorkerPCs
  <2>2. QED BY <1>a, <1>19, <2>1 DEF AttachObsolete, Goto, WorkerRecord
<1>20. ASSUME Abandon(e) PROVE worker' \in [Entries -> WorkerRecord]
  <2>1. {"exit"} \subseteq WorkerPCs
    BY DEF WorkerPCs
  <2>2. QED BY <1>a, <1>20, <2>1 DEF Abandon, Goto, WorkerRecord
<1>21. ASSUME StartAudio(e) PROVE worker' \in [Entries -> WorkerRecord]
  <2>1. {"streaming"} \subseteq WorkerPCs
    BY DEF WorkerPCs
  <2>2. QED BY <1>a, <1>21, <2>1 DEF StartAudio, Goto, WorkerRecord
<1>22. ASSUME StreamFramesReturns(e) PROVE worker' \in [Entries -> WorkerRecord]
  <2>1. {"ended"} \subseteq WorkerPCs
    BY DEF WorkerPCs
  <2>2. QED BY <1>a, <1>22, <2>1 DEF StreamFramesReturns, Goto, WorkerRecord
<1>23. ASSUME StreamEnded(e) PROVE worker' \in [Entries -> WorkerRecord]
  <2>1. {"exit", "stopAudio"} \subseteq WorkerPCs
    BY DEF WorkerPCs
  <2>2. QED BY <1>a, <1>23, <2>1 DEF StreamEnded, Goto, WorkerRecord
<1>24. ASSUME StopAudio(e) PROVE worker' \in [Entries -> WorkerRecord]
  <2>1. {"exit"} \subseteq WorkerPCs
    BY DEF WorkerPCs
  <2>2. QED BY <1>a, <1>24, <2>1 DEF StopAudio, Goto, WorkerRecord
<1>25. ASSUME RemoveStream(e) PROVE worker' \in [Entries -> WorkerRecord]
  <2>1. {"exit"} \subseteq WorkerPCs
    BY DEF WorkerPCs
  <2>2. QED BY <1>a, <1>25, <2>1 DEF RemoveStream, Goto, WorkerRecord
<1>26. ASSUME Exit(e) PROVE worker' \in [Entries -> WorkerRecord]
  <2>1. {"gone"} \subseteq WorkerPCs
    BY DEF WorkerPCs
  <2>2. QED BY <1>a, <1>26, <2>1 DEF Exit, Goto, WorkerRecord, Locals
<1> QED
  BY <1>b, <1>c, <1>1, <1>2, <1>3, <1>4, <1>5, <1>6, <1>7, <1>8, <1>9, <1>10, <1>11, <1>12, <1>13, <1>14, <1>15, <1>16, <1>17, <1>18, <1>19, <1>20, <1>21, <1>22, <1>23, <1>24, <1>25, <1>26
  DEF WorkerStep, ProtocolStep, LocalStep, CaptureStep, Verify, Pair

\* So does its entry ...
LEMMA EntryType ==
    ASSUME TypeOK, NEW e \in Entries, WorkerStep(e)
    PROVE  entry' \in [Entries -> EntryRecord]
PROOF
<1>a. entry \in [Entries -> EntryRecord] /\ worker[e].dials \in Nat /\ groups \in [Keys -> Groups \cup {Nil}]
  BY DEF TypeOK, WorkerRecord
<1>1. ASSUME GetInfo(e) PROVE entry' \in [Entries -> EntryRecord]
  BY <1>a, <1>1 DEF GetInfo, maps
<1>2. ASSUME Verify(e) PROVE entry' \in [Entries -> EntryRecord]
  BY <1>a, <1>2 DEF Verify, maps
<1>3. ASSUME Pair(e) PROVE entry' \in [Entries -> EntryRecord]
  BY <1>a, <1>3 DEF Pair, maps
<1>4. ASSUME PairPin(e) PROVE entry' \in [Entries -> EntryRecord]
  BY <1>a, <1>4 DEF PairPin, maps
<1>5. ASSUME Setup(e) PROVE entry' \in [Entries -> EntryRecord]
  BY <1>a, <1>5 DEF Setup, maps
<1>6. ASSUME PrepareAudio(e) PROVE entry' \in [Entries -> EntryRecord]
  BY <1>a, <1>6 DEF PrepareAudio, maps
<1>7. ASSUME RefuseCapture(e) PROVE entry' \in [Entries -> EntryRecord]
  BY <1>a, <1>7 DEF RefuseCapture, maps
<1>8. ASSUME CaptureDiscarded(e) PROVE entry' \in [Entries -> EntryRecord]
  BY <1>a, <1>8 DEF CaptureDiscarded, maps
<1>9. ASSUME DiscardCapture(e) PROVE entry' \in [Entries -> EntryRecord]
  BY <1>a, <1>9 DEF DiscardCapture, maps
<1>10. ASSUME PublishCapture(e) PROVE entry' \in [Entries -> EntryRecord]
  BY <1>a, <1>10 DEF PublishCapture, maps
<1>11. ASSUME AttachObsolete(e) PROVE entry' \in [Entries -> EntryRecord]
  BY <1>a, <1>11 DEF AttachObsolete, maps
<1>12. ASSUME StartAudio(e) PROVE entry' \in [Entries -> EntryRecord]
  BY <1>a, <1>12 DEF StartAudio, maps
<1>13. ASSUME StreamFramesReturns(e) PROVE entry' \in [Entries -> EntryRecord]
  BY <1>a, <1>13 DEF StreamFramesReturns, maps
<1>14. ASSUME StopAudio(e) PROVE entry' \in [Entries -> EntryRecord]
  BY <1>a, <1>14 DEF StopAudio, maps
<1>15. ASSUME Exit(e) PROVE entry' \in [Entries -> EntryRecord]
  BY <1>a, <1>15 DEF Exit, maps
<1>16. ASSUME Abandon(e) PROVE entry' \in [Entries -> EntryRecord]
  BY <1>a, <1>16, DetachType DEF Abandon, maps, FreedBy, Actors
<1>17. ASSUME StreamEnded(e) PROVE entry' \in [Entries -> EntryRecord]
  BY <1>a, <1>17, DetachType DEF StreamEnded, maps, FreedBy, Actors
<1>18. ASSUME RemoveStream(e) PROVE entry' \in [Entries -> EntryRecord]
  BY <1>a, <1>18, DetachType DEF RemoveStream, maps, FreedBy, Actors
<1>19. ASSUME Dial(e) PROVE entry' \in [Entries -> EntryRecord]
  BY <1>a, <1>19 DEF Dial, EntryRecord
<1>20. ASSUME AskCredential(e) PROVE entry' \in [Entries -> EntryRecord]
  BY <1>a, <1>20 DEF AskCredential, EntryRecord
<1>21. ASSUME ShowPin(e) PROVE entry' \in [Entries -> EntryRecord]
  BY <1>a, <1>21 DEF ShowPin, EntryRecord
<1>22. ASSUME PromptReady(e) PROVE entry' \in [Entries -> EntryRecord]
  BY <1>a, <1>22 DEF PromptReady, EntryRecord
<1>23. ASSUME ReceiveCredential(e) PROVE entry' \in [Entries -> EntryRecord]
  BY <1>a, <1>23 DEF ReceiveCredential, EntryRecord
<1>24. ASSUME WaitCancelled(e) PROVE entry' \in [Entries -> EntryRecord]
  BY <1>a, <1>24 DEF WaitCancelled, EntryRecord
<1>25. ASSUME JoinGroup(e) PROVE entry' \in [Entries -> EntryRecord]
  BY <1>a, <1>25 DEF JoinGroup, EntryRecord
<1>26. ASSUME PublishGroup(e) PROVE entry' \in [Entries -> EntryRecord]
  BY <1>a, <1>26 DEF PublishGroup, EntryRecord
<1>27. ASSUME CaptureFails(e) PROVE entry' \in [Entries -> EntryRecord]
  BY <1>a, <1>27 DEF CaptureFails, EntryRecord
<1>28. ASSUME Attach(e) PROVE entry' \in [Entries -> EntryRecord]
  <2> DEFINE x == [entry[e] EXCEPT !.state = "streaming", !.session = TRUE,
                                   !.client = worker[e].dials, !.sink = TRUE]
  <2>1. entry' = [entry EXCEPT ![e] = x]
    BY <1>a, <1>28 DEF Attach, EntryRecord
  <2>2. entry[e] \in EntryRecord
    BY <1>a
  <2>3. x \in EntryRecord
    BY <1>a, <2>2 DEF EntryRecord
  <2> HIDE DEF x
  <2>4. QED BY <1>a, <2>1, <2>3
<1> QED
  BY <1>1, <1>2, <1>3, <1>4, <1>5, <1>6, <1>7, <1>8, <1>9, <1>10, <1>11, <1>12, <1>13, <1>14, <1>15, <1>16, <1>17, <1>18, <1>19, <1>20, <1>21, <1>22, <1>23, <1>24, <1>25, <1>26, <1>27, <1>28
  DEF WorkerStep, ProtocolStep, LocalStep, CaptureStep

\* ... and everything else it touches.
LEMMA WorkerRestType ==
    ASSUME TypeOK, NEW e \in Entries, WorkerStep(e)
    PROVE  /\ streams' \in [Targets -> Entries \cup {Nil}]
           /\ groups' \in [Keys -> Groups \cup {Nil}]
           /\ group' \in [Groups -> GroupRecord]
           /\ startMu' \in Entries \cup {Nil}
           /\ pump' \in [Groups -> PumpRecord]
           /\ plan' \in [Actors -> SUBSET Resource]
           /\ shutdown' \in {"no", "cleaning", "down"}
           /\ wg' \in Int
           /\ lastError' \in Targets \cup {"none", "capture"}
           /\ open' \subseteq Resource
PROOF
<1> DEFINE Goal == /\ streams' \in [Targets -> Entries \cup {Nil}]
                  /\ groups' \in [Keys -> Groups \cup {Nil}]
                  /\ group' \in [Groups -> GroupRecord]
                  /\ startMu' \in Entries \cup {Nil}
                  /\ pump' \in [Groups -> PumpRecord]
                  /\ plan' \in [Actors -> SUBSET Resource]
                  /\ shutdown' \in {"no", "cleaning", "down"}
                  /\ wg' \in Int
                  /\ lastError' \in Targets \cup {"none", "capture"}
                  /\ open' \subseteq Resource
<1>a. /\ Worker(e) \in Actors /\ worker[e].dials \in Nat
      /\ worker[e].pc = "startCapture" => worker[e].bc \in Groups \cup {Nil}
      /\ entry[e].target \in Targets
  BY DEF TypeOK, WorkerRecord, Actors, EntryRecord
<1>1. ASSUME GetInfo(e) PROVE Goal
  BY <1>a, <1>1, ResourceType DEF TypeOK, GetInfo, maps, unchangedByWorker
<1>2. ASSUME Verify(e) PROVE Goal
  BY <1>a, <1>2, ResourceType DEF TypeOK, Verify, unchangedByWorker, Reconnect, PairOutcome, maps
<1>3. ASSUME Pair(e) PROVE Goal
  BY <1>a, <1>3, ResourceType DEF TypeOK, Pair, unchangedByWorker, Reconnect, PairOutcome, maps
<1>4. ASSUME PairPin(e) PROVE Goal
  BY <1>a, <1>4, ResourceType DEF TypeOK, PairPin, maps, unchangedByWorker, Ask
<1>5. ASSUME Setup(e) PROVE Goal
  BY <1>a, <1>5, ResourceType DEF TypeOK, Setup, maps, unchangedByWorker
<1>6. ASSUME PrepareAudio(e) PROVE Goal
  BY <1>a, <1>6, ResourceType DEF TypeOK, PrepareAudio, maps, unchangedByWorker
<1>7. ASSUME RefuseCapture(e) PROVE Goal
  BY <1>a, <1>7, ResourceType DEF TypeOK, RefuseCapture, maps, unchangedByWorker
<1>8. ASSUME CaptureDiscarded(e) PROVE Goal
  BY <1>a, <1>8, ResourceType DEF TypeOK, CaptureDiscarded, maps, unchangedByWorker
<1>9. ASSUME DiscardCapture(e) PROVE Goal
  <2>1. pump' \in [Groups -> PumpRecord]
    BY <1>9 DEF TypeOK, DiscardCapture, PumpRecord
  <2>2. {GroupCtx(worker[e].bc), Capture(worker[e].bc)} \subseteq Resource
    BY <1>a, <1>9, ResourceType DEF DiscardCapture, At
  <2>3. QED BY <1>a, <1>9, <2>1, <2>2 DEF TypeOK, DiscardCapture, maps
<1>10. ASSUME PublishCapture(e) PROVE Goal
  <2>1. pump' \in [Groups -> PumpRecord] /\ group' \in [Groups -> GroupRecord]
    BY <1>10 DEF TypeOK, PublishCapture, PumpRecord, GroupRecord
  <2>2. Capture(worker[e].bc) \in Resource
    BY <1>a, <1>10, ResourceType DEF PublishCapture, At
  <2>3. QED BY <1>10, <2>1, <2>2 DEF TypeOK, PublishCapture
<1>11. ASSUME AttachObsolete(e) PROVE Goal
  BY <1>a, <1>11, ResourceType DEF TypeOK, AttachObsolete, maps, unchangedByWorker
<1>12. ASSUME StartAudio(e) PROVE Goal
  BY <1>a, <1>12, ResourceType DEF TypeOK, StartAudio, maps, unchangedByWorker
<1>13. ASSUME StreamFramesReturns(e) PROVE Goal
  BY <1>a, <1>13, ResourceType DEF TypeOK, StreamFramesReturns, maps, unchangedByWorker
<1>14. ASSUME StopAudio(e) PROVE Goal
  BY <1>a, <1>14, ResourceType DEF TypeOK, StopAudio, maps, unchangedByWorker
<1>15. ASSUME Exit(e) PROVE Goal
  BY <1>a, <1>15, ResourceType DEF TypeOK, Exit, maps
<1>16. ASSUME Abandon(e) PROVE Goal
  BY <1>a, <1>16, DetachType DEF TypeOK, Abandon, maps, unchangedByWorker, FreedBy
<1>17. ASSUME StreamEnded(e) PROVE Goal
  BY <1>a, <1>17, DetachType DEF TypeOK, StreamEnded, maps, unchangedByWorker, FreedBy
<1>18. ASSUME RemoveStream(e) PROVE Goal
  BY <1>a, <1>18, DetachType DEF TypeOK, RemoveStream, maps, unchangedByWorker, FreedBy
<1>19. ASSUME Dial(e) PROVE Goal
  BY <1>a, <1>19, ResourceType DEF TypeOK, Dial, unchangedByWorker
<1>20. ASSUME AskCredential(e) PROVE Goal
  BY <1>a, <1>20, ResourceType DEF TypeOK, AskCredential, maps, unchangedByWorker
<1>21. ASSUME ShowPin(e) PROVE Goal
  BY <1>a, <1>21, ResourceType DEF TypeOK, ShowPin, maps, unchangedByWorker
<1>22. ASSUME PromptReady(e) PROVE Goal
  BY <1>a, <1>22, ResourceType DEF TypeOK, PromptReady, maps, unchangedByWorker
<1>23. ASSUME ReceiveCredential(e) PROVE Goal
  BY <1>a, <1>23, ResourceType DEF TypeOK, ReceiveCredential, maps, unchangedByWorker
<1>24. ASSUME WaitCancelled(e) PROVE Goal
  BY <1>a, <1>24, ResourceType DEF TypeOK, WaitCancelled, maps, unchangedByWorker
<1>25. ASSUME JoinGroup(e) PROVE Goal
  BY <1>a, <1>25, ResourceType DEF TypeOK, JoinGroup, maps, unchangedByWorker
<1>26. ASSUME PublishGroup(e) PROVE Goal
  BY <1>a, <1>26, ResourceType DEF TypeOK, PublishGroup, GroupRecord, PumpRecord
<1>27. ASSUME CaptureFails(e) PROVE Goal
  BY <1>a, <1>27, ResourceType DEF TypeOK, CaptureFails, PumpRecord
<1>28. ASSUME Attach(e) PROVE Goal
  BY <1>a, <1>28, ResourceType DEF TypeOK, Attach, maps, unchangedByWorker
<1> QED
  BY <1>1, <1>2, <1>3, <1>4, <1>5, <1>6, <1>7, <1>8, <1>9, <1>10, <1>11, <1>12, <1>13, <1>14, <1>15, <1>16, <1>17, <1>18, <1>19, <1>20, <1>21, <1>22, <1>23, <1>24, <1>25, <1>26, <1>27, <1>28
  DEF WorkerStep, ProtocolStep, LocalStep, CaptureStep

\* Every reachable state is well typed; in particular the credential channel
\* never holds two values, so the send of handleConnect cannot fill it.
THEOREM TypeCorrect == Spec => []TypeOK
PROOF
<1>1. Init => TypeOK
  <2> SUFFICES ASSUME Init PROVE TypeOK
    OBVIOUS
  <2>1. (CHOOSE t \in Targets : TRUE) \in Targets /\ (CHOOSE k \in Keys : TRUE) \in Keys
    BY TargetsAssumption
  <2>2. entry \in [Entries -> EntryRecord]
    BY <2>1 DEF Init, Stripped, FreshEntry, EntryRecord
  <2>3. group \in [Groups -> GroupRecord]
    BY <2>1 DEF Init, GroupRecord
  <2>4. worker \in [Entries -> WorkerRecord]
    BY DEF Init, Locals, WorkerRecord, WorkerPCs
  <2>5. pump \in [Groups -> PumpRecord]
    BY DEF Init, PumpRecord
  <2>6. QED BY <2>2, <2>3, <2>4, <2>5 DEF Init, TypeOK
<1>2. ASSUME TypeOK, [Next]_vars PROVE TypeOK'
  <2> USE TypeOK
  <2>a. \A a \in Actors : plan[a] \subseteq Resource
    BY DEF TypeOK
  <2>1. ASSUME NEW t \in Targets, NEW c \in BOOLEAN, Connect(t, c) PROVE TypeOK'
    <3>1. PICK e \in Entries :
             /\ streams' = [streams EXCEPT ![t] = e]
             /\ entry' = [entry EXCEPT ![e] = FreshEntry(t)]
             /\ worker' = [worker EXCEPT ![e].pc = "dial", ![e].cred = c]
             /\ open' = open \cup {Ctx(e)}
      BY <2>1 DEF Connect
    <3>2. FreshEntry(t) \in EntryRecord
      BY DEF FreshEntry, EntryRecord
    <3>3. entry' \in [Entries -> EntryRecord]
      BY <3>1, <3>2 DEF TypeOK
    <3>4. worker' \in [Entries -> WorkerRecord]
      <4>1. "dial" \in WorkerPCs /\ worker \in [Entries -> WorkerRecord]
        BY DEF WorkerPCs, TypeOK
      <4>2. QED BY <3>1, <4>1 DEF WorkerRecord
    <3>5. QED
      BY <2>1, <3>1, <3>3, <3>4, ResourceType DEF Connect, TypeOK, ClearLastError
  <2>2. ASSUME NEW t \in Targets, Submit(t) PROVE TypeOK'
    <3>1. PICK e \in Entries : entry[e].ch < 1 /\
             entry' = [entry EXCEPT ![e].state = "connecting", ![e].kind = "none", ![e].ch = @ + 1]
      BY <2>2 DEF Submit, Pending, TypeOK
    <3>2. entry[e].ch = 0 /\ entry \in [Entries -> EntryRecord]
      BY <3>1 DEF TypeOK, EntryRecord
    <3>3. entry' \in [Entries -> EntryRecord]
      BY <3>1, <3>2 DEF EntryRecord
    <3>4. QED BY <2>2, <3>3 DEF Submit, TypeOK, ClearLastError
  <2>3. ASSUME NEW r \in 1 .. MaxRequests, NEW t \in Targets, Disconnect(r, t) PROVE TypeOK'
    <3>1. Request(r) \in Actors /\ streams[t] \in Entries
      BY <2>3 DEF Actors, Disconnect, TypeOK
    <3>2. Detach({streams[t]}, FreedBy({streams[t]}), Request(r))
      BY <2>3 DEF Disconnect
    <3>3. {streams[t]} \in SUBSET Entries /\ FreedBy({streams[t]}) \in SUBSET Groups
      BY <3>1 DEF FreedBy
    <3>4. wg' \in Int
      BY <2>3 DEF Disconnect, TypeOK
    <3>5. UNCHANGED <<startMu, worker, pump, shutdown, lastError, open>>
      BY <2>3 DEF Disconnect
    <3>6. /\ streams' \in [Targets -> Entries \cup {Nil}]
          /\ groups' \in [Keys -> Groups \cup {Nil}]
          /\ entry' \in [Entries -> EntryRecord]
          /\ group' \in [Groups -> GroupRecord]
          /\ plan' \in [Actors -> SUBSET Resource]
      BY <3>1, <3>2, <3>3, DetachType
    <3>7. QED
      BY <3>4, <3>5, <3>6 DEF TypeOK
  <2>4. ASSUME NEW r \in 1 .. MaxRequests, DisconnectAll(r) PROVE TypeOK'
    <3>1. Request(r) \in Actors
      BY DEF Actors
    <3>2. Detach(Active, {g \in Groups : Published(g)}, Request(r))
      BY <2>4 DEF DisconnectAll, DetachAll
    <3>3. Active \in SUBSET Entries /\ {g \in Groups : Published(g)} \in SUBSET Groups
      BY DEF Active
    <3>4. wg' \in Int
      BY <2>4 DEF DisconnectAll, TypeOK
    <3>5. UNCHANGED <<startMu, worker, pump, shutdown, lastError, open>>
      BY <2>4 DEF DisconnectAll
    <3>6. /\ streams' \in [Targets -> Entries \cup {Nil}]
          /\ groups' \in [Keys -> Groups \cup {Nil}]
          /\ entry' \in [Entries -> EntryRecord]
          /\ group' \in [Groups -> GroupRecord]
          /\ plan' \in [Actors -> SUBSET Resource]
      BY <3>1, <3>2, <3>3, DetachType
    <3>7. QED
      BY <3>4, <3>5, <3>6 DEF TypeOK
  <2>5. CASE Shutdown
    <3>1. Stopper \in Actors
      BY DEF Actors
    <3>2. QED
      BY <2>5, <3>1, DetachType DEF Shutdown, DetachAll, TypeOK, Active
  <2>6. CASE ShutdownDone
    BY <2>6 DEF ShutdownDone, TypeOK, maps
  <2>7. ASSUME NEW a \in Actors, Clean(a) PROVE TypeOK'
    BY <2>7, <2>a DEF Clean, TypeOK, maps
  <2>8. ASSUME NEW e \in Entries, WorkerStep(e) PROVE TypeOK'
    BY <2>8, WorkerType, EntryType, WorkerRestType DEF TypeOK
  <2>9. ASSUME NEW g \in Groups, PumpStep(g) PROVE TypeOK'
    <3>1. CASE BroadcastEnds(g)
      BY <3>1 DEF BroadcastEnds, TypeOK, PumpRecord, maps
    <3>2. CASE FinishCaptureGroup(g)
      <4>1. Pump(g) \in Actors /\ UsersOf(g) \subseteq Entries
        BY DEF Actors, UsersOf, Active
      <4>2. pump' \in [Groups -> PumpRecord]
        BY <3>2 DEF FinishCaptureGroup, TypeOK, PumpRecord
      <4>3. QED
        BY <3>2, <4>1, <4>2, DetachType DEF FinishCaptureGroup, TypeOK, maps
    <3>3. CASE PumpExits(g)
      BY <3>3 DEF PumpExits, TypeOK, PumpRecord, maps
    <3>4. QED BY <2>9, <3>1, <3>2, <3>3 DEF PumpStep
  <2>10. CASE UNCHANGED vars
    BY <2>10 DEF vars, TypeOK
  <2>11. QED
    BY <1>2, <2>1, <2>2, <2>3, <2>4, <2>5, <2>6, <2>7, <2>8, <2>9, <2>10
    DEF Next, ControlStep, SubmitAnywhere
<1>3. QED BY <1>1, <1>2, PTL DEF Spec

-----------------------------------------------------------------------------
(***************************************************************************)
(* The maps and the objects they point at.                                  *)
(***************************************************************************)
\* A worker with one of these next steps has already lost its entry.
Finished == {"none", "abandon", "stopAudio", "exit", "gone"}

\* An entry or a group is published under its own target or key only, and its
\* goroutine exists.
MapsOwn ==
    /\ \A t \in Targets : streams[t] # Nil =>
          entry[streams[t]].target = t /\ worker[streams[t]].pc \notin Finished
    /\ \A k \in Keys : groups[k] # Nil =>
          group[groups[k]].key = k /\ pump[groups[k]].pc # "none"

MapsInv == TypeOK /\ MapsOwn /\ DetachedIsEmpty /\ ShutdownIsFinal

\* DetachedIsEmpty in terms of the fields of the entry.
LEMMA EmptyFields ==
    ASSUME NEW e \in Entries
    PROVE  Held(e) = {} <=> /\ ~entry[e].cancel /\ ~entry[e].sink
                            /\ ~entry[e].session /\ entry[e].client = Nil
PROOF
  BY DEF Held

\* The steps of a worker that touch neither the maps nor a capture group.
Quiet(e) ==
    \/ Dial(e) \/ GetInfo(e) \/ Verify(e) \/ Pair(e) \/ PairPin(e) \/ AskCredential(e)
    \/ ShowPin(e) \/ PromptReady(e) \/ ReceiveCredential(e) \/ WaitCancelled(e)
    \/ Setup(e) \/ PrepareAudio(e) \/ RefuseCapture(e) \/ Attach(e) \/ AttachObsolete(e)
    \/ StartAudio(e) \/ StreamFramesReturns(e) \/ StopAudio(e)

\* What all of them have in common.
QuietEffect(e) ==
    /\ UNCHANGED <<streams, groups, group, startMu, pump, shutdown, wg, lastError>>
    /\ \A f \in Entries : f # e => worker'[f] = worker[f] /\ entry'[f] = entry[f]
    /\ entry'[e].target = entry[e].target /\ entry'[e].group = entry[e].group
    /\ worker'[e].bc = worker[e].bc
    /\ ~Live(e) => /\ entry'[e].cancel = entry[e].cancel /\ entry'[e].sink = entry[e].sink
                   /\ entry'[e].session = entry[e].session
                   /\ entry'[e].client = entry[e].client
    /\ worker[e].pc \notin {"none", "gone", "startCapture", "discarded"}
    /\ worker'[e].pc \notin {"none", "gone", "startCapture", "discarded"}
    /\ worker'[e].pc = "prepare" => worker[e].bc = Nil
    /\ worker'[e].pc \in Finished => ~Live(e)

LEMMA QuietSteps ==
    ASSUME MapsInv, NEW e \in Entries, Quiet(e)
    PROVE  QuietEffect(e)
PROOF
<1>a. /\ worker \in [Entries -> WorkerRecord] /\ entry \in [Entries -> EntryRecord]
      /\ worker[e].pc = "stopAudio" => ~Live(e)
  <2>1. TypeOK
    BY DEF MapsInv
  <2>2. entry[e].target \in Targets /\ e # Nil
    BY <2>1, BoundsAssumption DEF TypeOK, EntryRecord, Entries
  <2>3. QED BY <2>1, <2>2 DEF MapsInv, MapsOwn, TypeOK, Live, Finished
<1>b. ASSUME NEW p \in {"verify", "pair"}, At(e, p),
             PairOutcome(e) \/ Reconnect(e, "pair"),
             UNCHANGED <<maps, startMu, plan, lastError, unchangedByWorker>>
      PROVE  QuietEffect(e)
  <2>1. \/ \E q \in {"setup", "fail"} : worker' = [worker EXCEPT ![e].pc = q]
        \/ \E q \in {"askPin", "askPassword", "dial"}, n \in {"setup", "pairPin", "pair"} :
              worker' = [worker EXCEPT ![e].pc = q, ![e].next = n]
    BY <1>b DEF PairOutcome, Goto, Ask, Reconnect
  <2>2. /\ worker'[e].pc \in {"setup", "fail", "askPin", "askPassword", "dial"}
        /\ worker'[e].bc = worker[e].bc
        /\ \A f \in Entries : f # e => worker'[f] = worker[f]
    BY <1>a, <2>1 DEF WorkerRecord
  <2>3. QED
    BY <1>a, <1>b, <2>2 DEF QuietEffect, At, maps, unchangedByWorker, Finished
<1>1. ASSUME Dial(e) PROVE QuietEffect(e)
  BY <1>a, <1>1 DEF Dial, QuietEffect, At, Goto, WorkerRecord, EntryRecord, maps, unchangedByWorker, Finished
<1>2. ASSUME GetInfo(e) PROVE QuietEffect(e)
  BY <1>a, <1>2 DEF GetInfo, QuietEffect, At, Goto, WorkerRecord, EntryRecord, maps, unchangedByWorker, Finished
<1>3. ASSUME Verify(e) PROVE QuietEffect(e)
  BY <1>b, <1>3 DEF Verify
<1>4. ASSUME Pair(e) PROVE QuietEffect(e)
  BY <1>b, <1>4 DEF Pair
<1>5. ASSUME PairPin(e) PROVE QuietEffect(e)
  BY <1>a, <1>5 DEF PairPin, QuietEffect, At, Goto, WorkerRecord, EntryRecord, maps, unchangedByWorker, Finished, Ask
<1>6. ASSUME AskCredential(e) PROVE QuietEffect(e)
  BY <1>a, <1>6 DEF AskCredential, QuietEffect, At, Goto, WorkerRecord, EntryRecord, maps, unchangedByWorker, Finished
<1>7. ASSUME ShowPin(e) PROVE QuietEffect(e)
  BY <1>a, <1>7 DEF ShowPin, QuietEffect, At, Goto, WorkerRecord, EntryRecord, maps, unchangedByWorker, Finished
<1>8. ASSUME PromptReady(e) PROVE QuietEffect(e)
  BY <1>a, <1>8 DEF PromptReady, QuietEffect, At, Goto, WorkerRecord, EntryRecord, maps, unchangedByWorker, Finished
<1>9. ASSUME ReceiveCredential(e) PROVE QuietEffect(e)
  BY <1>a, <1>9 DEF ReceiveCredential, QuietEffect, At, Goto, WorkerRecord, EntryRecord, maps, unchangedByWorker, Finished
<1>10. ASSUME WaitCancelled(e) PROVE QuietEffect(e)
  BY <1>a, <1>10 DEF WaitCancelled, QuietEffect, At, Goto, WorkerRecord, EntryRecord, maps, unchangedByWorker, Finished
<1>11. ASSUME Setup(e) PROVE QuietEffect(e)
  BY <1>a, <1>11 DEF Setup, QuietEffect, At, Goto, WorkerRecord, EntryRecord, maps, unchangedByWorker, Finished
<1>12. ASSUME PrepareAudio(e) PROVE QuietEffect(e)
  BY <1>a, <1>12 DEF PrepareAudio, QuietEffect, At, Goto, WorkerRecord, EntryRecord, maps, unchangedByWorker, Finished
<1>13. ASSUME RefuseCapture(e) PROVE QuietEffect(e)
  BY <1>a, <1>13 DEF RefuseCapture, QuietEffect, At, Goto, WorkerRecord, EntryRecord, maps, unchangedByWorker, Finished
<1>14. ASSUME Attach(e) PROVE QuietEffect(e)
  BY <1>a, <1>14 DEF Attach, QuietEffect, At, Goto, WorkerRecord, EntryRecord, maps, unchangedByWorker, Finished
<1>15. ASSUME AttachObsolete(e) PROVE QuietEffect(e)
  BY <1>a, <1>15 DEF AttachObsolete, QuietEffect, At, Goto, WorkerRecord, EntryRecord, maps, unchangedByWorker, Finished
<1>16. ASSUME StartAudio(e) PROVE QuietEffect(e)
  BY <1>a, <1>16 DEF StartAudio, QuietEffect, At, Goto, WorkerRecord, EntryRecord, maps, unchangedByWorker, Finished
<1>17. ASSUME StreamFramesReturns(e) PROVE QuietEffect(e)
  BY <1>a, <1>17 DEF StreamFramesReturns, QuietEffect, At, Goto, WorkerRecord, EntryRecord, maps, unchangedByWorker, Finished
<1>18. ASSUME StopAudio(e) PROVE QuietEffect(e)
  BY <1>a, <1>18 DEF StopAudio, QuietEffect, At, Goto, WorkerRecord, EntryRecord, maps, unchangedByWorker, Finished
<1> QED
  BY <1>1, <1>2, <1>3, <1>4, <1>5, <1>6, <1>7, <1>8, <1>9, <1>10, <1>11, <1>12, <1>13, <1>14, <1>15, <1>16, <1>17, <1>18
  DEF Quiet

\* What a detachment does to the maps: exactly E and G disappear from them.
DetachEffect(E, G) ==
    /\ \A e \in Entries : entry'[e].target = entry[e].target
    /\ \A e \in Entries : e \notin E => entry'[e] = entry[e]
    /\ \A e \in E : Held(e)' = {} /\ entry'[e].group = Nil
    /\ \A g \in Groups : group'[g].key = group[g].key
    /\ \A g \in Groups : g \notin G => group'[g] = group[g]
    /\ \A t \in Targets : streams'[t] # Nil =>
          streams'[t] = streams[t] /\ streams[t] \notin E
    /\ \A k \in Keys : groups'[k] # Nil =>
          groups'[k] = groups[k] /\ groups[k] \notin G
    /\ \A e \in Entries : Live(e)' <=> (Live(e) /\ e \notin E)
    /\ \A g \in Groups : Published(g)' <=> (Published(g) /\ g \notin G)

LEMMA DetachSteps ==
    ASSUME MapsInv, NEW E \in SUBSET Active, NEW G \in SUBSET Groups,
           NEW a \in Actors, Detach(E, G, a)
    PROVE  DetachEffect(E, G)
PROOF
<1>a. /\ entry \in [Entries -> EntryRecord] /\ group \in [Groups -> GroupRecord]
      /\ streams \in [Targets -> Entries \cup {Nil}] /\ groups \in [Keys -> Groups \cup {Nil}]
      /\ E \subseteq Entries
      /\ Nil \notin Entries /\ Nil \notin Groups
  BY BoundsAssumption DEF MapsInv, TypeOK, Active, Entries, Groups
<1>1. ASSUME NEW e \in Entries PROVE /\ entry'[e].target = entry[e].target
                                     /\ e \notin E => entry'[e] = entry[e]
  <2>1. entry'[e] = IF e \in E THEN Stripped(entry[e]) ELSE entry[e]
    BY DEF Detach
  <2>2. QED BY <1>a, <2>1 DEF Stripped, EntryRecord
<1>2. ASSUME NEW e \in E PROVE Held(e)' = {} /\ entry'[e].group = Nil
  <2>1. entry'[e] = Stripped(entry[e]) /\ entry[e] \in EntryRecord
    BY <1>a DEF Detach
  <2>2. /\ ~entry'[e].cancel /\ ~entry'[e].sink /\ ~entry'[e].session
        /\ entry'[e].client = Nil /\ entry'[e].group = Nil
    BY <2>1 DEF Stripped, EntryRecord
  <2>3. QED BY <2>2 DEF Held
<1>3. ASSUME NEW g \in Groups PROVE /\ group'[g].key = group[g].key
                                    /\ g \notin G => group'[g] = group[g]
  BY <1>a DEF Detach, GroupStripped, GroupRecord
<1>4. /\ \A t \in Targets : streams'[t] = IF streams[t] \in E THEN Nil ELSE streams[t]
      /\ \A k \in Keys : groups'[k] = IF groups[k] \in G THEN Nil ELSE groups[k]
  BY DEF Detach
<1>5. ASSUME NEW e \in Entries PROVE Live(e)' <=> (Live(e) /\ e \notin E)
  <2>1. entry[e].target \in Targets
    BY <1>a DEF EntryRecord
  <2>2. QED BY <1>a, <1>1, <1>4, <2>1 DEF Live
<1>6. ASSUME NEW g \in Groups PROVE Published(g)' <=> (Published(g) /\ g \notin G)
  <2>1. group[g].key \in Keys
    BY <1>a DEF GroupRecord
  <2>2. QED BY <1>a, <1>3, <1>4, <2>1 DEF Published
<1> QED BY <1>a, <1>1, <1>2, <1>3, <1>4, <1>5, <1>6 DEF DetachEffect

\* So it keeps the maps in order, if the workers of the remaining entries go on.
LEMMA DetachKeepsMaps ==
    ASSUME MapsInv, NEW E \in SUBSET Active, NEW G \in SUBSET Groups,
           NEW a \in Actors, Detach(E, G, a),
           \A e \in Entries : Live(e) /\ e \notin E => worker'[e].pc \notin Finished,
           \A g \in Groups : pump[g].pc # "none" => pump'[g].pc # "none"
    PROVE  MapsOwn' /\ DetachedIsEmpty' /\ (shutdown' = shutdown => ShutdownIsFinal')
PROOF
<1>a. /\ streams \in [Targets -> Entries \cup {Nil}] /\ groups \in [Keys -> Groups \cup {Nil}]
      /\ Nil \notin Entries /\ Nil \notin Groups
  BY BoundsAssumption DEF MapsInv, TypeOK, Entries, Groups
<1>b. DetachEffect(E, G)
  BY DetachSteps
<1>1. MapsOwn'
  <2>1. ASSUME NEW t \in Targets, streams'[t] # Nil
        PROVE  entry'[streams'[t]].target = t /\ worker'[streams'[t]].pc \notin Finished
    <3>1. streams'[t] = streams[t] /\ streams[t] \notin E /\ streams[t] \in Entries
      BY <1>a, <2>1, <1>b DEF DetachEffect
    <3>2. entry[streams[t]].target = t
      BY <2>1, <3>1 DEF MapsInv, MapsOwn
    <3>3. QED BY <3>1, <3>2, <1>b DEF DetachEffect, Live
  <2>2. ASSUME NEW k \in Keys, groups'[k] # Nil
        PROVE  group'[groups'[k]].key = k /\ pump'[groups'[k]].pc # "none"
    <3>1. groups'[k] = groups[k] /\ groups[k] \in Groups
      BY <1>a, <2>2, <1>b DEF DetachEffect
    <3>2. QED BY <2>2, <3>1, <1>b DEF DetachEffect, MapsInv, MapsOwn
  <2>3. QED BY <2>1, <2>2 DEF MapsOwn
<1>2. DetachedIsEmpty'
  <2>1. ASSUME NEW e \in Entries, ~Live(e)' PROVE Held(e)' = {} /\ entry'[e].group = Nil
    <3>1. CASE e \in E
      BY <3>1, <1>b DEF DetachEffect
    <3>2. CASE e \notin E
      <4>1. Held(e) = {} /\ entry[e].group = Nil /\ entry'[e] = entry[e]
        BY <2>1, <3>2, <1>b DEF DetachEffect, MapsInv, DetachedIsEmpty
      <4>2. QED BY <4>1 DEF Held
    <3>3. QED BY <3>1, <3>2
  <2>2. QED BY <2>1 DEF DetachedIsEmpty
<1>3. ASSUME shutdown' = shutdown PROVE ShutdownIsFinal'
  BY <1>3, <1>b DEF DetachEffect, MapsInv, ShutdownIsFinal, ShuttingDown
<1> QED BY <1>1, <1>2, <1>3

\* A step that links nothing new and leaves detached entries alone keeps the
\* maps in order, too.
MapsFrame ==
    /\ streams' = streams /\ shutdown' = shutdown
    /\ \A k \in Keys : groups'[k] \in {Nil, groups[k]}
    /\ \A g \in Groups : group'[g].key = group[g].key
                         /\ (pump[g].pc # "none" => pump'[g].pc # "none")
    /\ \A e \in Entries :
          /\ entry'[e].target = entry[e].target
          /\ Live(e) => worker'[e].pc \notin Finished
          /\ ~Live(e) => /\ entry'[e].cancel = entry[e].cancel
                         /\ entry'[e].sink = entry[e].sink
                         /\ entry'[e].session = entry[e].session
                         /\ entry'[e].client = entry[e].client
                         /\ entry'[e].group \in {Nil, entry[e].group}

LEMMA MapsFrameKeeps ==
    ASSUME MapsInv, MapsFrame
    PROVE  MapsOwn' /\ DetachedIsEmpty' /\ ShutdownIsFinal'
PROOF
<1>a. /\ streams \in [Targets -> Entries \cup {Nil}] /\ groups \in [Keys -> Groups \cup {Nil}]
  BY DEF MapsInv, TypeOK
<1>1. MapsOwn'
  <2>1. ASSUME NEW t \in Targets, streams'[t] # Nil
        PROVE  entry'[streams'[t]].target = t /\ worker'[streams'[t]].pc \notin Finished
    <3>1. streams'[t] = streams[t] /\ streams[t] \in Entries /\ entry[streams[t]].target = t
      BY <1>a, <2>1 DEF MapsInv, MapsOwn, MapsFrame
    <3>2. QED BY <3>1 DEF Live, MapsFrame
  <2>2. ASSUME NEW k \in Keys, groups'[k] # Nil
        PROVE  group'[groups'[k]].key = k /\ pump'[groups'[k]].pc # "none"
    BY <1>a, <2>2 DEF MapsInv, MapsOwn, MapsFrame
  <2>3. QED BY <2>1, <2>2 DEF MapsOwn
<1>2. DetachedIsEmpty'
  <2>1. ASSUME NEW e \in Entries, ~Live(e)' PROVE Held(e)' = {} /\ entry'[e].group = Nil
    <3>1. ~Live(e)
      BY <2>1 DEF Live, MapsFrame
    <3>2. Held(e) = {} /\ entry[e].group = Nil
      BY <3>1 DEF MapsInv, DetachedIsEmpty
    <3>3. QED BY <3>1, <3>2 DEF Held, MapsFrame
  <2>2. QED BY <2>1 DEF DetachedIsEmpty
<1>3. ShutdownIsFinal'
  BY DEF MapsInv, ShutdownIsFinal, ShuttingDown, MapsFrame
<1> QED BY <1>1, <1>2, <1>3

\* The maps and the objects they point at agree in every reachable state, what
\* was detached holds nothing, and Shutdown is final.
LEMMA MapsStep ==
    ASSUME MapsInv, TypeOK', [Next]_vars
    PROVE  MapsInv'
PROOF
<1> DEFINE Goal == MapsOwn' /\ DetachedIsEmpty' /\ ShutdownIsFinal'
<1> SUFFICES Goal
  BY DEF MapsInv
<1>a. /\ TypeOK
      /\ entry \in [Entries -> EntryRecord] /\ group \in [Groups -> GroupRecord]
      /\ worker \in [Entries -> WorkerRecord] /\ pump \in [Groups -> PumpRecord]
      /\ streams \in [Targets -> Entries \cup {Nil}] /\ groups \in [Keys -> Groups \cup {Nil}]
      /\ Nil \notin Entries /\ Nil \notin Groups
      /\ \A e \in Entries : entry[e].target \in Targets
      /\ \A e \in Entries : Live(e) => worker[e].pc \notin Finished
  <2>1. TypeOK /\ Nil \notin Entries /\ Nil \notin Groups
    BY BoundsAssumption DEF MapsInv, Entries, Groups
  <2>2. \A e \in Entries : entry[e].target \in Targets
    BY <2>1 DEF TypeOK, EntryRecord
  <2>3. QED BY <2>1, <2>2 DEF TypeOK, MapsInv, MapsOwn, Live
<1>b. \A e \in Active : e \in Entries /\ Live(e)
  BY DEF Active
\* control requests
<1>1. ASSUME NEW t \in Targets, NEW c \in BOOLEAN, Connect(t, c) PROVE Goal
  <2>1. PICK e \in Entries :
           /\ worker[e].pc = "none"
           /\ streams' = [streams EXCEPT ![t] = e]
           /\ entry' = [entry EXCEPT ![e] = FreshEntry(t)]
           /\ worker' = [worker EXCEPT ![e].pc = "dial", ![e].cred = c]
    BY <1>1 DEF Connect
  <2>2. streams[t] = Nil /\ UNCHANGED <<groups, group, pump, shutdown>> /\ ~ShuttingDown
    BY <1>1 DEF Connect
  <2>3. /\ entry'[e].target = t /\ worker'[e].pc = "dial"
        /\ \A f \in Entries : f # e => entry'[f] = entry[f] /\ worker'[f] = worker[f]
    BY <1>a, <2>1 DEF FreshEntry, WorkerRecord, EntryRecord
  <2>4. \A u \in Targets : u # t => streams'[u] = streams[u] /\ streams[u] # e
    BY <1>a, <2>1 DEF MapsInv, MapsOwn, Finished
  <2>5. MapsOwn'
    BY <1>a, <2>1, <2>2, <2>3, <2>4 DEF MapsInv, MapsOwn, Finished
  <2>6. DetachedIsEmpty'
    <3>1. ASSUME NEW f \in Entries, ~Live(f)' PROVE Held(f)' = {} /\ entry'[f].group = Nil
      <4>1. f # e
        BY <1>a, <2>1, <2>3, <3>1 DEF Live
      <4>2. ~Live(f) /\ entry'[f] = entry[f]
        BY <1>a, <2>2, <2>3, <2>4, <3>1, <4>1 DEF Live
      <4>3. Held(f) = {} /\ entry[f].group = Nil
        BY <4>2 DEF MapsInv, DetachedIsEmpty
      <4>4. QED BY <4>2, <4>3 DEF Held
    <3>2. QED BY <3>1 DEF DetachedIsEmpty
  <2>7. QED BY <2>2, <2>5, <2>6 DEF ShutdownIsFinal, ShuttingDown
<1>2. ASSUME NEW t \in Targets, Submit(t) PROVE Goal
  <2>1. streams[t] \in Entries
    BY <1>a, <1>2 DEF Submit, Pending
  <2>2. MapsFrame
    BY <1>a, <1>2, <2>1 DEF Submit, MapsFrame, EntryRecord
  <2>3. QED BY <2>2, MapsFrameKeeps
<1>3. ASSUME NEW r \in 1 .. MaxRequests, NEW t \in Targets, Disconnect(r, t) PROVE Goal
  <2>1. Detach({streams[t]}, FreedBy({streams[t]}), Request(r)) /\ streams[t] # Nil
        /\ UNCHANGED <<worker, pump, shutdown>>
    BY <1>3 DEF Disconnect
  <2>2. {streams[t]} \in SUBSET Active /\ FreedBy({streams[t]}) \in SUBSET Groups
        /\ Request(r) \in Actors
    BY <1>a, <2>1 DEF Active, Live, FreedBy, Actors, MapsInv, MapsOwn
  <2>3. QED BY <1>a, <2>1, <2>2, DetachKeepsMaps
<1>4. ASSUME NEW r \in 1 .. MaxRequests, DisconnectAll(r) PROVE Goal
  <2>1. Detach(Active, {g \in Groups : Published(g)}, Request(r))
        /\ UNCHANGED <<worker, pump, shutdown>>
    BY <1>4 DEF DisconnectAll, DetachAll
  <2>2. {g \in Groups : Published(g)} \in SUBSET Groups /\ Request(r) \in Actors
    BY DEF Actors
  <2>3. QED BY <1>a, <2>1, <2>2, DetachKeepsMaps
<1>5. CASE Shutdown
  <2> DEFINE G == {g \in Groups : Published(g)}
  <2>1. Detach(Active, G, Stopper) /\ UNCHANGED <<worker, pump>>
    BY <1>5 DEF Shutdown, DetachAll
  <2>2. G \in SUBSET Groups /\ Stopper \in Actors
    BY DEF Actors
  <2>3. MapsOwn' /\ DetachedIsEmpty' /\ DetachEffect(Active, G)
    BY <1>a, <2>1, <2>2, DetachKeepsMaps, DetachSteps
  <2>4. ASSUME NEW t \in Targets PROVE streams'[t] = Nil
    <3>1. streams[t] # Nil => streams[t] \in Active
      BY <1>a DEF MapsInv, MapsOwn, Active, Live
    <3>2. QED BY <2>3, <3>1 DEF DetachEffect
  <2>5. ASSUME NEW k \in Keys PROVE groups'[k] = Nil
    <3>1. groups[k] # Nil => groups[k] \in G
      BY <1>a DEF MapsInv, MapsOwn, Published
    <3>2. QED BY <2>3, <3>1 DEF DetachEffect
  <2>6. QED BY <2>3, <2>4, <2>5 DEF ShutdownIsFinal
<1>6. CASE ShutdownDone
  <2>1. streams' = streams /\ groups' = groups
    BY <1>6 DEF ShutdownDone, maps
  <2>2. ShutdownIsFinal'
    BY <1>6, <2>1 DEF ShutdownDone, ShutdownIsFinal, ShuttingDown, MapsInv
  <2>3. MapsOwn' /\ DetachedIsEmpty'
    BY <1>6 DEF ShutdownDone, maps, MapsInv, MapsOwn, DetachedIsEmpty, Live, Held
  <2>4. QED BY <2>2, <2>3
<1>7. ASSUME NEW a \in Actors, Clean(a) PROVE Goal
  BY <1>a, <1>7, MapsFrameKeeps DEF Clean, maps, MapsFrame
\* workers
<1>8. ASSUME NEW e \in Entries, Quiet(e) PROVE Goal
  <2>1. QuietEffect(e)
    BY <1>8, QuietSteps
  <2>2. MapsFrame
    BY <1>a, <2>1 DEF QuietEffect, MapsFrame
  <2>3. QED BY <2>2, MapsFrameKeeps
<1>9. ASSUME NEW e \in Entries, JoinGroup(e) PROVE Goal
  <2>1. MapsFrame
    BY <1>a, <1>9 DEF JoinGroup, Goto, MapsFrame, EntryRecord, WorkerRecord, Finished,
                      unchangedByWorker
  <2>2. QED BY <2>1, MapsFrameKeeps
<1>10. ASSUME NEW e \in Entries, PublishGroup(e) PROVE Goal
  <2>1. PICK k \in Keys, g \in Groups :
           /\ pump[g].pc = "none"
           /\ groups' = [groups EXCEPT ![k] = g]
           /\ group' = [group EXCEPT ![g] = [key |-> k, cancel |-> TRUE,
                                             capture |-> FALSE, broadcast |-> FALSE]]
           /\ entry' = [entry EXCEPT ![e].group = g]
           /\ pump' = [pump EXCEPT ![g].pc = "starting"]
           /\ worker' = [worker EXCEPT ![e].pc = "startCapture", ![e].bc = g]
    BY <1>10 DEF PublishGroup
  <2>2. Live(e) /\ streams' = streams /\ shutdown' = shutdown
    BY <1>10 DEF PublishGroup
  <2>3. /\ \A f \in Entries : /\ entry'[f].target = entry[f].target
                              /\ Live(f) => worker'[f].pc \notin Finished
                              /\ f # e => entry'[f] = entry[f]
        /\ \A h \in Groups : /\ h # g => group'[h] = group[h] /\ pump'[h] = pump[h]
        /\ group'[g].key = k /\ pump'[g].pc = "starting"
        /\ \A l \in Keys : l # k => groups'[l] = groups[l] /\ groups[l] # g
    BY <1>a, <2>1 DEF EntryRecord, WorkerRecord, GroupRecord, PumpRecord, Finished,
                      MapsInv, MapsOwn
  <2>4. MapsOwn'
    <3>1. ASSUME NEW t \in Targets, streams'[t] # Nil
          PROVE  entry'[streams'[t]].target = t /\ worker'[streams'[t]].pc \notin Finished
      BY <1>a, <2>2, <2>3, <3>1 DEF MapsInv, MapsOwn, Live
    <3>2. ASSUME NEW l \in Keys, groups'[l] # Nil
          PROVE  group'[groups'[l]].key = l /\ pump'[groups'[l]].pc # "none"
      BY <1>a, <2>1, <2>3, <3>2 DEF MapsInv, MapsOwn
    <3>3. QED BY <3>1, <3>2 DEF MapsOwn
  <2>5. DetachedIsEmpty'
    <3>1. ASSUME NEW f \in Entries, ~Live(f)' PROVE Held(f)' = {} /\ entry'[f].group = Nil
      <4>1. ~Live(f) /\ f # e /\ entry'[f] = entry[f]
        BY <2>2, <2>3, <3>1 DEF Live
      <4>2. Held(f) = {} /\ entry[f].group = Nil
        BY <4>1 DEF MapsInv, DetachedIsEmpty
      <4>3. QED BY <4>1, <4>2 DEF Held
    <3>2. QED BY <3>1 DEF DetachedIsEmpty
  <2>6. ShutdownIsFinal'
    <3>1. ~ShuttingDown
      BY <1>a, <2>2 DEF Live, MapsInv, ShutdownIsFinal
    <3>2. QED BY <2>2, <3>1 DEF ShutdownIsFinal, ShuttingDown
  <2>7. QED BY <2>4, <2>5, <2>6
<1>11. ASSUME NEW e \in Entries, CaptureFails(e) PROVE Goal
  <2>1. MapsFrame
    BY <1>a, <1>11 DEF CaptureFails, Goto, MapsFrame, EntryRecord, WorkerRecord, PumpRecord,
                       Finished
  <2>2. QED BY <2>1, MapsFrameKeeps
<1>12. ASSUME NEW e \in Entries, PublishCapture(e) PROVE Goal
  <2>1. MapsFrame
    BY <1>a, <1>12 DEF PublishCapture, Goto, MapsFrame, WorkerRecord, PumpRecord, GroupRecord,
                       Finished
  <2>2. QED BY <2>1, MapsFrameKeeps
<1>13. ASSUME NEW e \in Entries, DiscardCapture(e) PROVE Goal
  <2>1. MapsFrame
    BY <1>a, <1>13 DEF DiscardCapture, Goto, MapsFrame, WorkerRecord, PumpRecord, Finished, maps
  <2>2. QED BY <2>1, MapsFrameKeeps
<1>14. ASSUME NEW e \in Entries, CaptureDiscarded(e) PROVE Goal
  <2>1. MapsFrame
    BY <1>a, <1>14 DEF CaptureDiscarded, Goto, MapsFrame, WorkerRecord, Finished, maps,
                       unchangedByWorker
  <2>2. QED BY <2>1, MapsFrameKeeps
<1>15. ASSUME NEW e \in Entries, Abandon(e) PROVE Goal
  <2> DEFINE G == {g \in Groups : g = entry[e].group /\ UsersOf(g) = {} /\ Published(g)}
  <2>1. Detach({}, G, Worker(e)) /\ Goto(e, "exit") /\ UNCHANGED <<pump, shutdown>>
        /\ worker[e].pc = "abandon"
    BY <1>15 DEF Abandon, At, unchangedByWorker
  <2>2. {} \in SUBSET Active /\ G \in SUBSET Groups /\ Worker(e) \in Actors
    BY DEF Actors
  <2>3. \A f \in Entries : Live(f) => worker'[f].pc \notin Finished
    BY <1>a, <2>1 DEF Goto, WorkerRecord, Finished
  <2>4. QED BY <2>1, <2>2, <2>3, DetachKeepsMaps
<1>16. ASSUME NEW e \in Entries, StreamEnded(e) \/ RemoveStream(e) PROVE Goal
  <2>1. /\ worker' = [worker EXCEPT ![e].pc = worker'[e].pc] /\ UNCHANGED <<pump, shutdown>>
        /\ Live(e) => Detach({e}, FreedBy({e}), Worker(e))
        /\ ~Live(e) => UNCHANGED maps
    BY <1>a, <1>16 DEF StreamEnded, RemoveStream, Goto, unchangedByWorker, WorkerRecord
  <2>2. \A f \in Entries : f # e => worker'[f] = worker[f]
    BY <1>a, <2>1 DEF WorkerRecord
  <2>3. CASE Live(e)
    <3>1. {e} \in SUBSET Active /\ FreedBy({e}) \in SUBSET Groups /\ Worker(e) \in Actors
      BY <2>3 DEF Active, FreedBy, Actors
    <3>2. QED BY <1>a, <2>1, <2>2, <2>3, <3>1, DetachKeepsMaps
  <2>4. CASE ~Live(e)
    <3>1. MapsFrame
      BY <1>a, <2>1, <2>2, <2>4 DEF MapsFrame, maps
    <3>2. QED BY <3>1, MapsFrameKeeps
  <2>5. QED BY <2>3, <2>4
<1>17. ASSUME NEW e \in Entries, Exit(e) PROVE Goal
  <2>1. /\ worker[e].pc = "exit" /\ UNCHANGED <<maps, pump, shutdown>>
        /\ \A f \in Entries : f # e => worker'[f] = worker[f]
    BY <1>a, <1>17 DEF Exit, At
  <2>2. MapsFrame
    BY <1>a, <2>1 DEF MapsFrame, maps, Finished
  <2>3. QED BY <2>2, MapsFrameKeeps
\* pumps
<1>18. ASSUME NEW g \in Groups, BroadcastEnds(g) \/ PumpExits(g) PROVE Goal
  <2>1. MapsFrame
    BY <1>a, <1>18 DEF BroadcastEnds, PumpExits, MapsFrame, maps, PumpRecord
  <2>2. QED BY <2>1, MapsFrameKeeps
<1>19. ASSUME NEW g \in Groups, FinishCaptureGroup(g) PROVE Goal
  <2>1. /\ UNCHANGED <<worker, shutdown>>
        /\ \A h \in Groups : pump[h].pc # "none" => pump'[h].pc # "none"
        /\ Detach(UsersOf(g), {g}, Pump(g)) \/ UNCHANGED maps
    BY <1>a, <1>19 DEF FinishCaptureGroup, PumpRecord
  <2>2. CASE Detach(UsersOf(g), {g}, Pump(g))
    <3>1. UsersOf(g) \in SUBSET Active /\ {g} \in SUBSET Groups /\ Pump(g) \in Actors
      BY DEF UsersOf, Actors
    <3>2. QED BY <1>a, <2>1, <2>2, <3>1, DetachKeepsMaps
  <2>3. CASE UNCHANGED maps
    <3>1. MapsFrame
      BY <1>a, <2>1, <2>3 DEF MapsFrame, maps
    <3>2. QED BY <3>1, MapsFrameKeeps
  <2>4. QED BY <2>1, <2>2, <2>3
<1>20. CASE UNCHANGED vars
  <2>1. MapsFrame
    BY <1>a, <1>20 DEF MapsFrame, vars
  <2>2. QED BY <2>1, MapsFrameKeeps
<1> HIDE DEF Goal
<1>21. ASSUME NEW e \in Entries, WorkerStep(e) PROVE Goal
  BY <1>21, <1>8, <1>9, <1>10, <1>11, <1>12, <1>13, <1>14, <1>15, <1>16, <1>17
  DEF WorkerStep, ProtocolStep, LocalStep, CaptureStep, Quiet
<1>22. ASSUME NEW g \in Groups, PumpStep(g) PROVE Goal
  BY <1>22, <1>18, <1>19 DEF PumpStep
<1> QED
  BY <1>1, <1>2, <1>3, <1>4, <1>5, <1>6, <1>7, <1>20, <1>21, <1>22
  DEF Next, ControlStep, SubmitAnywhere

\* The invariant of the maps, of which the theorems below are consequences.
THEOREM MapsAgree == Spec => []MapsInv
PROOF
<1>1. Init /\ TypeOK => MapsInv
  <2> SUFFICES ASSUME Init, TypeOK PROVE MapsInv
    OBVIOUS
  <2>1. /\ \A t \in Targets : streams[t] = Nil
        /\ \A k \in Keys : groups[k] = Nil
        /\ shutdown = "no"
    BY DEF Init
  <2>2. ASSUME NEW e \in Entries PROVE Held(e) = {} /\ entry[e].group = Nil
    <3>1. entry[e] = Stripped(FreshEntry(CHOOSE t \in Targets : TRUE))
      BY DEF Init
    <3>2. /\ ~entry[e].cancel /\ ~entry[e].sink /\ ~entry[e].session
          /\ entry[e].client = Nil /\ entry[e].group = Nil
      BY <3>1 DEF Stripped, FreshEntry
    <3>3. QED BY <3>2, EmptyFields
  <2>3. MapsOwn
    BY <2>1 DEF MapsOwn
  <2>4. DetachedIsEmpty
    BY <2>2 DEF DetachedIsEmpty
  <2>5. ShutdownIsFinal
    BY <2>1 DEF ShutdownIsFinal
  <2>6. QED BY <2>3, <2>4, <2>5 DEF MapsInv
<1>2. MapsInv /\ TypeOK' /\ [Next]_vars => MapsInv'
  BY MapsStep
<1>3. QED BY <1>1, <1>2, TypeCorrect, PTL DEF Spec

\* A detached entry holds nothing (DetachedIsEmpty): its worker can release
\* nothing twice and reach nothing of what replaced it.
THEOREM DetachedHoldsNothing == Spec => []DetachedIsEmpty
PROOF
<1>1. MapsInv => DetachedIsEmpty
  BY DEF MapsInv
<1>2. QED BY <1>1, MapsAgree, PTL

\* Once Shutdown has taken the maps, no request and no worker that is still
\* running adds a stream or a capture group again (ShutdownIsFinal).
THEOREM ShutdownStaysFinal == Spec => []ShutdownIsFinal
PROOF
<1>1. MapsInv => ShutdownIsFinal
  BY DEF MapsInv
<1>2. QED BY <1>1, MapsAgree, PTL

\* While Shutdown waits, no step adds to the WaitGroup.
LEMMA NoAddStep ==
    ASSUME MapsInv, [Next]_vars, ShuttingDown
    PROVE  wg' <= wg
PROOF
<1>1. /\ wg \in Int
      /\ Nil \notin Entries /\ Nil \notin Groups
      /\ \A e \in Entries : ~Live(e)
      /\ \A g \in Groups : ~Published(g)
      /\ \A t \in Targets : streams[t] = Nil
  <2>1. /\ \A t \in Targets : streams[t] = Nil
        /\ \A k \in Keys : groups[k] = Nil
        /\ wg \in Int
        /\ \A e \in Entries : entry[e].target \in Targets
        /\ \A g \in Groups : group[g].key \in Keys
        /\ Nil \notin Entries /\ Nil \notin Groups
    BY BoundsAssumption
    DEF MapsInv, TypeOK, ShutdownIsFinal, EntryRecord, GroupRecord, Entries, Groups
  <2>2. QED BY <2>1 DEF Live, Published
<1>2. ASSUME NEW r \in 1 .. MaxRequests, DisconnectAll(r) PROVE wg' <= wg
  <2>1. Active = {} /\ {g \in Groups : Published(g)} = {}
    BY <1>1 DEF Active
  <2>2. Request(r) \in Actors /\ plan \in [Actors -> SUBSET Resource]
    BY DEF Actors, MapsInv, TypeOK
  <2>3. plan'[Request(r)] = {}
    BY <1>2, <2>1, <2>2 DEF DisconnectAll, DetachAll, Detach
  <2>4. QED BY <1>1, <1>2, <2>3 DEF DisconnectAll
<1>3. ASSUME NEW e \in Entries, WorkerStep(e) PROVE wg' <= wg
  <2>1. ~PublishCapture(e)
    BY <1>1 DEF PublishCapture, StillWanted
  <2>2. CASE Exit(e)
    BY <1>1, <2>2 DEF Exit
  <2>3. CASE CaptureStep(e)
    BY <1>1, <2>1, <2>3 DEF CaptureStep, CaptureFails, DiscardCapture
  <2>4. CASE LocalStep(e) /\ ~Exit(e)
    BY <1>1, <2>4 DEF LocalStep, RefuseCapture, JoinGroup, PublishGroup, CaptureDiscarded,
       Attach, AttachObsolete, Abandon, StartAudio, StreamEnded, StopAudio, RemoveStream,
       unchangedByWorker
  <2>5. CASE ProtocolStep(e) \/ StreamFramesReturns(e)
    BY <1>1, <2>5 DEF ProtocolStep, StreamFramesReturns, Dial, GetInfo, Verify, Pair, PairPin,
       AskCredential, ShowPin, PromptReady, ReceiveCredential, WaitCancelled, Setup,
       PrepareAudio, unchangedByWorker
  <2>6. QED BY <1>3, <2>2, <2>3, <2>4, <2>5 DEF WorkerStep
<1>4. ASSUME NEW g \in Groups, PumpStep(g) PROVE wg' <= wg
  BY <1>1, <1>4 DEF PumpStep, BroadcastEnds, FinishCaptureGroup, PumpExits
<1>5. ASSUME NEW a \in Actors, Clean(a) PROVE wg' <= wg
  BY <1>1, <1>5 DEF Clean
<1>6. CASE Shutdown \/ ShutdownDone \/ UNCHANGED vars
  BY <1>1, <1>6 DEF Shutdown, ShutdownDone, vars
<1>7. ASSUME NEW t \in Targets PROVE /\ \A c \in BOOLEAN : ~Connect(t, c)
                                    /\ ~Submit(t)
                                    /\ \A r \in 1 .. MaxRequests : ~Disconnect(r, t)
  BY <1>1 DEF Connect, Submit, Disconnect
<1>8. QED BY <1>2, <1>3, <1>4, <1>5, <1>6, <1>7 DEF Next, ControlStep, SubmitAnywhere

\* Once Shutdown has begun streamWorkers.Add is never called (NoAddAfterShutdown):
\* its Wait cannot race an Add, and no goroutine escapes it.
THEOREM WaitNeverRacesAdd == Spec => NoAddAfterShutdown
PROOF
<1>1. MapsInv /\ [Next]_vars => [ShuttingDown => wg' <= wg]_vars
  BY NoAddStep
<1>2. QED BY <1>1, MapsAgree, PTL DEF Spec, NoAddAfterShutdown

-----------------------------------------------------------------------------
(* Capture groups that connections share.                                   *)

\* The workers that hold captureStartMu between two of their steps.
Starters == {"startCapture", "discarded"}

\* An entry refers to no group but the one its worker prepared, and the worker
\* prepares a group only once.
OwnGroup ==
    \A e \in Entries : /\ entry[e].group \in {Nil, worker[e].bc}
                       /\ worker[e].pc = "prepare" => worker[e].bc = Nil

\* captureStartMu has at most one holder, and the group it starts is nobody
\* else's.
Starting ==
    /\ startMu # Nil => worker[startMu].pc \in Starters
    /\ \A e \in Entries : worker[e].pc \in Starters => startMu = e
    /\ \A e \in Entries : worker[e].pc = "startCapture" =>
          worker[e].bc # Nil /\ pump[worker[e].bc].pc = "starting"
    /\ \A g \in Groups : pump[g].pc \in {"none", "starting"} => ~group[g].broadcast

\* HalfBuiltIsPrivate, and where its starter is.
HalfBuilt(g) ==
    /\ startMu # Nil /\ worker[startMu].bc = g
    /\ worker[startMu].pc = "startCapture"
    /\ UsersOf(g) = {startMu}
HalfBuiltGroups ==
    \A g \in Groups : Published(g) /\ ~group[g].broadcast => HalfBuilt(g)

\* GroupsInUse, in terms of groups.
InUse ==
    /\ \A g \in Groups : Published(g) => UsersOf(g) # {}
    /\ \A e \in Entries : Live(e) /\ entry[e].group # Nil => Published(entry[e].group)

UseInv == OwnGroup /\ Starting /\ HalfBuiltGroups /\ InUse

-----------------------------------------------------------------------------
(* Steps that leave the maps and the groups of the entries alone.           *)
UseFrame ==
    /\ streams' = streams /\ groups' = groups /\ startMu' = startMu
    /\ \A e \in Entries :
          /\ entry'[e].target = entry[e].target /\ entry'[e].group = entry[e].group
          /\ worker'[e].bc = worker[e].bc \/ entry[e].group = Nil
          /\ worker'[e].pc = "prepare" => worker'[e].bc = Nil
          /\ worker[e].pc \in Starters \/ worker'[e].pc \in Starters
                => worker'[e] = worker[e]
    /\ \A g \in Groups :
          /\ group'[g] = group[g]
          /\ \/ pump'[g] = pump[g]
             \/ pump[g].pc \notin {"none", "starting"} /\ pump'[g].pc \notin {"none", "starting"}

LEMMA UsersMember ==
    ASSUME NEW e, NEW g
    PROVE  e \in UsersOf(g) <=> e \in Entries /\ Live(e) /\ entry[e].group = g
PROOF
  BY DEF UsersOf, Active

LEMMA UseFrameKeeps ==
    ASSUME TypeOK, UseInv, UseFrame
    PROVE  UseInv'
PROOF
<1>a. /\ startMu \in Entries \cup {Nil} /\ Nil \notin Entries /\ Nil \notin Groups
      /\ \A e \in Entries : worker[e].bc \in Groups \cup {Nil}
  BY BoundsAssumption DEF TypeOK, WorkerRecord, Entries, Groups
<1>1. /\ \A e \in Entries : Live(e)' <=> Live(e)
      /\ \A g \in Groups : Published(g)' <=> Published(g)
  BY DEF UseFrame, Live, Published
<1>2. ASSUME NEW g \in Groups PROVE UsersOf(g)' = UsersOf(g)
  BY <1>1 DEF UseFrame, UsersOf, Active
<1>3. OwnGroup'
  BY DEF UseInv, OwnGroup, UseFrame
<1>4. Starting'
  <2>1. /\ startMu' # Nil => worker'[startMu'].pc \in Starters
        /\ \A e \in Entries : worker'[e].pc \in Starters => startMu' = e
    BY <1>a DEF UseInv, Starting, UseFrame
  <2>2. ASSUME NEW e \in Entries, worker'[e].pc = "startCapture"
        PROVE  worker'[e].bc # Nil /\ pump'[worker'[e].bc].pc = "starting"
    <3>1. worker'[e] = worker[e]
      BY <2>2 DEF UseFrame, Starters
    <3>2. worker[e].bc \in Groups /\ pump[worker[e].bc].pc = "starting"
      BY <1>a, <2>2, <3>1 DEF UseInv, Starting
    <3>3. QED BY <1>a, <3>1, <3>2 DEF UseFrame
  <2>3. \A g \in Groups : pump'[g].pc \in {"none", "starting"} => ~group'[g].broadcast
    BY DEF UseInv, Starting, UseFrame
  <2>4. QED BY <2>1, <2>2, <2>3 DEF Starting
<1>5. HalfBuiltGroups'
  <2>1. ASSUME NEW g \in Groups, Published(g)', ~group'[g].broadcast PROVE HalfBuilt(g)'
    <3>1. HalfBuilt(g)
      BY <1>1, <2>1 DEF UseInv, HalfBuiltGroups, UseFrame
    <3>2. worker'[startMu] = worker[startMu] /\ startMu' = startMu
      BY <1>a, <3>1 DEF HalfBuilt, UseFrame, Starters
    <3>3. QED BY <1>2, <3>1, <3>2 DEF HalfBuilt
  <2>2. QED BY <2>1 DEF HalfBuiltGroups
<1>6. InUse'
  <2>1. ASSUME NEW g \in Groups, Published(g)' PROVE UsersOf(g)' # {}
    BY <1>1, <1>2, <2>1 DEF UseInv, InUse
  <2>2. ASSUME NEW e \in Entries, Live(e)', entry'[e].group # Nil
        PROVE  Published(entry[e].group)' /\ entry'[e].group = entry[e].group
    <3>1. entry[e].group \in Groups /\ entry'[e].group = entry[e].group
      BY <1>a, <2>2 DEF UseInv, OwnGroup, UseFrame
    <3>2. QED BY <1>1, <2>2, <3>1 DEF UseInv, InUse
  <2>3. QED BY <2>1, <2>2 DEF InUse
<1> QED BY <1>3, <1>4, <1>5, <1>6 DEF UseInv

\* Detaching streams together with exactly the groups they were the last users
\* of keeps every published group in use.
LEMMA DetachKeepsUse ==
    ASSUME TypeOK, UseInv, NEW E \in SUBSET Active, NEW G \in SUBSET Groups,
           DetachEffect(E, G), startMu' = startMu,
           \A g \in Groups : Published(g) => (g \in G <=> UsersOf(g) \subseteq E),
           \A e \in Entries :
              /\ worker'[e].bc = worker[e].bc
              /\ worker'[e].pc = "prepare" => worker'[e].bc = Nil
              /\ worker[e].pc \in Starters \/ worker'[e].pc \in Starters
                    => worker'[e] = worker[e],
           \A g \in Groups :
              /\ group'[g].broadcast => group[g].broadcast
              /\ \/ pump'[g] = pump[g]
                 \/ /\ pump[g].pc \notin {"none", "starting"}
                    /\ pump'[g].pc \notin {"none", "starting"}
    PROVE  UseInv'
PROOF
<1>a. /\ startMu \in Entries \cup {Nil} /\ Nil \notin Entries /\ Nil \notin Groups
      /\ \A e \in Entries : worker[e].bc \in Groups \cup {Nil}
      /\ E \subseteq Entries
  BY BoundsAssumption DEF TypeOK, WorkerRecord, Entries, Groups, Active
<1>1. /\ \A e \in Entries : Live(e)' <=> (Live(e) /\ e \notin E)
      /\ \A g \in Groups : Published(g)' <=> (Published(g) /\ g \notin G)
      /\ \A e \in Entries : entry'[e].group = IF e \in E THEN Nil ELSE entry[e].group
      /\ \A g \in Groups : g \notin G => group'[g] = group[g]
  BY DEF DetachEffect
<1>2. ASSUME NEW g \in Groups PROVE UsersOf(g)' = UsersOf(g) \ E
  BY <1>a, <1>1 DEF UsersOf, Active
<1>3. OwnGroup'
  BY <1>1 DEF UseInv, OwnGroup
<1>4. Starting'
  <2>1. /\ startMu' # Nil => worker'[startMu'].pc \in Starters
        /\ \A e \in Entries : worker'[e].pc \in Starters => startMu' = e
    BY <1>a DEF UseInv, Starting
  <2>2. ASSUME NEW e \in Entries, worker'[e].pc = "startCapture"
        PROVE  worker'[e].bc # Nil /\ pump'[worker'[e].bc].pc = "starting"
    <3>1. worker'[e] = worker[e]
      BY <2>2 DEF Starters
    <3>2. worker[e].bc \in Groups /\ pump[worker[e].bc].pc = "starting"
      BY <1>a, <2>2, <3>1 DEF UseInv, Starting
    <3>3. QED BY <1>a, <3>1, <3>2
  <2>3. \A g \in Groups : pump'[g].pc \in {"none", "starting"} => ~group'[g].broadcast
    BY DEF UseInv, Starting
  <2>4. QED BY <2>1, <2>2, <2>3 DEF Starting
<1>5. HalfBuiltGroups'
  <2>1. ASSUME NEW g \in Groups, Published(g)', ~group'[g].broadcast PROVE HalfBuilt(g)'
    <3>1. HalfBuilt(g) /\ Published(g) /\ g \notin G
      BY <1>1, <2>1 DEF UseInv, HalfBuiltGroups
    <3>2. worker'[startMu] = worker[startMu] /\ startMu' = startMu
      BY <1>a, <3>1 DEF HalfBuilt, Starters
    <3>3. UsersOf(g)' = {startMu}
      BY <1>2, <3>1 DEF HalfBuilt
    <3>4. QED BY <3>1, <3>2, <3>3 DEF HalfBuilt
  <2>2. QED BY <2>1 DEF HalfBuiltGroups
<1>6. InUse'
  <2>1. ASSUME NEW g \in Groups, Published(g)' PROVE UsersOf(g)' # {}
    BY <1>1, <1>2, <2>1
  <2>2. ASSUME NEW e \in Entries, Live(e)', entry'[e].group # Nil
        PROVE  Published(entry[e].group)' /\ entry'[e].group = entry[e].group
    <3>1. /\ entry[e].group \in Groups /\ entry'[e].group = entry[e].group
          /\ Live(e) /\ e \notin E
      BY <1>a, <1>1, <2>2 DEF UseInv, OwnGroup
    <3>2. Published(entry[e].group)
      BY <3>1, <1>a DEF UseInv, InUse
    <3>3. e \in UsersOf(entry[e].group)
      BY <3>1, UsersMember
    <3>4. QED BY <1>1, <3>1, <3>2, <3>3
  <2>3. QED BY <2>1, <2>2 DEF InUse
<1> QED BY <1>3, <1>4, <1>5, <1>6 DEF UseInv

\* FreedBy names those groups (detachCaptureGroupIfUnusedLocked).
LEMMA FreedByUnused ==
    ASSUME UseInv, NEW E \in SUBSET Active
    PROVE  \A g \in Groups : Published(g) => (g \in FreedBy(E) <=> UsersOf(g) \subseteq E)
PROOF
<1>1. ASSUME NEW g \in Groups, Published(g), UsersOf(g) \subseteq E PROVE g \in FreedBy(E)
  <2>1. PICK e \in UsersOf(g) : TRUE
    BY <1>1 DEF UseInv, InUse
  <2>2. e \in E /\ entry[e].group = g
    BY <1>1, <2>1, UsersMember
  <2>3. QED BY <1>1, <2>2 DEF FreedBy
<1> QED BY <1>1 DEF FreedBy

\* Detach never marks a group's broadcast as running.
LEMMA DetachSilences ==
    ASSUME TypeOK, NEW E, NEW G, NEW a, Detach(E, G, a)
    PROVE  \A g \in Groups : group'[g].broadcast => group[g].broadcast
PROOF
  BY DEF Detach, GroupStripped, TypeOK, GroupRecord

\* A published group always has a user, and a group that is still being started
\* has its starter as its only user, after every step.
LEMMA UseStep ==
    ASSUME MapsInv, TypeOK', UseInv, [Next]_vars
    PROVE  UseInv'
PROOF
<1>a. /\ TypeOK
      /\ entry \in [Entries -> EntryRecord] /\ group \in [Groups -> GroupRecord]
      /\ worker \in [Entries -> WorkerRecord] /\ pump \in [Groups -> PumpRecord]
      /\ streams \in [Targets -> Entries \cup {Nil}] /\ groups \in [Keys -> Groups \cup {Nil}]
      /\ startMu \in Entries \cup {Nil}
      /\ Nil \notin Entries /\ Nil \notin Groups
      /\ \A e \in Entries : entry[e].target \in Targets /\ worker[e].bc \in Groups \cup {Nil}
      /\ \A g \in Groups : group[g].key \in Keys
      /\ \A e \in Entries : worker[e].pc \in Finished => ~Live(e)
      /\ \A e \in Entries : ~Live(e) => entry[e].group = Nil
  <2>1. TypeOK /\ Nil \notin Entries /\ Nil \notin Groups
    BY BoundsAssumption DEF MapsInv, Entries, Groups
  <2>2. /\ \A e \in Entries : entry[e].target \in Targets /\ worker[e].bc \in Groups \cup {Nil}
        /\ \A g \in Groups : group[g].key \in Keys
    BY <2>1 DEF TypeOK, EntryRecord, WorkerRecord, GroupRecord
  <2>3. \A e \in Entries : ~Live(e) => entry[e].group = Nil
    BY DEF MapsInv, DetachedIsEmpty
  <2>4. QED BY <2>1, <2>2, <2>3 DEF TypeOK, MapsInv, MapsOwn, Live
<1>b. \A g \in Groups : /\ UsersOf(g) \in SUBSET Active
                        /\ Published(g) => UsersOf(g) # {} /\ pump[g].pc # "none"
  BY <1>a DEF UsersOf, UseInv, InUse, MapsInv, MapsOwn, Published
<1>c. /\ \A f, h : f \in UsersOf(h) <=> f \in Entries /\ Live(f) /\ entry[f].group = h
      /\ \A f, h : f \in UsersOf(h)' <=> f \in Entries /\ Live(f)' /\ entry'[f].group = h
  BY DEF UsersOf, Active
\* control requests
<1>1. ASSUME NEW t \in Targets, NEW c \in BOOLEAN, Connect(t, c) PROVE UseInv'
  <2>1. PICK e \in Entries :
           /\ worker[e].pc = "none"
           /\ streams' = [streams EXCEPT ![t] = e]
           /\ entry' = [entry EXCEPT ![e] = FreshEntry(t)]
           /\ worker' = [worker EXCEPT ![e].pc = "dial", ![e].cred = c]
    BY <1>1 DEF Connect
  <2>2. streams[t] = Nil /\ UNCHANGED <<groups, group, pump, startMu>>
    BY <1>1 DEF Connect
  <2>3. ~Live(e) /\ entry[e].group = Nil
    BY <1>a, <2>1 DEF Finished
  <2>4. /\ worker'[e].pc = "dial" /\ worker'[e].bc = worker[e].bc /\ entry'[e].group = Nil
        /\ \A f \in Entries : f # e => worker'[f] = worker[f] /\ entry'[f] = entry[f]
        /\ \A u \in Targets : u # t => streams'[u] = streams[u]
        /\ streams'[t] = e
    BY <1>a, <2>1 DEF FreshEntry, WorkerRecord, EntryRecord
  <2>5. /\ \A f \in Entries : f # e => (Live(f)' <=> Live(f))
        /\ \A h \in Groups : Published(h)' <=> Published(h)
    BY <1>a, <2>2, <2>4 DEF Live, Published
  <2>6. ASSUME NEW h \in Groups PROVE UsersOf(h)' = UsersOf(h)
    <3>1. \A f : f \in UsersOf(h)' <=> f \in UsersOf(h)
      BY <1>a, <1>c, <2>3, <2>4, <2>5
    <3>2. QED BY <3>1 DEF UsersOf, Active
  <2>7. OwnGroup'
    BY <2>4 DEF UseInv, OwnGroup
  <2>8. Starting'
    BY <1>a, <2>1, <2>2, <2>4 DEF UseInv, Starting, Starters
  <2>9. HalfBuiltGroups'
    <3>1. ASSUME NEW h \in Groups, Published(h)', ~group'[h].broadcast PROVE HalfBuilt(h)'
      <4>1. HalfBuilt(h)
        BY <2>2, <2>5, <3>1 DEF UseInv, HalfBuiltGroups
      <4>2. QED BY <1>a, <2>1, <2>2, <2>4, <2>6, <4>1 DEF HalfBuilt
    <3>2. QED BY <3>1 DEF HalfBuiltGroups
  <2>10. InUse'
    <3>1. \A h \in Groups : Published(h)' => UsersOf(h)' # {}
      BY <1>b, <2>5, <2>6
    <3>2. ASSUME NEW f \in Entries, Live(f)', entry'[f].group # Nil
          PROVE  Published(entry[f].group)' /\ entry'[f].group = entry[f].group
      <4>1. f # e /\ entry'[f].group = entry[f].group /\ entry[f].group \in Groups /\ Live(f)
        BY <1>a, <2>4, <2>5, <3>2 DEF UseInv, OwnGroup
      <4>2. QED BY <2>5, <3>2, <4>1 DEF UseInv, InUse
    <3>3. QED BY <3>1, <3>2 DEF InUse
  <2>11. QED BY <2>7, <2>8, <2>9, <2>10 DEF UseInv
<1>2. ASSUME NEW t \in Targets, Submit(t) PROVE UseInv'
  <2>1. streams[t] \in Entries
    BY <1>a, <1>2 DEF Submit, Pending
  <2>2. UseFrame
    BY <1>a, <1>2, <2>1 DEF Submit, UseFrame, EntryRecord, UseInv, OwnGroup
  <2>3. QED BY <1>a, <2>2, UseFrameKeeps
<1>3. ASSUME NEW r \in 1 .. MaxRequests, NEW t \in Targets, Disconnect(r, t) PROVE UseInv'
  <2>1. Detach({streams[t]}, FreedBy({streams[t]}), Request(r)) /\ streams[t] # Nil
        /\ UNCHANGED <<worker, pump, startMu>>
    BY <1>3 DEF Disconnect
  <2>2. {streams[t]} \in SUBSET Active /\ FreedBy({streams[t]}) \in SUBSET Groups
        /\ Request(r) \in Actors
    BY <1>a, <2>1 DEF Active, Live, FreedBy, Actors, MapsInv, MapsOwn
  <2>3. DetachEffect({streams[t]}, FreedBy({streams[t]}))
    BY <2>1, <2>2, DetachSteps
  <2>4. \A e \in Entries : worker[e].pc = "prepare" => worker[e].bc = Nil
    BY DEF UseInv, OwnGroup
  <2>5. \A g \in Groups : Published(g)
            => (g \in FreedBy({streams[t]}) <=> UsersOf(g) \subseteq {streams[t]})
    BY <2>2, FreedByUnused
  <2>6. \A g \in Groups : group'[g].broadcast => group[g].broadcast
    BY <1>a, <2>1, DetachSilences
  <2> HIDE DEF Nil
  <2>7. QED BY <1>a, <2>1, <2>2, <2>3, <2>4, <2>5, <2>6, DetachKeepsUse
<1>4. ASSUME NEW a \in Actors, DetachAll(a), UNCHANGED <<worker, pump, startMu>> PROVE UseInv'
  <2> DEFINE G == {g \in Groups : Published(g)}
  <2>1. Detach(Active, G, a)
    BY <1>4 DEF DetachAll
  <2>2. G \in SUBSET Groups /\ Active \in SUBSET Active
    OBVIOUS
  <2>3. DetachEffect(Active, G)
    BY <2>1, <2>2, DetachSteps
  <2>4. \A e \in Entries : worker[e].pc = "prepare" => worker[e].bc = Nil
    BY DEF UseInv, OwnGroup
  <2>5. \A g \in Groups : Published(g) => (g \in G <=> UsersOf(g) \subseteq Active)
    BY <1>b
  <2>6. \A g \in Groups : group'[g].broadcast => group[g].broadcast
    BY <1>a, <2>1, DetachSilences
  <2> HIDE DEF G
  <2>7. QED BY <1>a, <1>4, <2>1, <2>2, <2>3, <2>4, <2>5, <2>6, DetachKeepsUse
<1>5. ASSUME NEW a \in Actors, Clean(a) PROVE UseInv'
  <2>1. UseFrame
    BY <1>a, <1>5 DEF Clean, maps, UseFrame, UseInv, OwnGroup
  <2>2. QED BY <1>a, <2>1, UseFrameKeeps
<1>6. CASE ShutdownDone \/ UNCHANGED vars
  <2>1. UseFrame
    BY <1>a, <1>6 DEF ShutdownDone, vars, maps, UseFrame, UseInv, OwnGroup
  <2>2. QED BY <1>a, <2>1, UseFrameKeeps
\* workers
<1>7. ASSUME NEW e \in Entries, Quiet(e) PROVE UseInv'
  <2>1. QuietEffect(e)
    BY <1>7, QuietSteps
  <2>2. UseFrame
    BY <1>a, <2>1 DEF QuietEffect, UseFrame, UseInv, OwnGroup, Starters
  <2>3. QED BY <1>a, <2>2, UseFrameKeeps
<1>8. ASSUME NEW e \in Entries, JoinGroup(e) PROVE UseInv'
  <2>1. PICK k \in Keys :
           /\ groups[k] # Nil
           /\ entry' = [entry EXCEPT ![e].group = groups[k]]
           /\ IF group[groups[k]].broadcast
              THEN worker' = [worker EXCEPT ![e].pc = "setup", ![e].bc = groups[k]]
              ELSE Goto(e, "fail")
    BY <1>8 DEF JoinGroup
  <2>2. /\ worker[e].pc = "prepare" /\ startMu = Nil /\ Live(e)
        /\ UNCHANGED <<streams, groups, group, startMu, pump>>
    BY <1>8 DEF JoinGroup, At, unchangedByWorker
  <2> DEFINE g == groups[k]
  <2>3. g \in Groups /\ Published(g)
    BY <1>a, <2>1 DEF MapsInv, MapsOwn, Published
  <2>4. group[g].broadcast
    BY <2>2, <2>3 DEF UseInv, HalfBuiltGroups, HalfBuilt
  <2>5. entry[e].group = Nil /\ worker[e].bc = Nil
    BY <2>2 DEF UseInv, OwnGroup
  <2>6. /\ worker'[e].pc = "setup" /\ worker'[e].bc = g /\ entry'[e].group = g
        /\ \A f \in Entries : f # e => worker'[f] = worker[f] /\ entry'[f] = entry[f]
        /\ \A f \in Entries : entry'[f].target = entry[f].target
    BY <1>a, <2>1, <2>4 DEF WorkerRecord, EntryRecord
  <2> HIDE DEF g
  <2>7. /\ \A f \in Entries : Live(f)' <=> Live(f)
        /\ \A h \in Groups : Published(h)' <=> Published(h)
    BY <2>2, <2>6 DEF Live, Published
  <2>8. \A h \in Groups : UsersOf(h) \subseteq UsersOf(h)'
    BY <1>a, <2>5, <2>6, <2>7 DEF UsersOf, Active
  <2>9. OwnGroup'
    BY <2>6 DEF UseInv, OwnGroup
  <2>10. Starting'
    BY <1>a, <2>2, <2>6 DEF UseInv, Starting, Starters
  <2>11. HalfBuiltGroups'
    BY <2>2, <2>7 DEF UseInv, HalfBuiltGroups, HalfBuilt
  <2>12. InUse'
    <3>1. \A h \in Groups : Published(h)' => UsersOf(h)' # {}
      BY <1>b, <2>7, <2>8
    <3>2. ASSUME NEW f \in Entries, Live(f)', entry'[f].group # Nil
          PROVE  Published(entry[f].group)'
      <4>1. CASE f = e
        BY <2>3, <2>6, <2>7, <4>1
      <4>2. CASE f # e
        <5>1. entry'[f].group = entry[f].group /\ entry[f].group \in Groups
          BY <1>a, <2>6, <3>2, <4>2 DEF UseInv, OwnGroup
        <5>2. QED BY <2>7, <3>2, <5>1 DEF UseInv, InUse
      <4>3. QED BY <4>1, <4>2
    <3>3. QED BY <3>1, <3>2 DEF InUse
  <2>13. QED BY <2>9, <2>10, <2>11, <2>12 DEF UseInv
<1>9. ASSUME NEW e \in Entries, PublishGroup(e) PROVE UseInv'
  <2>1. PICK k \in Keys, g \in Groups :
           /\ groups[k] = Nil /\ pump[g].pc = "none"
           /\ groups' = [groups EXCEPT ![k] = g]
           /\ group' = [group EXCEPT ![g] = [key |-> k, cancel |-> TRUE,
                                             capture |-> FALSE, broadcast |-> FALSE]]
           /\ entry' = [entry EXCEPT ![e].group = g]
           /\ pump' = [pump EXCEPT ![g].pc = "starting"]
           /\ worker' = [worker EXCEPT ![e].pc = "startCapture", ![e].bc = g]
    BY <1>9 DEF PublishGroup
  <2>2. /\ worker[e].pc = "prepare" /\ startMu = Nil /\ Live(e)
        /\ streams' = streams /\ startMu' = e
    BY <1>9 DEF PublishGroup, At
  <2>3. ~Published(g)
    BY <1>b, <2>1
  <2>4. entry[e].group = Nil /\ worker[e].bc = Nil
    BY <2>2 DEF UseInv, OwnGroup
  <2>5. /\ worker'[e].pc = "startCapture" /\ worker'[e].bc = g /\ entry'[e].group = g
        /\ \A f \in Entries : f # e => worker'[f] = worker[f] /\ entry'[f] = entry[f]
        /\ \A f \in Entries : entry'[f].target = entry[f].target
        /\ \A h \in Groups : h # g => group'[h] = group[h] /\ pump'[h] = pump[h]
        /\ group'[g].key = k /\ ~group'[g].broadcast /\ pump'[g].pc = "starting"
        /\ groups'[k] = g
        /\ \A l \in Keys : l # k => groups'[l] = groups[l]
    BY <1>a, <2>1 DEF WorkerRecord, EntryRecord, PumpRecord, GroupRecord
  <2>6. \A f \in Entries : Live(f)' <=> Live(f)
    BY <2>2, <2>5 DEF Live
  <2>7. Published(g)' /\ \A h \in Groups : h # g => (Published(h)' <=> Published(h))
    BY <1>a, <2>1, <2>5 DEF Published
  <2>8. \A f \in Entries : Live(f) => entry[f].group # g
    BY <1>a, <2>3 DEF UseInv, InUse
  <2>9. UsersOf(g)' = {e} /\ \A h \in Groups : h # g => UsersOf(h)' = UsersOf(h)
    <3>2. UsersOf(g)' = {e}
      <4>1. \A f : f \in UsersOf(g)' <=> f = e
        BY <1>c, <2>2, <2>5, <2>6, <2>8
      <4>2. QED BY <4>1 DEF UsersOf, Active
    <3>3. ASSUME NEW h \in Groups, h # g PROVE UsersOf(h)' = UsersOf(h)
      <4>1. \A f : f \in UsersOf(h)' <=> f \in UsersOf(h)
        BY <1>a, <1>c, <2>4, <2>5, <2>6, <3>3
      <4>2. QED BY <4>1 DEF UsersOf, Active
    <3>4. QED BY <3>2, <3>3
  <2>10. OwnGroup'
    BY <2>5 DEF UseInv, OwnGroup
  <2>11. Starting'
    <3>1. \A f \in Entries : worker[f].pc \notin Starters
      BY <1>a, <2>2 DEF UseInv, Starting
    <3>2. QED BY <1>a, <2>2, <2>5, <3>1 DEF UseInv, Starting, Starters
  <2>12. HalfBuiltGroups'
    <3>1. HalfBuilt(g)'
      BY <1>a, <2>2, <2>5, <2>9 DEF HalfBuilt
    <3>2. \A h \in Groups : h # g => ~(Published(h)' /\ ~group'[h].broadcast)
      BY <2>2, <2>5, <2>7 DEF UseInv, HalfBuiltGroups, HalfBuilt
    <3>3. QED BY <3>1, <3>2 DEF HalfBuiltGroups
  <2>13. InUse'
    <3>1. \A h \in Groups : Published(h)' => UsersOf(h)' # {}
      BY <1>b, <2>7, <2>9
    <3>2. ASSUME NEW f \in Entries, Live(f)', entry'[f].group # Nil
          PROVE  Published(entry[f].group)'
      <4>1. CASE f = e
        BY <2>5, <2>7, <4>1
      <4>2. CASE f # e
        <5>1. entry'[f].group = entry[f].group /\ entry[f].group \in Groups /\ Live(f)
          BY <1>a, <2>5, <2>6, <3>2, <4>2 DEF UseInv, OwnGroup
        <5>2. entry[f].group # g /\ Published(entry[f].group)
          BY <2>3, <3>2, <5>1 DEF UseInv, InUse
        <5>3. QED BY <2>7, <5>1, <5>2
      <4>3. QED BY <4>1, <4>2
    <3>3. QED BY <3>1, <3>2 DEF InUse
  <2>14. QED BY <2>10, <2>11, <2>12, <2>13 DEF UseInv
<1>10. ASSUME NEW e \in Entries, CaptureFails(e) PROVE UseInv'
  <2>0. worker[e].pc = "startCapture"
    BY <1>10 DEF CaptureFails, At
  <2>g. PICK g \in Groups : g = worker[e].bc
    BY <1>a, <2>0 DEF UseInv, Starting
  <2>1. /\ worker[e].pc = "startCapture" /\ streams' = streams /\ group' = group
        /\ groups' = [groups EXCEPT ![group[g].key] = IF @ = g THEN Nil ELSE @]
        /\ entry' = [entry EXCEPT ![e].group = IF @ = g THEN Nil ELSE @]
        /\ pump' = [pump EXCEPT ![g].pc = "gone"]
        /\ startMu' = Nil /\ worker' = [worker EXCEPT ![e].pc = "fail"]
    BY <1>10, <2>g DEF CaptureFails, At, Goto
  <2>2. g \in Groups /\ startMu = e /\ pump[g].pc = "starting" /\ ~group[g].broadcast
    BY <1>a, <2>1, <2>g DEF UseInv, Starting, Starters
  <2>3. /\ worker'[e].pc = "fail" /\ worker'[e].bc = worker[e].bc
        /\ entry'[e].group = Nil
        /\ \A f \in Entries : f # e => worker'[f] = worker[f] /\ entry'[f] = entry[f]
        /\ \A f \in Entries : entry'[f].target = entry[f].target
        /\ \A h \in Groups : h # g => pump'[h] = pump[h]
        /\ pump'[g].pc = "gone"
        /\ \A k \in Keys : groups'[k] # Nil => groups'[k] = groups[k]
    <3>1. entry[e].group \in {Nil, g}
      BY <2>g DEF UseInv, OwnGroup
    <3>2. QED BY <1>a, <2>1, <2>2, <3>1 DEF WorkerRecord, EntryRecord, PumpRecord
  <2>4. \A f \in Entries : Live(f)' <=> Live(f)
    BY <2>1, <2>3 DEF Live
  <2>5. ~Published(g)' /\ \A h \in Groups : h # g => (Published(h)' <=> Published(h))
    <3>1. \A k \in Keys : groups'[k] = IF k = group[g].key /\ groups[k] = g THEN Nil
                                        ELSE groups[k]
      BY <1>a, <2>1, <2>2
    <3>2. QED BY <1>a, <2>1, <2>2, <3>1 DEF Published
  <2>6. \A f \in Entries : f # e /\ Live(f) => entry[f].group # g
    <3>1. CASE Published(g)
      <4>1. UsersOf(g) = {e}
        BY <2>2, <3>1 DEF UseInv, HalfBuiltGroups, HalfBuilt
      <4>2. QED BY <4>1, UsersMember
    <3>2. CASE ~Published(g)
      BY <1>a, <2>2, <3>2 DEF UseInv, InUse
    <3>3. QED BY <3>1, <3>2
  <2>7. \A h \in Groups : h # g => UsersOf(h)' = UsersOf(h)
    <3>1. entry[e].group \in {Nil, g}
      BY <2>g DEF UseInv, OwnGroup
    <3>2. QED BY <1>a, <2>3, <2>4, <3>1 DEF UsersOf, Active
  <2>8. OwnGroup'
    BY <2>3 DEF UseInv, OwnGroup
  <2>9. Starting'
    <3>1. \A f \in Entries : worker'[f].pc \notin Starters
      BY <2>2, <2>3 DEF UseInv, Starting, Starters
    <3>2. \A h \in Groups : pump'[h].pc \in {"none", "starting"} => ~group'[h].broadcast
      BY <2>1, <2>3 DEF UseInv, Starting
    <3>3. QED BY <2>1, <3>1, <3>2 DEF Starting, Starters
  <2>10. HalfBuiltGroups'
    <3>1. ASSUME NEW h \in Groups, Published(h)', ~group'[h].broadcast PROVE FALSE
      <4>1. h # g /\ HalfBuilt(h)
        BY <2>1, <2>5, <3>1 DEF UseInv, HalfBuiltGroups
      <4>2. QED BY <2>2, <2>g, <4>1 DEF HalfBuilt
    <3>2. QED BY <3>1 DEF HalfBuiltGroups
  <2>11. InUse'
    <3>1. \A h \in Groups : Published(h)' => UsersOf(h)' # {}
      BY <1>b, <2>5, <2>7
    <3>2. ASSUME NEW f \in Entries, Live(f)', entry'[f].group # Nil
          PROVE  Published(entry[f].group)' /\ f # e /\ entry'[f].group = entry[f].group
      <4>1. f # e /\ entry'[f].group = entry[f].group /\ entry[f].group \in Groups /\ Live(f)
        BY <1>a, <2>3, <2>4, <3>2 DEF UseInv, OwnGroup
      <4>2. entry[f].group # g /\ Published(entry[f].group)
        BY <2>6, <3>2, <4>1 DEF UseInv, InUse
      <4>3. QED BY <2>5, <4>1, <4>2
    <3>3. QED BY <3>1, <3>2 DEF InUse
  <2>12. QED BY <2>8, <2>9, <2>10, <2>11 DEF UseInv
<1>11. ASSUME NEW e \in Entries, PublishCapture(e) PROVE UseInv'
  <2>1. worker[e].pc = "startCapture"
    BY <1>11 DEF PublishCapture, At
  <2>2. PICK g \in Groups : g = worker[e].bc
    BY <1>a, <2>1 DEF UseInv, Starting
  <2>3. /\ Published(g) /\ Live(e) /\ entry[e].group = g
        /\ group' = [group EXCEPT ![g].capture = TRUE, ![g].broadcast = TRUE]
        /\ pump' = [pump EXCEPT ![g].pc = "running"]
        /\ startMu' = Nil /\ worker' = [worker EXCEPT ![e].pc = "setup"]
        /\ UNCHANGED <<streams, groups, entry>>
    BY <1>11, <2>2 DEF PublishCapture, Goto, StillWanted
  <2>4. /\ worker'[e].pc = "setup" /\ worker'[e].bc = worker[e].bc
        /\ \A f \in Entries : f # e => worker'[f] = worker[f]
        /\ \A h \in Groups : h # g => pump'[h] = pump[h] /\ group'[h] = group[h]
        /\ \A h \in Groups : group'[h].key = group[h].key
        /\ group'[g].broadcast /\ pump'[g].pc = "running"
    BY <1>a, <2>3 DEF WorkerRecord, PumpRecord, GroupRecord
  <2>5. /\ \A f \in Entries : Live(f)' <=> Live(f)
        /\ \A h \in Groups : Published(h)' <=> Published(h)
    BY <2>3, <2>4 DEF Live, Published
  <2>6. \A h \in Groups : UsersOf(h)' = UsersOf(h)
    BY <2>3, <2>5 DEF UsersOf, Active
  <2>7. startMu = e
    BY <2>1 DEF UseInv, Starting, Starters
  <2>8. OwnGroup'
    BY <2>3, <2>4 DEF UseInv, OwnGroup
  <2>9. Starting'
    <3>1. \A f \in Entries : worker'[f].pc \notin Starters
      BY <2>4, <2>7 DEF UseInv, Starting, Starters
    <3>2. \A h \in Groups : pump'[h].pc \in {"none", "starting"} => ~group'[h].broadcast
      BY <2>4 DEF UseInv, Starting
    <3>3. QED BY <2>3, <3>1, <3>2 DEF Starting, Starters
  <2>10. HalfBuiltGroups'
    <3>1. ASSUME NEW h \in Groups, Published(h)', ~group'[h].broadcast PROVE FALSE
      <4>1. h # g /\ HalfBuilt(h)
        BY <2>4, <2>5, <3>1 DEF UseInv, HalfBuiltGroups
      <4>2. QED BY <2>2, <2>7, <4>1 DEF HalfBuilt
    <3>2. QED BY <3>1 DEF HalfBuiltGroups
  <2>11. InUse'
    <3>1. \A h \in Groups : Published(h)' => UsersOf(h)' # {}
      BY <1>b, <2>5, <2>6
    <3>2. ASSUME NEW f \in Entries, Live(f)', entry'[f].group # Nil
          PROVE  Published(entry[f].group)' /\ entry'[f].group = entry[f].group
      <4>1. entry'[f].group = entry[f].group /\ entry[f].group \in Groups /\ Live(f)
        BY <1>a, <2>3, <2>5, <3>2 DEF UseInv, OwnGroup
      <4>2. QED BY <2>5, <3>2, <4>1 DEF UseInv, InUse
    <3>3. QED BY <3>1, <3>2 DEF InUse
  <2>12. QED BY <2>8, <2>9, <2>10, <2>11 DEF UseInv
<1>12. ASSUME NEW e \in Entries, DiscardCapture(e) \/ CaptureDiscarded(e) PROVE UseInv'
  <2>1. /\ worker[e].pc \in Starters /\ UNCHANGED maps
        /\ \E p \in {"discarded", "fail"} : worker' = [worker EXCEPT ![e].pc = p]
        /\ \/ worker[e].pc = "discarded" /\ worker'[e].pc = "fail"
              /\ startMu' = Nil /\ pump' = pump
           \/ /\ worker[e].pc = "startCapture" /\ worker'[e].pc = "discarded"
              /\ startMu' = startMu /\ ~StillWanted(e, worker[e].bc)
              /\ pump' = [pump EXCEPT ![worker[e].bc].pc = "gone"]
    BY <1>a, <1>12 DEF DiscardCapture, CaptureDiscarded, At, Goto, Starters, unchangedByWorker,
                       WorkerRecord
  <2>2. /\ worker'[e].bc = worker[e].bc /\ startMu = e
        /\ \A f \in Entries : f # e => worker'[f] = worker[f] /\ worker[f].pc \notin Starters
        /\ worker'[e].pc \in {"discarded", "fail"}
    BY <1>a, <2>1 DEF WorkerRecord, UseInv, Starting
  <2>3. \A h \in Groups : pump'[h] = pump[h] \/ pump'[h].pc = "gone"
    BY <1>a, <2>1 DEF PumpRecord
  <2>4. OwnGroup'
    BY <2>1, <2>2 DEF maps, UseInv, OwnGroup
  <2>5. Starting'
    <3>1. \A f \in Entries : worker'[f].pc \in Starters => f = e /\ startMu' = e
      BY <2>1, <2>2 DEF Starters
    <3>2. startMu' # Nil => worker'[startMu'].pc \in Starters
      BY <2>1, <2>2 DEF Starters
    <3>3. \A f \in Entries : worker'[f].pc # "startCapture"
      BY <2>2 DEF Starters
    <3>4. \A h \in Groups : pump'[h].pc \in {"none", "starting"} => ~group'[h].broadcast
      BY <2>1, <2>3 DEF maps, UseInv, Starting
    <3>5. QED BY <3>1, <3>2, <3>3, <3>4 DEF Starting
  <2>6. HalfBuiltGroups'
    <3>1. ASSUME NEW h \in Groups, Published(h), ~group[h].broadcast PROVE FALSE
      <4>1. HalfBuilt(h)
        BY <3>1 DEF UseInv, HalfBuiltGroups
      <4>2. worker[e].pc = "startCapture" /\ worker[e].bc = h /\ UsersOf(h) = {e}
        BY <2>2, <4>1 DEF HalfBuilt
      <4>3. Live(e) /\ entry[e].group = h
        BY <4>2, <1>c
      <4>4. QED BY <2>1, <3>1, <4>2, <4>3 DEF StillWanted
    <3>2. QED BY <2>1, <3>1 DEF HalfBuiltGroups, maps, Published
  <2>7. InUse'
    BY <2>1 DEF UseInv, InUse, maps, Published, UsersOf, Active, Live
  <2>8. QED BY <2>4, <2>5, <2>6, <2>7 DEF UseInv
<1>13. ASSUME NEW e \in Entries, Abandon(e) PROVE UseInv'
  <2>1. /\ worker[e].pc = "abandon"
        /\ worker' = [worker EXCEPT ![e].pc = "exit"] /\ UNCHANGED <<startMu, pump>>
        /\ Detach({}, {g \in Groups : /\ g = entry[e].group /\ UsersOf(g) = {}
                                      /\ Published(g)}, Worker(e))
    BY <1>13 DEF Abandon, At, Goto, unchangedByWorker
  <2>2. {g \in Groups : g = entry[e].group /\ UsersOf(g) = {} /\ Published(g)} = {}
    BY <1>b
  <2>3. Detach({}, {}, Worker(e)) /\ Worker(e) \in Actors
    BY <2>1, <2>2 DEF Actors
  <2>4. DetachEffect({}, {})
    BY <2>3, DetachSteps
  <2>5. \A f \in Entries : /\ worker'[f].bc = worker[f].bc
                           /\ worker'[f].pc = "prepare" => worker'[f].bc = Nil
                           /\ worker[f].pc \in Starters \/ worker'[f].pc \in Starters
                                 => worker'[f] = worker[f]
    BY <1>a, <2>1 DEF WorkerRecord, Starters, UseInv, OwnGroup
  <2>6. \A g \in Groups : group'[g].broadcast => group[g].broadcast
    BY <1>a, <2>3, DetachSilences
  <2>7. \A g \in Groups : Published(g) => (g \in {} <=> UsersOf(g) \subseteq {})
    BY <1>b
  <2>8. {} \in SUBSET Active /\ {} \in SUBSET Groups /\ startMu' = startMu /\ pump' = pump
    BY <2>1
  <2>9. QED BY <1>a, <2>4, <2>5, <2>6, <2>7, <2>8, DetachKeepsUse
<1>14. ASSUME NEW e \in Entries, StreamEnded(e) \/ RemoveStream(e) PROVE UseInv'
  <2>1. /\ \E p \in {"exit", "stopAudio"} : worker' = [worker EXCEPT ![e].pc = p]
        /\ UNCHANGED <<pump, startMu>> /\ worker[e].pc \in {"ended", "fail"}
        /\ Live(e) => Detach({e}, FreedBy({e}), Worker(e))
        /\ ~Live(e) => UNCHANGED maps
    BY <1>14 DEF StreamEnded, RemoveStream, At, Goto, unchangedByWorker
  <2>2. \A f \in Entries : /\ worker'[f].bc = worker[f].bc
                           /\ worker'[f].pc = "prepare" => worker'[f].bc = Nil
                           /\ worker[f].pc \in Starters \/ worker'[f].pc \in Starters
                                 => worker'[f] = worker[f]
    BY <1>a, <2>1 DEF WorkerRecord, Starters, UseInv, OwnGroup
  <2>3. CASE Live(e)
    <3>1. /\ {e} \in SUBSET Active /\ FreedBy({e}) \in SUBSET Groups /\ Worker(e) \in Actors
          /\ Detach({e}, FreedBy({e}), Worker(e))
      BY <2>1, <2>3 DEF Active, FreedBy, Actors
    <3>2. DetachEffect({e}, FreedBy({e}))
      BY <3>1, DetachSteps
    <3>3. \A g \in Groups : Published(g) => (g \in FreedBy({e}) <=> UsersOf(g) \subseteq {e})
      BY <3>1, FreedByUnused
    <3>4. \A g \in Groups : group'[g].broadcast => group[g].broadcast
      BY <1>a, <3>1, DetachSilences
    <3>5. QED BY <1>a, <2>1, <2>2, <3>1, <3>2, <3>3, <3>4, DetachKeepsUse
  <2>4. CASE ~Live(e)
    <3>1. UseFrame
      BY <1>a, <2>1, <2>2, <2>4 DEF UseFrame, maps
    <3>2. QED BY <1>a, <3>1, UseFrameKeeps
  <2>5. QED BY <2>3, <2>4
<1>15. ASSUME NEW e \in Entries, Exit(e) PROVE UseInv'
  <2>1. /\ worker[e].pc = "exit" /\ UNCHANGED <<maps, startMu, pump>>
        /\ worker'[e].pc = "gone"
        /\ \A f \in Entries : f # e => worker'[f] = worker[f]
    BY <1>a, <1>15 DEF Exit, At, Locals
  <2>2. entry[e].group = Nil
    BY <1>a, <2>1 DEF Finished
  <2>3. UseFrame
    BY <1>a, <2>1, <2>2 DEF UseFrame, maps, Starters, UseInv, OwnGroup
  <2>4. QED BY <1>a, <2>3, UseFrameKeeps
\* pumps
<1>16. ASSUME NEW g \in Groups, BroadcastEnds(g) \/ PumpExits(g) PROVE UseInv'
  <2>1. UseFrame
    BY <1>a, <1>16 DEF BroadcastEnds, PumpExits, UseFrame, maps, PumpRecord, UseInv, OwnGroup
  <2>2. QED BY <1>a, <2>1, UseFrameKeeps
<1>17. ASSUME NEW g \in Groups, FinishCaptureGroup(g) PROVE UseInv'
  <2>1. /\ UNCHANGED <<worker, startMu>>
        /\ \A h \in Groups : \/ pump'[h] = pump[h]
                             \/ /\ pump[h].pc \notin {"none", "starting"}
                                /\ pump'[h].pc \notin {"none", "starting"}
        /\ \/ Published(g) /\ Detach(UsersOf(g), {g}, Pump(g))
           \/ UNCHANGED maps
    BY <1>a, <1>17 DEF FinishCaptureGroup, PumpRecord
  <2>2. \A f \in Entries : worker[f].pc = "prepare" => worker[f].bc = Nil
    BY DEF UseInv, OwnGroup
  <2>3. CASE Published(g) /\ Detach(UsersOf(g), {g}, Pump(g))
    <3>1. UsersOf(g) \in SUBSET Active /\ {g} \in SUBSET Groups /\ Pump(g) \in Actors
      BY DEF UsersOf, Actors
    <3>2. DetachEffect(UsersOf(g), {g})
      BY <2>3, <3>1, DetachSteps
    <3>3. \A h \in Groups : Published(h) => (h \in {g} <=> UsersOf(h) \subseteq UsersOf(g))
      BY <1>b, <1>c
    <3>4. \A h \in Groups : group'[h].broadcast => group[h].broadcast
      BY <1>a, <2>3, DetachSilences
    <3>5. QED BY <1>a, <2>1, <2>2, <3>1, <3>2, <3>3, <3>4, DetachKeepsUse
  <2>4. CASE UNCHANGED maps
    <3>1. UseFrame
      BY <1>a, <2>1, <2>2, <2>4 DEF UseFrame, maps
    <3>2. QED BY <1>a, <3>1, UseFrameKeeps
  <2>5. QED BY <2>1, <2>3, <2>4
<1>18. ASSUME NEW e \in Entries, WorkerStep(e) PROVE UseInv'
  BY <1>18, <1>7, <1>8, <1>9, <1>10, <1>11, <1>12, <1>13, <1>14, <1>15
  DEF WorkerStep, ProtocolStep, LocalStep, CaptureStep, Quiet
<1>19. ASSUME NEW g \in Groups, PumpStep(g) PROVE UseInv'
  BY <1>19, <1>16, <1>17 DEF PumpStep
<1>20. ASSUME NEW r \in 1 .. MaxRequests, DisconnectAll(r) PROVE UseInv'
  BY <1>4, <1>20 DEF DisconnectAll, Actors
<1>21. CASE Shutdown
  BY <1>4, <1>21 DEF Shutdown, Actors
<1> QED
  BY <1>1, <1>2, <1>3, <1>5, <1>6, <1>18, <1>19, <1>20, <1>21
  DEF Next, ControlStep, SubmitAnywhere

\* The invariant of the capture groups, of which the theorems below are
\* consequences.
THEOREM GroupsAgree == Spec => []UseInv
PROOF
<1>1. Init /\ MapsInv => UseInv
  <2> SUFFICES ASSUME Init, MapsInv PROVE UseInv
    OBVIOUS
  <2>1. \A t \in Targets, k \in Keys : streams[t] = Nil /\ groups[k] = Nil
    BY DEF Init
  <2>2. /\ \A e \in Entries : entry[e].target \in Targets
        /\ \A g \in Groups : group[g].key \in Keys
        /\ Nil \notin Entries /\ Nil \notin Groups
    BY BoundsAssumption DEF MapsInv, TypeOK, EntryRecord, GroupRecord, Entries, Groups
  <2>3. /\ \A e \in Entries : ~Live(e) /\ entry[e].group = Nil
        /\ \A g \in Groups : ~Published(g)
    <3>1. streams = [t \in Targets |-> Nil] /\ groups = [k \in Keys |-> Nil]
      BY DEF Init
    <3>2. \A e \in Entries : ~Live(e)
      BY <2>2, <3>1 DEF Live
    <3>3. QED BY <2>2, <3>1, <3>2 DEF Published, MapsInv, DetachedIsEmpty
  <2>4. \A e \in Entries : worker[e].pc = "none" /\ worker[e].bc = Nil
    BY DEF Init, Locals
  <2>5. startMu = Nil /\ \A g \in Groups : ~group[g].broadcast
    BY DEF Init
  <2>6. QED BY <2>3, <2>4, <2>5 DEF UseInv, OwnGroup, Starting, Starters, HalfBuiltGroups, InUse
<1>2. MapsInv /\ TypeOK' /\ UseInv /\ [Next]_vars => UseInv'
  BY UseStep
<1>3. QED BY <1>1, <1>2, MapsAgree, TypeCorrect, PTL DEF Spec

\* A published encoder has a user and the encoder a stream refers to is
\* published (GroupsInUse): no encoder runs for nobody, and no receiver waits on
\* one that was torn down.
THEOREM GroupsStayInUse == Spec => []GroupsInUse
PROOF
<1>1. MapsInv /\ UseInv => GroupsInUse
  <2> SUFFICES ASSUME MapsInv, UseInv PROVE GroupsInUse
    OBVIOUS
  <2>1. ASSUME NEW k \in Keys, groups[k] # Nil
        PROVE  group[groups[k]].key = k /\ UsersOf(groups[k]) # {}
    <3>1. groups[k] \in Groups /\ group[groups[k]].key = k
      BY <2>1 DEF MapsInv, TypeOK, MapsOwn
    <3>2. QED BY <3>1 DEF UseInv, InUse, Published
  <2>2. \A e \in Active : entry[e].group # Nil => Published(entry[e].group)
    BY DEF UseInv, InUse, Active
  <2>3. QED BY <2>1, <2>2 DEF GroupsInUse
<1>2. QED BY <1>1, MapsAgree, GroupsAgree, PTL

\* Nobody joins an encoder that is still being started (HalfBuiltIsPrivate).
THEOREM HalfBuiltStaysPrivate == Spec => []HalfBuiltIsPrivate
PROOF
<1>1. UseInv => HalfBuiltIsPrivate
  BY DEF UseInv, HalfBuiltGroups, HalfBuilt, HalfBuiltIsPrivate
<1>2. QED BY <1>1, GroupsAgree, PTL

\* The worker of a disconnected or replaced connection changes neither map nor
\* the reported error, whatever it was doing (ObsoleteWorkerIsInert).
THEOREM ObsoleteWorkersAreInert == Spec => ObsoleteWorkerIsInert
PROOF
<1> DEFINE Inert(e) == worker'[e] # worker[e] /\ worker[e].pc # "none" /\ ~Live(e)
                          => UNCHANGED <<streams, groups, lastError>>
<1>1. ASSUME MapsInv, UseInv, [Next]_vars, NEW e \in Entries PROVE Inert(e)
  <2>a. /\ TypeOK /\ worker \in [Entries -> WorkerRecord]
        /\ streams \in [Targets -> Entries \cup {Nil}] /\ groups \in [Keys -> Groups \cup {Nil}]
        /\ Nil \notin Groups
        /\ worker[e].bc \in Groups \cup {Nil}
        /\ ~Live(e) => entry[e].group = Nil
    BY <1>1, BoundsAssumption DEF MapsInv, TypeOK, WorkerRecord, DetachedIsEmpty, Groups
  <2> SUFFICES ASSUME worker'[e] # worker[e], worker[e].pc # "none", ~Live(e)
               PROVE  UNCHANGED <<streams, groups, lastError>>
    OBVIOUS
  <2>1. ASSUME NEW t \in Targets PROVE /\ \A c \in BOOLEAN : ~Connect(t, c)
                                      /\ ~Submit(t)
                                      /\ \A r \in 1 .. MaxRequests : ~Disconnect(r, t)
    <3>1. \A c \in BOOLEAN : ~Connect(t, c)
      BY <2>a DEF Connect
    <3>2. QED BY <3>1 DEF Submit, Disconnect
  <2>2. /\ \A r \in 1 .. MaxRequests : ~DisconnectAll(r)
        /\ ~Shutdown /\ ~ShutdownDone /\ \A a \in Actors : ~Clean(a)
        /\ \A g \in Groups : ~PumpStep(g)
        /\ ~UNCHANGED vars
    BY DEF DisconnectAll, Shutdown, ShutdownDone, Clean, PumpStep, BroadcastEnds,
           FinishCaptureGroup, PumpExits, vars
  <2>3. ASSUME NEW f \in Entries, WorkerStep(f), f # e PROVE worker'[e] = worker[e]
    <3>1. CASE Quiet(f)
      BY <1>1, <2>3, <3>1, QuietSteps DEF QuietEffect
    <3>2. CASE ~Quiet(f)
      BY <2>a, <2>3, <3>2
      DEF WorkerStep, ProtocolStep, LocalStep, CaptureStep, Quiet, Goto, JoinGroup, PublishGroup,
          CaptureFails, PublishCapture, DiscardCapture, CaptureDiscarded, Abandon, StreamEnded,
          RemoveStream, Exit
    <3>3. QED BY <3>1, <3>2
  <2>4. CASE Quiet(e)
    BY <1>1, <2>4, QuietSteps DEF QuietEffect
  <2>5. CASE CaptureFails(e)
    <3>1. PICK g \in Groups : g = worker[e].bc /\ ~group[g].broadcast
      BY <1>1, <2>a, <2>5 DEF CaptureFails, At, UseInv, Starting
    <3>2. ~Published(g)
      <4>1. ASSUME Published(g) PROVE FALSE
        <5>1. HalfBuilt(g) /\ startMu = e
          BY <1>1, <2>5, <3>1, <4>1
          DEF UseInv, HalfBuiltGroups, Starting, Starters, CaptureFails, At
        <5>2. e \in UsersOf(g)
          BY <5>1 DEF HalfBuilt
        <5>3. QED BY <5>2, UsersMember
      <4>2. QED BY <4>1
    <3>3. groups' = [groups EXCEPT ![group[g].key] = groups[group[g].key]]
      BY <2>5, <3>1, <3>2 DEF CaptureFails, Published
    <3>4. QED BY <2>a, <2>5, <3>3 DEF CaptureFails
  <2>6. CASE Abandon(e)
    <3>1. Detach({}, {g \in Groups : /\ g = entry[e].group /\ UsersOf(g) = {}
                                     /\ Published(g)}, Worker(e)) /\ lastError' = lastError
      BY <2>6 DEF Abandon
    <3>2. {g \in Groups : g = entry[e].group /\ UsersOf(g) = {} /\ Published(g)} = {}
      BY <2>a
    <3>3. Detach({}, {}, Worker(e))
      BY <3>1, <3>2
    <3>4. QED BY <2>a, <3>1, <3>3 DEF Detach
  <2>7. CASE StreamEnded(e) \/ RemoveStream(e) \/ Exit(e) \/ CaptureDiscarded(e) \/ DiscardCapture(e)
    BY <2>7 DEF StreamEnded, RemoveStream, Exit, CaptureDiscarded, DiscardCapture, maps
  <2>8. ~JoinGroup(e) /\ ~PublishGroup(e) /\ ~PublishCapture(e)
    BY DEF JoinGroup, PublishGroup, PublishCapture, StillWanted
  <2>9. ASSUME WorkerStep(e) PROVE UNCHANGED <<streams, groups, lastError>>
    BY <2>4, <2>5, <2>6, <2>7, <2>8, <2>9
    DEF WorkerStep, ProtocolStep, LocalStep, CaptureStep, Quiet
  <2>10. QED BY <1>1, <2>1, <2>2, <2>3, <2>9 DEF Next, ControlStep, SubmitAnywhere
<1>2. MapsInv /\ UseInv /\ [Next]_vars => [\A e \in Entries : Inert(e)]_vars
  BY <1>1
<1>3. QED BY <1>2, MapsAgree, GroupsAgree, PTL DEF Spec, ObsoleteWorkerIsInert

-----------------------------------------------------------------------------
(* One connection, from its prompts to its stream.                          *)

\* The context of a live connection is open and in nobody's cleanup plan.
Uncancelled(e) ==
    /\ Live(e) => Ctx(e) \in open
    /\ \A a \in Actors : Ctx(e) \in plan[a] => ~Live(e) /\ worker[e].pc # "none"

\* PromptIsServed, and the steps that lead to a prompt.
Prompting(e) ==
    Live(e) =>
        /\ entry[e].state = "pinRequired" =>
              worker[e].pc = "waiting" /\ entry[e].kind # "none" /\ entry[e].ch = 0
        /\ entry[e].ch # 0 => worker[e].pc = "waiting"
        /\ worker[e].pc \in {"showPin", "prompt"} => entry[e].kind # "none"

\* A stream has its parts, and what its worker relies on when it publishes them.
Streaming(e) ==
    /\ Live(e) =>
          /\ entry[e].state = "streaming" =>
                /\ worker[e].pc \in {"startAudio", "streaming", "ended"}
                /\ entry[e].session /\ entry[e].sink
                /\ entry[e].client # Nil /\ entry[e].group # Nil
          /\ worker[e].pc # "fail" => entry[e].group = worker[e].bc
    /\ worker[e].pc = "none" => worker[e].bc = Nil
    /\ worker[e].pc \in {"ready", "attach"} => worker[e].bc # Nil
    /\ worker[e].pc \notin {"none", "dial", "fail", "exit", "gone"} => worker[e].dials # 0

ConnInv == \A e \in Entries : Uncancelled(e) /\ Prompting(e) /\ Streaming(e)

-----------------------------------------------------------------------------
(* Contexts.                                                                *)

\* A step that cancels no context and plans to cancel none.
CtxFrame ==
    /\ \A e \in Entries : Live(e)' => Live(e)
    /\ \A e \in Entries : worker[e].pc # "none" => worker'[e].pc # "none"
    /\ \A e \in Entries : Ctx(e) \in open => Ctx(e) \in open'
    /\ \A e \in Entries, a \in Actors : Ctx(e) \in plan'[a] => Ctx(e) \in plan[a]

LEMMA CtxFrameKeeps ==
    ASSUME ConnInv, CtxFrame
    PROVE  \A e \in Entries : Uncancelled(e)'
PROOF
  BY DEF ConnInv, CtxFrame, Uncancelled, Ctx

\* Detaching streams plans to cancel the contexts of those streams only.
LEMMA DetachCtx ==
    ASSUME MapsInv, ConnInv, NEW E \in SUBSET Active, NEW G \in SUBSET Groups,
           NEW b \in Actors, Detach(E, G, b), open' = open,
           \A e \in Entries : worker[e].pc # "none" => worker'[e].pc # "none"
    PROVE  \A e \in Entries : Uncancelled(e)'
PROOF
<1>1. DetachEffect(E, G)
  BY DetachSteps
<1>2. \A e \in Entries : Live(e)' <=> (Live(e) /\ e \notin E)
  BY <1>1 DEF DetachEffect
<1>3. ASSUME NEW e \in Entries, NEW a \in Actors, Ctx(e) \in plan'[a]
      PROVE  ~Live(e)' /\ worker'[e].pc # "none"
  <2>1. CASE Ctx(e) \in plan[a]
    BY <1>2, <2>1 DEF ConnInv, Uncancelled
  <2>2. CASE Ctx(e) \notin plan[a]
    <3>1. plan \in [Actors -> SUBSET Resource]
      BY DEF MapsInv, TypeOK
    <3>2. \/ \E f \in E : Ctx(e) \in Held(f)
          \/ \E g \in G : Ctx(e) \in GroupHeld(g)
      BY <1>3, <2>2, <3>1 DEF Detach
    <3>3. e \in E
      BY <3>2 DEF Held, GroupHeld, Ctx, Sink, Session, Client, GroupCtx, Capture
    <3>4. Live(e) /\ worker[e].pc # "none"
      <4>1. Live(e) /\ entry[e].target \in Targets /\ Nil \notin Entries
        BY <3>3, BoundsAssumption DEF Active, MapsInv, TypeOK, EntryRecord, Entries
      <4>2. QED BY <4>1 DEF Live, MapsInv, MapsOwn, Finished
    <3>5. QED BY <1>2, <3>3, <3>4
  <2>3. QED BY <2>1, <2>2
<1>4. ASSUME NEW e \in Entries, Live(e)' PROVE Ctx(e) \in open'
  BY <1>2, <1>4 DEF ConnInv, Uncancelled
<1>5. \A e \in Entries : Ctx(e)' = Ctx(e)
  BY DEF Ctx
<1> QED BY <1>3, <1>4, <1>5 DEF Uncancelled

\* What all three invariants need to know of the state before a step.
LEMMA StateFacts ==
    ASSUME MapsInv
    PROVE  /\ TypeOK
           /\ entry \in [Entries -> EntryRecord] /\ group \in [Groups -> GroupRecord]
           /\ worker \in [Entries -> WorkerRecord] /\ pump \in [Groups -> PumpRecord]
           /\ streams \in [Targets -> Entries \cup {Nil}]
           /\ groups \in [Keys -> Groups \cup {Nil}]
           /\ plan \in [Actors -> SUBSET Resource]
           /\ Nil \notin Entries /\ Nil \notin Groups
           /\ \A e \in Entries : entry[e].target \in Targets
           /\ \A e \in Entries : Live(e) => worker[e].pc \notin Finished
           /\ \A t \in Targets : streams[t] # Nil => entry[streams[t]].target = t
PROOF
<1>1. TypeOK /\ Nil \notin Entries /\ Nil \notin Groups
  BY BoundsAssumption DEF MapsInv, Entries, Groups
<1>2. \A e \in Entries : entry[e].target \in Targets
  BY <1>1 DEF TypeOK, EntryRecord
<1> QED BY <1>1, <1>2 DEF TypeOK, MapsInv, MapsOwn, Live

\* The context of a live connection stays open: only its own cleanup cancels it.
LEMMA CtxStep ==
    ASSUME MapsInv, ConnInv, [Next]_vars
    PROVE  \A e \in Entries : Uncancelled(e)'
PROOF
<1> DEFINE Goal == \A e \in Entries : Uncancelled(e)'
<1> SUFFICES Goal
  OBVIOUS
<1>a. /\ TypeOK
      /\ entry \in [Entries -> EntryRecord] /\ group \in [Groups -> GroupRecord]
      /\ worker \in [Entries -> WorkerRecord] /\ pump \in [Groups -> PumpRecord]
      /\ streams \in [Targets -> Entries \cup {Nil}] /\ groups \in [Keys -> Groups \cup {Nil}]
      /\ plan \in [Actors -> SUBSET Resource]
      /\ Nil \notin Entries /\ Nil \notin Groups
      /\ \A e \in Entries : entry[e].target \in Targets
      /\ \A e \in Entries : Live(e) => worker[e].pc \notin Finished
      /\ \A t \in Targets : streams[t] # Nil => entry[streams[t]].target = t
  BY StateFacts
<1>b. \A e \in Entries : Ctx(e)' = Ctx(e)
  BY DEF Ctx
<1>1. ASSUME NEW t \in Targets, NEW c \in BOOLEAN, Connect(t, c) PROVE Goal
  <2>1. PICK e \in Entries :
           /\ worker[e].pc = "none"
           /\ streams' = [streams EXCEPT ![t] = e]
           /\ entry' = [entry EXCEPT ![e] = FreshEntry(t)]
           /\ worker' = [worker EXCEPT ![e].pc = "dial", ![e].cred = c]
           /\ open' = open \cup {Ctx(e)}
    BY <1>1 DEF Connect
  <2>2. streams[t] = Nil /\ plan' = plan
    BY <1>1 DEF Connect
  <2>3. /\ worker'[e].pc = "dial"
        /\ \A f \in Entries : f # e => worker'[f] = worker[f] /\ entry'[f] = entry[f]
    BY <1>a, <2>1 DEF WorkerRecord
  <2>4. \A f \in Entries : f # e => (Live(f)' <=> Live(f))
    BY <1>a, <2>1, <2>2, <2>3 DEF Live
  <2>5. \A a \in Actors : Ctx(e) \notin plan[a]
    BY <2>1 DEF ConnInv, Uncancelled
  <2>6. ASSUME NEW f \in Entries PROVE Uncancelled(f)'
    BY <1>b, <2>1, <2>2, <2>3, <2>4, <2>5 DEF ConnInv, Uncancelled
  <2>7. QED BY <2>6
<1>2. ASSUME NEW t \in Targets, Submit(t) PROVE Goal
  <2>1. \A e \in Entries : entry'[e].target = entry[e].target
    BY <1>a, <1>2 DEF Submit, EntryRecord
  <2>2. CtxFrame
    BY <1>2, <2>1 DEF Submit, CtxFrame, Live
  <2>3. QED BY <2>2, CtxFrameKeeps
<1>3. ASSUME NEW r \in 1 .. MaxRequests, NEW t \in Targets, Disconnect(r, t) PROVE Goal
  <2>1. /\ Detach({streams[t]}, FreedBy({streams[t]}), Request(r)) /\ streams[t] # Nil
        /\ worker' = worker /\ open' = open
    BY <1>3 DEF Disconnect
  <2>2. {streams[t]} \in SUBSET Active /\ FreedBy({streams[t]}) \in SUBSET Groups
        /\ Request(r) \in Actors
    BY <1>a, <2>1 DEF Active, Live, FreedBy, Actors
  <2>3. QED BY <2>1, <2>2, DetachCtx
<1>4. ASSUME NEW a \in Actors, DetachAll(a), worker' = worker, open' = open PROVE Goal
  <2>1. Detach(Active, {g \in Groups : Published(g)}, a)
    BY <1>4 DEF DetachAll
  <2>2. {g \in Groups : Published(g)} \in SUBSET Groups
    OBVIOUS
  <2>3. QED BY <1>4, <2>1, <2>2, DetachCtx
<1>5. ASSUME NEW a \in Actors, Clean(a) PROVE Goal
  <2>1. FirstStage(plan[a]) \subseteq plan[a]
    BY DEF FirstStage
  <2>2. /\ open' = open \ FirstStage(plan[a])
        /\ \A b \in Actors : plan'[b] \subseteq plan[b]
        /\ UNCHANGED <<streams, entry, worker>>
    BY <1>a, <1>5 DEF Clean, maps
  <2>3. ASSUME NEW e \in Entries PROVE Uncancelled(e)'
    <3>1. Live(e)' <=> Live(e)
      BY <2>2 DEF Live
    <3>2. QED BY <1>b, <2>1, <2>2, <3>1 DEF ConnInv, Uncancelled
  <2>4. QED BY <2>3
<1>6. CASE ShutdownDone \/ UNCHANGED vars
  <2>1. CtxFrame
    BY <1>6 DEF ShutdownDone, vars, maps, CtxFrame, Live
  <2>2. QED BY <2>1, CtxFrameKeeps
<1>7. ASSUME NEW e \in Entries, Quiet(e) PROVE Goal
  <2>1. QuietEffect(e)
    BY <1>7, QuietSteps
  <2>2. \A f \in Entries : Ctx(f) \in open => Ctx(f) \in open'
    BY <1>7 DEF Quiet, Dial, GetInfo, Verify, Pair, PairPin, AskCredential, ShowPin, PromptReady,
       ReceiveCredential, WaitCancelled, Setup, PrepareAudio, RefuseCapture, Attach,
       AttachObsolete, StartAudio, StreamFramesReturns, StopAudio, Reconnect, PairOutcome,
       Ctx, Client, Audio
  <2>3. \A a \in Actors : plan'[a] = plan[a] \/ plan'[a] \subseteq {Session(e), Audio(e)}
    BY <1>a, <1>7 DEF Quiet, Dial, GetInfo, Verify, Pair, PairPin, AskCredential, ShowPin,
       PromptReady, ReceiveCredential, WaitCancelled, Setup, PrepareAudio, RefuseCapture,
       Attach, AttachObsolete, StartAudio, StreamFramesReturns, StopAudio
  <2>4. CtxFrame
    <3>1. \A f \in Entries : Live(f)' <=> Live(f)
      BY <2>1 DEF QuietEffect, Live
    <3>2. \A f \in Entries : Ctx(f) \notin {Session(e), Audio(e)}
      BY DEF Ctx, Session, Audio
    <3>3. \A f \in Entries : worker[f].pc # "none" => worker'[f].pc # "none"
      BY <2>1 DEF QuietEffect
    <3>4. QED BY <2>2, <2>3, <3>1, <3>2, <3>3 DEF CtxFrame
  <2>5. QED BY <2>4, CtxFrameKeeps
<1>8. ASSUME NEW e \in Entries,
             \/ JoinGroup(e) \/ PublishGroup(e) \/ CaptureStep(e) \/ CaptureDiscarded(e) \/ Exit(e)
      PROVE  Goal
  <2>1. /\ streams' = streams /\ \A f \in Entries : entry'[f].target = entry[f].target
        /\ \A f \in Entries : worker[f].pc # "none" => worker'[f].pc # "none"
    <3>1. streams' = streams /\ \A f \in Entries : entry'[f].target = entry[f].target
      <4>1. streams' = streams /\ (entry' = entry \/ \E h : entry' = [entry EXCEPT ![e].group = h])
        BY <1>8 DEF JoinGroup, PublishGroup, CaptureStep, CaptureFails, PublishCapture,
           DiscardCapture, CaptureDiscarded, Exit, maps
      <4>2. ASSUME NEW h, entry' = [entry EXCEPT ![e].group = h], NEW f \in Entries
            PROVE  entry'[f].target = entry[f].target
        <5>1. entry'[f] = IF f = e THEN [entry[f] EXCEPT !.group = h] ELSE entry[f]
          BY <1>a, <4>2
        <5>2. entry[f] \in EntryRecord
          BY <1>a
        <5>3. QED BY <5>1, <5>2 DEF EntryRecord
      <4>3. QED BY <4>1, <4>2
    <3>2. worker'[e].pc # "none"
      <4>1. CASE JoinGroup(e) \/ PublishGroup(e)
        BY <1>a, <4>1 DEF JoinGroup, PublishGroup, Goto, WorkerRecord
      <4>2. CASE CaptureStep(e)
        BY <1>a, <4>2 DEF CaptureStep, CaptureFails, PublishCapture, DiscardCapture, Goto,
                          WorkerRecord
      <4>3. CASE CaptureDiscarded(e) \/ Exit(e)
        BY <1>a, <4>3 DEF CaptureDiscarded, Exit, Goto, WorkerRecord, Locals
      <4>4. QED BY <1>8, <4>1, <4>2, <4>3
    <3>3. \A f \in Entries : f # e => worker'[f] = worker[f]
      BY <1>a, <1>8 DEF JoinGroup, PublishGroup, CaptureStep, CaptureFails, PublishCapture,
         DiscardCapture, CaptureDiscarded, Exit, Goto
    <3>4. QED BY <3>1, <3>2, <3>3
  <2>2. \A f \in Entries : Ctx(f) \in open => Ctx(f) \in open'
    BY <1>8 DEF JoinGroup, PublishGroup, CaptureStep, CaptureFails, PublishCapture,
       DiscardCapture, CaptureDiscarded, Exit, Ctx, GroupCtx
  <2>3. \A a \in Actors : \/ plan'[a] = plan[a]
                          \/ plan'[a] = {GroupCtx(worker[e].bc), Capture(worker[e].bc)}
    <3>1. CASE DiscardCapture(e)
      BY <1>a, <3>1 DEF DiscardCapture
    <3>2. CASE ~DiscardCapture(e)
      BY <1>8, <3>2 DEF JoinGroup, PublishGroup, CaptureStep, CaptureFails, PublishCapture,
         CaptureDiscarded, Exit
    <3>3. QED BY <3>1, <3>2
  <2>4. CtxFrame
    <3>1. \A f \in Entries : Live(f)' <=> Live(f)
      BY <2>1 DEF Live
    <3>2. \A f \in Entries : \A h : Ctx(f) # GroupCtx(h) /\ Ctx(f) # Capture(h)
      BY DEF Ctx, GroupCtx, Capture
    <3>3. QED BY <2>1, <2>2, <2>3, <3>1, <3>2 DEF CtxFrame
  <2>5. QED BY <2>4, CtxFrameKeeps
<1>9. ASSUME NEW e \in Entries, Abandon(e) PROVE Goal
  <2>1. /\ Detach({}, {g \in Groups : /\ g = entry[e].group /\ UsersOf(g) = {}
                                      /\ Published(g)}, Worker(e))
        /\ open' = open /\ worker' = [worker EXCEPT ![e].pc = "exit"]
    BY <1>9 DEF Abandon, Goto
  <2>2. \A f \in Entries : worker[f].pc # "none" => worker'[f].pc # "none"
    BY <1>a, <2>1 DEF WorkerRecord
  <2>3. {} \in SUBSET Active /\ Worker(e) \in Actors
        /\ {g \in Groups : g = entry[e].group /\ UsersOf(g) = {} /\ Published(g)} \in SUBSET Groups
    BY DEF Actors
  <2>4. QED BY <2>1, <2>2, <2>3, DetachCtx
<1>10. ASSUME NEW e \in Entries, StreamEnded(e) \/ RemoveStream(e) PROVE Goal
  <2>1. /\ \E p \in {"exit", "stopAudio"} : worker' = [worker EXCEPT ![e].pc = p]
        /\ open' = open
        /\ Live(e) => Detach({e}, FreedBy({e}), Worker(e))
        /\ ~Live(e) => UNCHANGED <<maps, plan>>
    BY <1>10 DEF StreamEnded, RemoveStream, Goto
  <2>2. \A f \in Entries : worker[f].pc # "none" => worker'[f].pc # "none"
    BY <1>a, <2>1 DEF WorkerRecord
  <2>3. CASE Live(e)
    <3>1. {e} \in SUBSET Active /\ FreedBy({e}) \in SUBSET Groups /\ Worker(e) \in Actors
      BY <2>3 DEF Active, FreedBy, Actors
    <3>2. QED BY <2>1, <2>2, <2>3, <3>1, DetachCtx
  <2>4. CASE ~Live(e)
    <3>1. CtxFrame
      BY <2>1, <2>2, <2>4 DEF CtxFrame, maps, Live
    <3>2. QED BY <3>1, CtxFrameKeeps
  <2>5. QED BY <2>3, <2>4
<1>11. ASSUME NEW g \in Groups, PumpStep(g) PROVE Goal
  <2>1. /\ worker' = worker /\ open' = open
        /\ Detach(UsersOf(g), {g}, Pump(g)) \/ UNCHANGED <<maps, plan>>
    BY <1>11 DEF PumpStep, BroadcastEnds, FinishCaptureGroup, PumpExits
  <2>2. CASE Detach(UsersOf(g), {g}, Pump(g))
    <3>1. UsersOf(g) \in SUBSET Active /\ {g} \in SUBSET Groups /\ Pump(g) \in Actors
      BY DEF UsersOf, Actors
    <3>2. QED BY <2>1, <2>2, <3>1, DetachCtx
  <2>3. CASE UNCHANGED <<maps, plan>>
    <3>1. CtxFrame
      BY <2>1, <2>3 DEF CtxFrame, maps, Live
    <3>2. QED BY <3>1, CtxFrameKeeps
  <2>4. QED BY <2>1, <2>2, <2>3
<1> HIDE DEF Goal
<1>12. ASSUME NEW e \in Entries, WorkerStep(e) PROVE Goal
  BY <1>12, <1>7, <1>8, <1>9, <1>10 DEF WorkerStep, ProtocolStep, LocalStep, CaptureStep, Quiet
<1>13. ASSUME NEW r \in 1 .. MaxRequests, DisconnectAll(r) PROVE Goal
  BY <1>4, <1>13 DEF DisconnectAll, Actors
<1>14. CASE Shutdown
  <2>1. DetachAll(Stopper) /\ worker' = worker /\ open' = open
    BY <1>14 DEF Shutdown
  <2>2. Stopper \in Actors
    BY DEF Actors
  <2>3. QED BY <1>4, <2>1, <2>2
<1> QED
  BY <1>1, <1>2, <1>3, <1>5, <1>6, <1>11, <1>12, <1>13, <1>14
  DEF Next, ControlStep, SubmitAnywhere

-----------------------------------------------------------------------------
(* Prompts and streams.                                                     *)

\* A step that leaves connection e alone, or detaches it.
Untouched(e) ==
    /\ worker'[e] = worker[e]
    /\ Live(e)' => Live(e) /\ entry'[e] = entry[e]

LEMMA UntouchedKeeps ==
    ASSUME ConnInv, NEW e \in Entries, Untouched(e)
    PROVE  Prompting(e)' /\ Streaming(e)'
PROOF
  BY DEF ConnInv, Prompting, Streaming, Untouched

LEMMA DetachUntouched ==
    ASSUME MapsInv, NEW E \in SUBSET Active, NEW G \in SUBSET Groups, NEW a \in Actors,
           Detach(E, G, a), NEW e \in Entries, worker'[e] = worker[e]
    PROVE  Untouched(e)
PROOF
<1>1. DetachEffect(E, G)
  BY DetachSteps
<1> QED BY <1>1 DEF DetachEffect, Untouched

\* The steps of the connection's own worker that stay away from the maps.
LEMMA QuietConn ==
    ASSUME MapsInv, ConnInv, NEW e \in Entries, Quiet(e)
    PROVE  Prompting(e)' /\ Streaming(e)'
PROOF
<1>a. /\ worker \in [Entries -> WorkerRecord] /\ entry \in [Entries -> EntryRecord]
      /\ Uncancelled(e) /\ Prompting(e) /\ Streaming(e)
      /\ Live(e)' <=> Live(e)
  <2>1. QuietEffect(e)
    BY QuietSteps
  <2>2. QED BY <2>1, StateFacts DEF QuietEffect, Live, ConnInv
<1>b. worker[e].next \in {"verify", "pair", "pairPin", "setup"} /\ worker[e].dials \in Nat
      /\ worker[e].bc \in Groups \cup {Nil} /\ entry[e].ch \in {0, 1}
  BY <1>a DEF WorkerRecord, EntryRecord
<1>c. ASSUME NEW p \in {"verify", "pair"}, At(e, p), entry' = entry,
             PairOutcome(e) \/ Reconnect(e, "pair")
      PROVE  Prompting(e)' /\ Streaming(e)'
  <2>1. \/ \E q \in {"setup", "fail"} : worker' = [worker EXCEPT ![e].pc = q]
        \/ \E q \in {"askPin", "askPassword", "dial"}, n \in {"setup", "pairPin", "pair"} :
              worker' = [worker EXCEPT ![e].pc = q, ![e].next = n]
    BY <1>c DEF PairOutcome, Goto, Ask, Reconnect
  <2>2. /\ worker'[e].pc \in {"setup", "fail", "askPin", "askPassword", "dial"}
        /\ worker'[e].bc = worker[e].bc /\ worker'[e].dials = worker[e].dials
    BY <1>a, <2>1 DEF WorkerRecord
  <2>3. QED BY <1>a, <1>b, <1>c, <2>2 DEF At, Prompting, Streaming
<1>1. ASSUME Dial(e) PROVE Prompting(e)' /\ Streaming(e)'
  BY <1>a, <1>b, <1>1 DEF Dial, At, Goto, maps, WorkerRecord, EntryRecord, Prompting, Streaming
<1>2. ASSUME GetInfo(e) PROVE Prompting(e)' /\ Streaming(e)'
  BY <1>a, <1>b, <1>2 DEF GetInfo, At, Goto, maps, WorkerRecord, EntryRecord, Prompting, Streaming
<1>3. ASSUME Verify(e) PROVE Prompting(e)' /\ Streaming(e)'
  BY <1>c, <1>3 DEF Verify, maps
<1>4. ASSUME Pair(e) PROVE Prompting(e)' /\ Streaming(e)'
  BY <1>c, <1>4 DEF Pair, maps
<1>5. ASSUME PairPin(e) PROVE Prompting(e)' /\ Streaming(e)'
  BY <1>a, <1>b, <1>5 DEF PairPin, At, Goto, Ask, maps, WorkerRecord, EntryRecord, Prompting, Streaming
<1>6. ASSUME AskCredential(e) PROVE Prompting(e)' /\ Streaming(e)'
  BY <1>a, <1>b, <1>6 DEF AskCredential, At, Goto, maps, WorkerRecord, EntryRecord, Prompting, Streaming
<1>7. ASSUME ShowPin(e) PROVE Prompting(e)' /\ Streaming(e)'
  BY <1>a, <1>b, <1>7 DEF ShowPin, At, Goto, maps, WorkerRecord, EntryRecord, Prompting, Streaming
<1>8. ASSUME PromptReady(e) PROVE Prompting(e)' /\ Streaming(e)'
  BY <1>a, <1>b, <1>8 DEF PromptReady, At, Goto, maps, WorkerRecord, EntryRecord, Prompting, Streaming
<1>9. ASSUME ReceiveCredential(e) PROVE Prompting(e)' /\ Streaming(e)'
  BY <1>a, <1>b, <1>9 DEF ReceiveCredential, At, Goto, maps, WorkerRecord, EntryRecord, Prompting, Streaming
<1>10. ASSUME WaitCancelled(e) PROVE Prompting(e)' /\ Streaming(e)'
  BY <1>a, <1>b, <1>10 DEF WaitCancelled, At, Goto, maps, WorkerRecord, EntryRecord, Prompting, Streaming, Uncancelled
<1>11. ASSUME Setup(e) PROVE Prompting(e)' /\ Streaming(e)'
  BY <1>a, <1>b, <1>11 DEF Setup, At, Goto, maps, WorkerRecord, EntryRecord, Prompting, Streaming
<1>12. ASSUME PrepareAudio(e) PROVE Prompting(e)' /\ Streaming(e)'
  BY <1>a, <1>b, <1>12 DEF PrepareAudio, At, Goto, maps, WorkerRecord, EntryRecord, Prompting, Streaming
<1>13. ASSUME RefuseCapture(e) PROVE Prompting(e)' /\ Streaming(e)'
  BY <1>a, <1>b, <1>13 DEF RefuseCapture, At, Goto, maps, WorkerRecord, EntryRecord, Prompting, Streaming
<1>14. ASSUME Attach(e) PROVE Prompting(e)' /\ Streaming(e)'
  BY <1>a, <1>b, <1>14 DEF Attach, At, Goto, maps, WorkerRecord, EntryRecord, Prompting, Streaming
<1>15. ASSUME AttachObsolete(e) PROVE Prompting(e)' /\ Streaming(e)'
  BY <1>a, <1>b, <1>15 DEF AttachObsolete, At, Goto, maps, WorkerRecord, EntryRecord, Prompting, Streaming
<1>16. ASSUME StartAudio(e) PROVE Prompting(e)' /\ Streaming(e)'
  BY <1>a, <1>b, <1>16 DEF StartAudio, At, Goto, maps, WorkerRecord, EntryRecord, Prompting, Streaming
<1>17. ASSUME StreamFramesReturns(e) PROVE Prompting(e)' /\ Streaming(e)'
  BY <1>a, <1>b, <1>17 DEF StreamFramesReturns, At, Goto, maps, WorkerRecord, EntryRecord, Prompting, Streaming
<1>18. ASSUME StopAudio(e) PROVE Prompting(e)' /\ Streaming(e)'
  BY <1>a, <1>b, <1>18 DEF StopAudio, At, Goto, maps, WorkerRecord, EntryRecord, Prompting, Streaming
<1> QED
  BY <1>1, <1>2, <1>3, <1>4, <1>5, <1>6, <1>7, <1>8, <1>9, <1>10, <1>11, <1>12, <1>13, <1>14, <1>15, <1>16, <1>17, <1>18
  DEF Quiet

\* Every step keeps the prompts and the streams as ConnInv says.
LEMMA ConnStep ==
    ASSUME MapsInv, UseInv, ConnInv, [Next]_vars, NEW e \in Entries
    PROVE  Prompting(e)' /\ Streaming(e)'
PROOF
<1> DEFINE Goal == Prompting(e)' /\ Streaming(e)'
<1> SUFFICES Goal
  OBVIOUS
<1>a. /\ TypeOK
      /\ entry \in [Entries -> EntryRecord] /\ group \in [Groups -> GroupRecord]
      /\ worker \in [Entries -> WorkerRecord] /\ pump \in [Groups -> PumpRecord]
      /\ streams \in [Targets -> Entries \cup {Nil}]
      /\ groups \in [Keys -> Groups \cup {Nil}]
      /\ Nil \notin Entries /\ Nil \notin Groups
      /\ \A f \in Entries : entry[f].target \in Targets
      /\ \A f \in Entries : Live(f) => worker[f].pc \notin Finished
      /\ \A t \in Targets : streams[t] # Nil => entry[streams[t]].target = t
  BY StateFacts
<1>b. /\ Uncancelled(e) /\ Prompting(e) /\ Streaming(e)
      /\ worker[e].dials \in Nat /\ worker[e].bc \in Groups \cup {Nil} /\ entry[e].ch \in {0, 1}
  BY <1>a DEF ConnInv, WorkerRecord, EntryRecord
<1>c. ASSUME Untouched(e) PROVE Goal
  BY <1>c, UntouchedKeeps
<1>1. ASSUME NEW t \in Targets, NEW c \in BOOLEAN, Connect(t, c) PROVE Goal
  <2>1. PICK f \in Entries :
           /\ worker[f].pc = "none"
           /\ streams' = [streams EXCEPT ![t] = f]
           /\ entry' = [entry EXCEPT ![f] = FreshEntry(t)]
           /\ worker' = [worker EXCEPT ![f].pc = "dial", ![f].cred = c]
    BY <1>1 DEF Connect
  <2>2. streams[t] = Nil
    BY <1>1 DEF Connect
  <2>3. CASE f = e
    <3>1. /\ worker'[e].pc = "dial" /\ worker'[e].bc = worker[e].bc
          /\ entry'[e].state = "connecting" /\ entry'[e].ch = 0 /\ entry'[e].group = Nil
      BY <1>a, <2>1, <2>3 DEF FreshEntry, WorkerRecord
    <3>2. worker[e].bc = Nil
      BY <1>b, <2>1, <2>3 DEF Streaming
    <3>3. QED BY <3>1, <3>2 DEF Prompting, Streaming
  <2>4. CASE f # e
    <3>1. worker'[e] = worker[e] /\ entry'[e] = entry[e]
      BY <1>a, <2>1, <2>4
    <3>2. Live(e)' => Live(e)
      BY <1>a, <2>1, <2>2, <2>4, <3>1 DEF Live
    <3>3. QED BY <1>c, <3>1, <3>2 DEF Untouched
  <2>5. QED BY <2>3, <2>4
<1>2. ASSUME NEW t \in Targets, Submit(t) PROVE Goal
  <2>1. PICK f \in Entries :
           /\ f = streams[t] /\ entry[f].state = "pinRequired" /\ entry[f].ch < 1
           /\ entry' = [entry EXCEPT ![f].state = "connecting", ![f].kind = "none",
                                     ![f].ch = @ + 1]
    BY <1>a, <1>2 DEF Submit, Pending
  <2>2. UNCHANGED <<streams, worker>>
    BY <1>2 DEF Submit
  <2>3. CASE f = e
    <3>1. /\ entry'[e].state = "connecting" /\ entry'[e].group = entry[e].group
          /\ entry'[e].target = entry[e].target /\ entry[e].state = "pinRequired"
      BY <1>a, <2>1, <2>3 DEF EntryRecord
    <3>2. Live(e)
      BY <1>a, <2>1, <2>3 DEF Live
    <3>3. worker[e].pc = "waiting"
      BY <1>b, <3>1, <3>2 DEF Prompting
    <3>4. QED BY <1>b, <2>2, <3>1, <3>2, <3>3 DEF Prompting, Streaming
  <2>4. CASE f # e
    <3>1. entry'[e] = entry[e]
      BY <1>a, <2>1, <2>4
    <3>2. QED BY <1>c, <2>2, <3>1 DEF Untouched, Live
  <2>5. QED BY <2>3, <2>4
<1>3. ASSUME NEW r \in 1 .. MaxRequests, NEW t \in Targets, Disconnect(r, t) PROVE Goal
  <2>1. /\ Detach({streams[t]}, FreedBy({streams[t]}), Request(r)) /\ streams[t] # Nil
        /\ worker' = worker
    BY <1>3 DEF Disconnect
  <2>2. {streams[t]} \in SUBSET Active /\ FreedBy({streams[t]}) \in SUBSET Groups
        /\ Request(r) \in Actors
    BY <1>a, <2>1 DEF Active, Live, FreedBy, Actors
  <2>3. QED BY <1>c, <2>1, <2>2, DetachUntouched
<1>4. ASSUME NEW a \in Actors, DetachAll(a), worker' = worker PROVE Goal
  <2>1. Detach(Active, {g \in Groups : Published(g)}, a)
    BY <1>4 DEF DetachAll
  <2>2. {g \in Groups : Published(g)} \in SUBSET Groups
    OBVIOUS
  <2>3. QED BY <1>c, <1>4, <2>1, <2>2, DetachUntouched
<1>5. ASSUME (\E a \in Actors : Clean(a)) \/ ShutdownDone \/ UNCHANGED vars PROVE Goal
  BY <1>c, <1>5 DEF Clean, ShutdownDone, vars, maps, Untouched, Live
<1>6. ASSUME NEW g \in Groups, PumpStep(g) PROVE Goal
  <2>1. /\ worker' = worker
        /\ Detach(UsersOf(g), {g}, Pump(g)) \/ UNCHANGED maps
    BY <1>6 DEF PumpStep, BroadcastEnds, FinishCaptureGroup, PumpExits
  <2>2. CASE Detach(UsersOf(g), {g}, Pump(g))
    <3>1. UsersOf(g) \in SUBSET Active /\ {g} \in SUBSET Groups /\ Pump(g) \in Actors
      BY DEF UsersOf, Actors
    <3>2. QED BY <1>c, <2>1, <2>2, <3>1, DetachUntouched
  <2>3. CASE UNCHANGED maps
    BY <1>c, <2>1, <2>3 DEF Untouched, maps, Live
  <2>4. QED BY <2>1, <2>2, <2>3
\* workers
<1>7. ASSUME Quiet(e) PROVE Goal
  BY <1>7, QuietConn
<1>8. ASSUME NEW f \in Entries, Quiet(f), f # e PROVE Goal
  <2>1. QuietEffect(f)
    BY <1>8, QuietSteps
  <2>2. QED BY <1>c, <1>8, <2>1 DEF QuietEffect, Untouched, Live
<1>9. ASSUME NEW f \in Entries, f # e,
             \/ JoinGroup(f) \/ PublishGroup(f) \/ CaptureStep(f) \/ CaptureDiscarded(f) \/ Exit(f)
      PROVE  Goal
  <2>1. streams' = streams /\ worker'[e] = worker[e] /\ entry'[e] = entry[e]
    BY <1>a, <1>9 DEF JoinGroup, PublishGroup, CaptureStep, CaptureFails, PublishCapture,
       DiscardCapture, CaptureDiscarded, Exit, Goto, maps
  <2>2. QED BY <1>c, <2>1 DEF Untouched, Live
<1>10. ASSUME NEW f \in Entries, Abandon(f) \/ StreamEnded(f) \/ RemoveStream(f) PROVE Goal
  <2>1. PICK p \in {"exit", "stopAudio"} : worker' = [worker EXCEPT ![f].pc = p]
    BY <1>10 DEF Abandon, StreamEnded, RemoveStream, Goto
  <2>2. \/ \E E \in SUBSET Active, G \in SUBSET Groups :
              Detach(E, G, Worker(f)) /\ (Live(f) => f \in E)
        \/ UNCHANGED maps /\ ~Live(f)
    <3>1. CASE Abandon(f)
      <4>1. ~Live(f)
        BY <1>a, <3>1 DEF Abandon, At, Finished
      <4>2. {} \in SUBSET Active /\ {g \in Groups : /\ g = entry[f].group /\ UsersOf(g) = {}
                                                    /\ Published(g)} \in SUBSET Groups
        OBVIOUS
      <4>3. QED BY <3>1, <4>1, <4>2 DEF Abandon
    <3>2. CASE StreamEnded(f) \/ RemoveStream(f)
      <4>1. Live(f) => {f} \in SUBSET Active /\ FreedBy({f}) \in SUBSET Groups
        BY DEF Active, FreedBy
      <4>2. QED BY <3>2, <4>1 DEF StreamEnded, RemoveStream
    <3>3. QED BY <1>10, <3>1, <3>2
  <2>3. ~Live(f)' /\ (Live(e)' => Live(e) /\ entry'[e] = entry[e])
    <3>1. ASSUME NEW E \in SUBSET Active, NEW G \in SUBSET Groups,
                 Detach(E, G, Worker(f)), Live(f) => f \in E
          PROVE  ~Live(f)' /\ (Live(e)' => Live(e) /\ entry'[e] = entry[e])
      <4>1. Worker(f) \in Actors
        BY DEF Actors
      <4>2. DetachEffect(E, G)
        BY <3>1, <4>1, DetachSteps
      <4>3. QED BY <3>1, <4>2 DEF DetachEffect
    <3>2. CASE UNCHANGED maps /\ ~Live(f)
      BY <3>2 DEF maps, Live
    <3>3. QED BY <2>2, <3>1, <3>2
  <2>4. CASE f # e
    BY <1>a, <1>c, <2>1, <2>3, <2>4 DEF Untouched
  <2>5. CASE f = e
    <3>1. /\ worker'[e].pc = p /\ worker'[e].dials = worker[e].dials
          /\ worker[e].pc \notin {"none", "dial", "exit", "gone"}
      BY <1>a, <1>10, <2>1, <2>5 DEF Abandon, StreamEnded, RemoveStream, At, WorkerRecord
    <3>2. p = "stopAudio" => worker[e].pc = "ended"
      <4>1. CASE StreamEnded(e)
        BY <4>1 DEF StreamEnded, At
      <4>2. CASE Abandon(e) \/ RemoveStream(e)
        <5>1. worker' = [worker EXCEPT ![e].pc = "exit"]
          BY <4>2 DEF Abandon, RemoveStream, Goto
        <5>2. worker'[e].pc = "exit"
          BY <1>a, <5>1 DEF WorkerRecord
        <5>3. QED BY <3>1, <5>2
      <4>3. QED BY <1>10, <2>5, <4>1, <4>2
    <3>3. QED BY <1>b, <2>3, <2>5, <3>1, <3>2 DEF Prompting, Streaming
  <2>6. QED BY <2>4, <2>5
<1>11. ASSUME JoinGroup(e) PROVE Goal
  <2>1. PICK k \in Keys :
           /\ groups[k] # Nil
           /\ entry' = [entry EXCEPT ![e].group = groups[k]]
           /\ IF group[groups[k]].broadcast
              THEN worker' = [worker EXCEPT ![e].pc = "setup", ![e].bc = groups[k]]
              ELSE Goto(e, "fail")
    BY <1>11 DEF JoinGroup
  <2>2. worker[e].pc = "prepare" /\ Live(e)
    BY <1>11 DEF JoinGroup, At
  <2>3. /\ entry'[e].group = groups[k]
        /\ entry'[e].state = entry[e].state /\ entry'[e].ch = entry[e].ch
        /\ worker'[e].dials = worker[e].dials
        /\ \/ worker'[e].pc = "setup" /\ worker'[e].bc = groups[k]
           \/ worker'[e].pc = "fail"
    BY <1>a, <2>1 DEF Goto, WorkerRecord, EntryRecord
  <2>4. QED BY <1>b, <2>2, <2>3 DEF Prompting, Streaming
<1>12. ASSUME PublishGroup(e) PROVE Goal
  <2>1. PICK g \in Groups :
           /\ entry' = [entry EXCEPT ![e].group = g]
           /\ worker' = [worker EXCEPT ![e].pc = "startCapture", ![e].bc = g]
    BY <1>12 DEF PublishGroup
  <2>2. worker[e].pc = "prepare" /\ Live(e)
    BY <1>12 DEF PublishGroup, At
  <2>3. /\ entry'[e].group = g
        /\ entry'[e].state = entry[e].state /\ entry'[e].ch = entry[e].ch
        /\ worker'[e].dials = worker[e].dials
        /\ worker'[e].pc = "startCapture" /\ worker'[e].bc = g
    BY <1>a, <2>1 DEF WorkerRecord, EntryRecord
  <2>4. QED BY <1>b, <2>2, <2>3 DEF Prompting, Streaming
<1>13. ASSUME CaptureStep(e) \/ CaptureDiscarded(e) PROVE Goal
  <2>1. /\ worker[e].pc \in {"startCapture", "discarded"} /\ streams' = streams
        /\ \E p \in {"setup", "fail", "discarded"} :
              worker' = [worker EXCEPT ![e].pc = p] /\ (p # "fail" => entry' = entry)
        /\ entry' = entry \/ \E h : entry' = [entry EXCEPT ![e].group = h]
    BY <1>13 DEF CaptureStep, CaptureFails, PublishCapture, DiscardCapture, CaptureDiscarded,
       At, Goto, maps
  <2>2. /\ worker'[e].pc \in {"setup", "fail", "discarded"}
        /\ worker'[e].dials = worker[e].dials /\ worker'[e].bc = worker[e].bc
        /\ worker'[e].pc # "fail" => entry' = entry
    BY <1>a, <2>1 DEF WorkerRecord
  <2>3. /\ entry'[e].state = entry[e].state /\ entry'[e].ch = entry[e].ch
        /\ entry'[e].target = entry[e].target
    <3>1. CASE entry' = entry
      BY <3>1
    <3>2. ASSUME NEW h, entry' = [entry EXCEPT ![e].group = h]
          PROVE  /\ entry'[e].state = entry[e].state /\ entry'[e].ch = entry[e].ch
                 /\ entry'[e].target = entry[e].target
      <4>1. entry'[e] = [entry[e] EXCEPT !.group = h] /\ entry[e] \in EntryRecord
        BY <1>a, <3>2
      <4>2. QED BY <4>1 DEF EntryRecord
    <3>3. QED BY <2>1, <3>1, <3>2
  <2>4. Live(e)' => Live(e)
    BY <2>1, <2>3 DEF Live
  <2>5. QED BY <1>b, <2>1, <2>2, <2>3, <2>4 DEF Prompting, Streaming
<1>14. ASSUME Exit(e) PROVE Goal
  <2>1. /\ worker[e].pc = "exit" /\ UNCHANGED maps /\ worker'[e].pc = "gone"
    BY <1>a, <1>14 DEF Exit, At, Locals
  <2>2. ~Live(e)'
    BY <1>a, <2>1 DEF maps, Live, Finished
  <2>3. QED BY <2>1, <2>2 DEF Prompting, Streaming
<1> HIDE DEF Goal
<1>15. ASSUME NEW f \in Entries, WorkerStep(f) PROVE Goal
  <2>1. CASE f = e
    BY <1>15, <2>1, <1>7, <1>10, <1>11, <1>12, <1>13, <1>14
    DEF WorkerStep, ProtocolStep, LocalStep, Quiet
  <2>2. CASE f # e
    BY <1>15, <2>2, <1>8, <1>9, <1>10 DEF WorkerStep, ProtocolStep, LocalStep, Quiet
  <2>3. QED BY <2>1, <2>2
<1>16. ASSUME NEW r \in 1 .. MaxRequests, DisconnectAll(r) PROVE Goal
  BY <1>4, <1>16 DEF DisconnectAll, Actors
<1>17. CASE Shutdown
  <2>1. DetachAll(Stopper) /\ worker' = worker
    BY <1>17 DEF Shutdown
  <2>2. Stopper \in Actors
    BY DEF Actors
  <2>3. QED BY <1>4, <2>1, <2>2
<1> QED
  BY <1>1, <1>2, <1>3, <1>5, <1>6, <1>15, <1>16, <1>17
  DEF Next, ControlStep, SubmitAnywhere

\* The invariant of the connections, of which the theorems below are
\* consequences.
THEOREM ConnectionsAgree == Spec => []ConnInv
PROOF
<1>1. Init /\ MapsInv => ConnInv
  <2> SUFFICES ASSUME Init, MapsInv, NEW e \in Entries
               PROVE  Uncancelled(e) /\ Prompting(e) /\ Streaming(e)
    BY DEF ConnInv
  <2>1. ~Live(e)
    BY StateFacts DEF Init, Live
  <2>2. worker[e].pc = "none" /\ worker[e].bc = Nil
    BY DEF Init, Locals
  <2>3. \A a \in Actors : plan[a] = {}
    BY DEF Init
  <2>4. QED BY <2>1, <2>2, <2>3 DEF Uncancelled, Prompting, Streaming
<1>2. MapsInv /\ UseInv /\ ConnInv /\ [Next]_vars => ConnInv'
  BY CtxStep, ConnStep DEF ConnInv
<1>3. QED BY <1>1, <1>2, MapsAgree, GroupsAgree, PTL DEF Spec

\* A prompt that control clients see has a worker listening and an empty channel
\* (PromptIsServed): the send made with d.mu held never blocks the daemon.
THEOREM PromptsAreServed == Spec => []PromptIsServed
PROOF
<1>1. MapsInv /\ ConnInv => PromptIsServed
  <2> SUFFICES ASSUME MapsInv, ConnInv, NEW t \in Targets, Pending(t)
               PROVE  LET e == streams[t]
                      IN worker[e].pc = "waiting" /\ entry[e].kind # "none" /\ entry[e].ch = 0
    BY DEF PromptIsServed
  <2>1. /\ streams[t] \in Entries /\ Live(streams[t])
        /\ entry[streams[t]].state = "pinRequired"
    BY StateFacts DEF Pending, Live
  <2>2. QED BY <2>1 DEF ConnInv, Prompting
<1>2. QED BY <1>1, MapsAgree, ConnectionsAgree, PTL

\* A stream that is shown as streaming has its session, client and sink, and its
\* encoder is running or about to report its end (StreamingIsComplete).
THEOREM StreamsAreComplete == Spec => []StreamingIsComplete
PROOF
<1>1. MapsInv /\ UseInv /\ ConnInv => StreamingIsComplete
  <2> SUFFICES ASSUME MapsInv, UseInv, ConnInv, NEW e \in Active, entry[e].state = "streaming"
               PROVE  /\ entry[e].session /\ entry[e].sink /\ entry[e].client # Nil
                      /\ entry[e].group # Nil /\ group[entry[e].group].broadcast
    BY DEF StreamingIsComplete
  <2>1. e \in Entries /\ Live(e)
    BY DEF Active
  <2>2. /\ worker[e].pc \in {"startAudio", "streaming", "ended"}
        /\ entry[e].session /\ entry[e].sink
        /\ entry[e].client # Nil /\ entry[e].group # Nil
    BY <2>1 DEF ConnInv, Streaming
  <2>3. entry[e].group \in Groups /\ Published(entry[e].group)
    BY <2>1, <2>2, StateFacts DEF UseInv, InUse, EntryRecord
  <2>4. group[entry[e].group].broadcast
    <3>1. ASSUME ~group[entry[e].group].broadcast PROVE FALSE
      <4>1. HalfBuilt(entry[e].group)
        BY <2>3, <3>1 DEF UseInv, HalfBuiltGroups
      <4>2. e \in UsersOf(entry[e].group)
        BY <2>1, UsersMember
      <4>3. QED BY <2>2, <4>1, <4>2 DEF HalfBuilt
    <3>2. QED BY <3>1
  <2>5. QED BY <2>2, <2>4
<1>2. QED BY <1>1, MapsAgree, GroupsAgree, ConnectionsAgree, PTL

-----------------------------------------------------------------------------
\* The five statements about what is reachable from the two maps hold together, for any
\* number of receivers, keys, connections and groups (MapsSound).
THEOREM MapsStaySound == Spec => []MapsSound
BY DetachedHoldsNothing, ShutdownStaysFinal, GroupsStayInUse, HalfBuiltStaysPrivate,
   StreamsAreComplete, PTL DEF MapsSound

\* Whoever comes too late changes nothing: no worker is added after Shutdown, and the worker
\* of a connection that was replaced leaves maps and lastError alone (LateStepsAreInert).
THEOREM LateStepsStayInert == Spec => LateStepsAreInert
BY WaitNeverRacesAdd, ObsoleteWorkersAreInert DEF LateStepsAreInert

-----------------------------------------------------------------------------
\* The reported failure of a receiver is cleared by a new connection to that receiver
\* or by the credential it asked for, and by nothing that happens to another one
\* (FailureStaysReported).
THEOREM FailureStays == Spec => FailureStaysReported
PROOF
<1>1. ASSUME MapsInv, [Next]_vars, lastError \in Targets, lastError' = "none"
      PROVE  Retried(lastError)
  <2>a. "none" \notin Targets /\ "capture" \notin Targets /\ Nil \notin Entries
    BY TargetsAssumption, StateFacts, <1>1
  <2>b. \A e \in Entries : entry[e].target \in Targets
    BY <1>1, StateFacts
  <2>1. ASSUME NEW t \in Targets, NEW c \in BOOLEAN, Connect(t, c) PROVE Retried(lastError)
    <3>1. lastError = t
      BY <1>1, <2>1, <2>a DEF Connect, ClearLastError
    <3>2. PICK e \in Entries : streams' = [streams EXCEPT ![t] = e]
      BY <2>1 DEF Connect
    <3>3. streams[t] = Nil /\ streams'[t] = e
      BY <2>1, <3>2, <1>1, StateFacts DEF Connect
    <3>4. QED BY <2>a, <3>1, <3>3 DEF Retried
  <2>2. ASSUME NEW t \in Targets, Submit(t) PROVE Retried(lastError)
    <3>1. lastError = t
      BY <1>1, <2>2, <2>a DEF Submit, ClearLastError
    <3>2. QED BY <2>2, <3>1 DEF Submit, Retried
  <2>3. ASSUME NEW e \in Entries, WorkerStep(e) PROVE lastError' # "none"
    <3>1. CASE RemoveStream(e)
      BY <1>1, <2>a, <2>b, <3>1 DEF RemoveStream
    <3>2. CASE Quiet(e)
      <4>1. QuietEffect(e)
        BY <1>1, <3>2, QuietSteps
      <4>2. QED BY <1>1, <2>a, <4>1 DEF QuietEffect
    <3>3. CASE JoinGroup(e) \/ PublishGroup(e) \/ CaptureStep(e) \/ CaptureDiscarded(e)
               \/ Abandon(e) \/ StreamEnded(e) \/ Exit(e)
      BY <1>1, <2>a, <3>3 DEF JoinGroup, PublishGroup, CaptureStep, CaptureFails,
         PublishCapture, DiscardCapture, CaptureDiscarded, Abandon, StreamEnded, Exit
    <3>4. QED BY <2>3, <3>1, <3>2, <3>3 DEF WorkerStep, ProtocolStep, LocalStep, Quiet
  <2>4. ASSUME NEW g \in Groups, PumpStep(g) PROVE lastError' # "none"
    BY <1>1, <2>a, <2>4 DEF PumpStep, BroadcastEnds, FinishCaptureGroup, PumpExits
  <2>5. ASSUME \/ \E a \in Actors : Clean(a)
               \/ \E r \in 1 .. MaxRequests : DisconnectAll(r) \/ \E t \in Targets : Disconnect(r, t)
               \/ Shutdown \/ ShutdownDone \/ UNCHANGED vars
        PROVE  lastError' # "none"
    BY <1>1, <2>a, <2>5 DEF Clean, DisconnectAll, Disconnect, Shutdown, ShutdownDone, vars
  <2>6. QED
    BY <1>1, <2>1, <2>2, <2>3, <2>4, <2>5 DEF Next, ControlStep, SubmitAnywhere
<1>2. MapsInv /\ [Next]_vars
         => [(lastError \in Targets /\ lastError' = "none") => Retried(lastError)]_vars
  BY <1>1
<1>3. QED BY <1>2, MapsAgree, PTL DEF Spec, FailureStaysReported

-----------------------------------------------------------------------------
(* The WaitGroup.                                                           *)

\* What streamWorkers counts: a worker, a pump, a disconnect request.
Runs(e) == worker[e].pc \notin {"none", "gone"}
Pumps(g) == pump[g].pc \in {"running", "ended", "cleaning"}
Cleans(r) == plan[Request(r)] # {}

\* A goroutine has a cleanup to run only while it is counted.
PlansRun ==
    /\ \A e \in Entries : plan[Worker(e)] # {} => Runs(e)
    /\ \A g \in Groups : plan[Pump(g)] # {} => pump[g].pc = "cleaning"
    /\ ~ShuttingDown => plan[Stopper] = {}

\* Shutdown returns when the counter is zero, and the counter stays zero.
DownForGood == shutdown = "down" => wg = 0 /\ plan[Stopper] = {}

CountInv == WaitGroupExact /\ PlansRun /\ DownForGood

\* The elements of Tracked, and that there are finitely many.
TrackedShape ==
    /\ \A e \in Entries : Worker(e) \in Tracked <=> Runs(e)
    /\ \A g \in Groups : Pump(g) \in Tracked <=> Pumps(g)
    /\ \A r \in 1 .. MaxRequests : Request(r) \in Tracked <=> Cleans(r)
    /\ Tracked \subseteq Actors \ {Stopper}
    /\ IsFiniteSet(Tracked)
    /\ Cardinality(Tracked) \in Nat

LEMMA TrackedElements == TrackedShape
PROOF
<1>1. Tracked = {Worker(e) : e \in {f \in Entries : Runs(f)}}
                \cup {Pump(g) : g \in {h \in Groups : Pumps(h)}}
                \cup {Request(r) : r \in {q \in 1 .. MaxRequests : Cleans(q)}}
  BY DEF Tracked, Worker, Pump, Request, Runs, Pumps, Cleans
<1>2. /\ \A e \in Entries : Worker(e) \in Tracked <=> Runs(e)
      /\ \A g \in Groups : Pump(g) \in Tracked <=> Pumps(g)
      /\ \A r \in 1 .. MaxRequests : Request(r) \in Tracked <=> Cleans(r)
  BY <1>1 DEF Worker, Pump, Request
<1>3. IsFiniteSet(Tracked)
  <2> DEFINE N == MaxConns + MaxGroups + MaxRequests
             Kinds == {"worker", "pump", "request"}
  <2>1. IsFiniteSet(0 .. N)
    BY BoundsAssumption, FS_Interval
  <2>2. IsFiniteSet(Kinds)
    <3>1. IsFiniteSet({}) /\ IsFiniteSet({} \cup {"worker"})
      BY FS_EmptySet, FS_AddElement
    <3>2. IsFiniteSet({} \cup {"worker"} \cup {"pump"})
      BY <3>1, FS_AddElement
    <3>3. IsFiniteSet({} \cup {"worker"} \cup {"pump"} \cup {"request"})
      BY <3>2, FS_AddElement
    <3>4. Kinds = {} \cup {"worker"} \cup {"pump"} \cup {"request"}
      OBVIOUS
    <3>5. QED BY <3>3, <3>4
  <2>3. IsFiniteSet(Kinds \X (0 .. N))
    BY <2>1, <2>2, FS_Product
  <2>4. Tracked \subseteq Kinds \X (0 .. N)
    BY <1>1, BoundsAssumption DEF Worker, Pump, Request, Entries, Groups
  <2>5. QED BY <2>3, <2>4, FS_Subset
<1>4. Cardinality(Tracked) \in Nat
  BY <1>3, FS_CardinalityType
<1>5. Tracked \subseteq Actors \ {Stopper}
  BY <1>1 DEF Actors, Worker, Pump, Request, Stopper
<1> QED BY <1>2, <1>3, <1>4, <1>5 DEF TrackedShape

LEMMA TrackedElementsNext == TrackedShape'
BY TrackedElements, PTL

\* A step changes at most whether actor x is counted.
CountsOnly(x) ==
    /\ \A e \in Entries : Worker(e) # x => (Runs(e)' <=> Runs(e))
    /\ \A g \in Groups : Pump(g) # x => (Pumps(g)' <=> Pumps(g))
    /\ \A r \in 1 .. MaxRequests : Request(r) # x => (Cleans(r)' <=> Cleans(r))

LEMMA CountFollows ==
    ASSUME WaitGroupExact, NEW x, CountsOnly(x),
           \/ wg' = wg /\ (x \in Tracked' <=> x \in Tracked)
           \/ wg' = wg + 1 /\ x \in Tracked' /\ x \notin Tracked
           \/ wg' = wg - 1 /\ x \notin Tracked' /\ x \in Tracked
    PROVE  WaitGroupExact'
PROOF
<1>1. ASSUME NEW a \in Actors \ {Stopper}, a # x PROVE a \in Tracked' <=> a \in Tracked
  <2>1. \/ \E e \in Entries : a = Worker(e)
        \/ \E g \in Groups : a = Pump(g)
        \/ \E r \in 1 .. MaxRequests : a = Request(r)
    BY <1>1 DEF Actors
  <2>2. ASSUME NEW e \in Entries, a = Worker(e) PROVE a \in Tracked' <=> a \in Tracked
    BY <1>1, <2>2, TrackedElements, TrackedElementsNext DEF TrackedShape, CountsOnly, Worker
  <2>3. ASSUME NEW g \in Groups, a = Pump(g) PROVE a \in Tracked' <=> a \in Tracked
    BY <1>1, <2>3, TrackedElements, TrackedElementsNext DEF TrackedShape, CountsOnly, Pump
  <2>4. ASSUME NEW r \in 1 .. MaxRequests, a = Request(r) PROVE a \in Tracked' <=> a \in Tracked
    BY <1>1, <2>4, TrackedElements, TrackedElementsNext DEF TrackedShape, CountsOnly, Request
  <2>5. QED BY <2>1, <2>2, <2>3, <2>4
<1>2. Tracked \subseteq Actors \ {Stopper} /\ Tracked' \subseteq Actors \ {Stopper}
  BY TrackedElements, TrackedElementsNext DEF TrackedShape, Actors, Worker, Pump, Request, Stopper
<1>3. CASE wg' = wg /\ (x \in Tracked' <=> x \in Tracked)
  <2>1. Tracked' = Tracked
    BY <1>1, <1>2, <1>3
  <2>2. QED BY <1>3, <2>1 DEF WaitGroupExact
<1>4. CASE wg' = wg + 1 /\ x \in Tracked' /\ x \notin Tracked
  <2>1. Tracked' = Tracked \cup {x}
    BY <1>1, <1>2, <1>4
  <2>2. Cardinality(Tracked \cup {x}) = Cardinality(Tracked) + 1
    BY <1>4, TrackedElements, FS_AddElement DEF TrackedShape
  <2>3. QED BY <1>4, <2>1, <2>2 DEF WaitGroupExact
<1>5. CASE wg' = wg - 1 /\ x \notin Tracked' /\ x \in Tracked
  <2>1. Tracked' = Tracked \ {x}
    BY <1>1, <1>2, <1>5
  <2>2. Cardinality(Tracked \ {x}) = Cardinality(Tracked) - 1
    BY <1>5, TrackedElements, FS_RemoveElement DEF TrackedShape
  <2>3. QED BY <1>5, <2>1, <2>2 DEF WaitGroupExact
<1> QED BY <1>3, <1>4, <1>5

\* What a step of a worker means for the WaitGroup: the worker runs before it, and
\* the step either ends it (Exit), or starts the pump of its group, or neither.
WorkerEffect(e) ==
    /\ shutdown' = shutdown /\ Runs(e)
    /\ \A f \in Entries : f # e => worker'[f] = worker[f]
    /\ \A a \in Actors : a # Worker(e) => plan'[a] = plan[a]
    /\ \A g \in Groups : pump[g].pc = "cleaning" => pump'[g].pc = "cleaning"
    /\ \/ wg' = wg /\ Runs(e)' /\ \A g \in Groups : Pumps(g)' <=> Pumps(g)
       \/ wg' = wg - 1 /\ ~Runs(e)' /\ plan'[Worker(e)] = {} /\ pump' = pump
       \/ /\ wg' = wg + 1 /\ Runs(e)'
          /\ \E g \in Groups : /\ ~Pumps(g) /\ Pumps(g)'
                               /\ \A h \in Groups : h # g => pump'[h] = pump[h]

LEMMA WorkerCounts ==
    ASSUME MapsInv, UseInv, NEW e \in Entries, WorkerStep(e)
    PROVE  WorkerEffect(e)
PROOF
<1>a. /\ worker \in [Entries -> WorkerRecord] /\ pump \in [Groups -> PumpRecord]
      /\ plan \in [Actors -> SUBSET Resource] /\ Worker(e) \in Actors
      /\ Nil \notin Groups /\ worker[e].bc \in Groups \cup {Nil}
  BY StateFacts DEF Actors, WorkerRecord
<1>b. worker[e].pc = "startCapture"
         => worker[e].bc \in Groups /\ pump[worker[e].bc].pc = "starting"
  BY <1>a DEF UseInv, Starting
<1>c. ASSUME NEW p, \/ plan' = plan \/ plan' = [plan EXCEPT ![Worker(e)] = p]
      PROVE  \A a \in Actors : a # Worker(e) => plan'[a] = plan[a]
  BY <1>a, <1>c
<1>1. CASE Quiet(e)
  <2>1. QuietEffect(e)
    BY <1>1, QuietSteps
  <2>2. plan' = plan \/ \E p : plan' = [plan EXCEPT ![Worker(e)] = p]
    BY <1>1 DEF Quiet, Dial, GetInfo, Verify, Pair, PairPin, AskCredential, ShowPin,
       PromptReady, ReceiveCredential, WaitCancelled, Setup, PrepareAudio, RefuseCapture,
       Attach, AttachObsolete, StartAudio, StreamFramesReturns, StopAudio
  <2>3. QED BY <1>c, <2>1, <2>2 DEF QuietEffect, WorkerEffect, Runs, Pumps
<1>2. CASE JoinGroup(e)
  <2>1. /\ worker[e].pc = "prepare" /\ UNCHANGED <<pump, plan, shutdown, wg>>
        /\ \/ \E g : worker' = [worker EXCEPT ![e].pc = "setup", ![e].bc = g]
           \/ worker' = [worker EXCEPT ![e].pc = "fail"]
    BY <1>2 DEF JoinGroup, At, Goto, unchangedByWorker
  <2>2. /\ worker'[e].pc \in {"setup", "fail"}
        /\ \A f \in Entries : f # e => worker'[f] = worker[f]
    BY <1>a, <2>1 DEF WorkerRecord
  <2>3. QED BY <2>1, <2>2 DEF WorkerEffect, Runs, Pumps
<1>3. CASE PublishGroup(e)
  <2>1. PICK g \in Groups :
           /\ pump[g].pc = "none" /\ pump' = [pump EXCEPT ![g].pc = "starting"]
           /\ worker' = [worker EXCEPT ![e].pc = "startCapture", ![e].bc = g]
    BY <1>3 DEF PublishGroup
  <2>2. worker[e].pc = "prepare" /\ UNCHANGED <<plan, shutdown, wg>>
    BY <1>3 DEF PublishGroup, At
  <2>3. /\ worker'[e].pc = "startCapture"
        /\ \A f \in Entries : f # e => worker'[f] = worker[f]
        /\ pump'[g].pc = "starting" /\ \A h \in Groups : h # g => pump'[h] = pump[h]
    BY <1>a, <2>1 DEF WorkerRecord, PumpRecord
  <2>4. QED BY <2>1, <2>2, <2>3 DEF WorkerEffect, Runs, Pumps
<1>4. CASE CaptureStep(e)
  <2>a. worker[e].pc = "startCapture" /\ shutdown' = shutdown
    BY <1>4 DEF CaptureStep, CaptureFails, PublishCapture, DiscardCapture, At
  <2>b. PICK g \in Groups : g = worker[e].bc /\ pump[g].pc = "starting"
    BY <1>b, <2>a
  <2>1. /\ worker[e].pc = "startCapture" /\ shutdown' = shutdown
        /\ g \in Groups /\ pump[g].pc = "starting"
    BY <2>a, <2>b
  <2>2. /\ \E p \in {"setup", "fail", "discarded"} : worker' = [worker EXCEPT ![e].pc = p]
        /\ plan' = plan \/ \E p : plan' = [plan EXCEPT ![Worker(e)] = p]
    BY <1>4 DEF CaptureStep, CaptureFails, PublishCapture, DiscardCapture, Goto
  <2>3. \/ wg' = wg /\ pump' = [pump EXCEPT ![g].pc = "gone"]
        \/ wg' = wg + 1 /\ pump' = [pump EXCEPT ![g].pc = "running"]
    BY <1>4, <2>b DEF CaptureStep, CaptureFails, PublishCapture, DiscardCapture
  <2>4. /\ worker'[e].pc \in {"setup", "fail", "discarded"}
        /\ \A f \in Entries : f # e => worker'[f] = worker[f]
    BY <1>a, <2>2 DEF WorkerRecord
  <2>5. /\ \A h \in Groups : h # g => pump'[h] = pump[h]
        /\ \/ wg' = wg /\ pump'[g].pc = "gone"
           \/ wg' = wg + 1 /\ pump'[g].pc = "running"
    BY <1>a, <2>1, <2>3 DEF PumpRecord
  <2>6. \A a \in Actors : a # Worker(e) => plan'[a] = plan[a]
    BY <1>c, <2>2
  <2>7. \A h \in Groups : pump[h].pc = "cleaning" => pump'[h].pc = "cleaning"
    BY <2>1, <2>5
  <2>8. CASE wg' = wg /\ pump'[g].pc = "gone"
    BY <2>1, <2>4, <2>5, <2>6, <2>7, <2>8 DEF WorkerEffect, Runs, Pumps
  <2>9. CASE wg' = wg + 1 /\ pump'[g].pc = "running"
    <3>1. ~Pumps(g) /\ Pumps(g)'
      BY <2>1, <2>9 DEF Pumps
    <3>2. Runs(e) /\ Runs(e)'
      BY <2>1, <2>4 DEF Runs
    <3>3. \E j \in Groups : /\ ~Pumps(j) /\ Pumps(j)'
                            /\ \A h \in Groups : h # j => pump'[h] = pump[h]
      BY <2>1, <2>5, <3>1
    <3>4. QED BY <2>1, <2>4, <2>6, <2>7, <2>9, <3>2, <3>3 DEF WorkerEffect
  <2>10. QED BY <2>5, <2>8, <2>9
<1>5. CASE CaptureDiscarded(e) \/ Abandon(e) \/ StreamEnded(e) \/ RemoveStream(e)
  <2>1. /\ worker[e].pc \in {"discarded", "abandon", "ended", "fail"}
        /\ \E p \in {"fail", "exit", "stopAudio"} : worker' = [worker EXCEPT ![e].pc = p]
        /\ plan' = plan \/ \E p : plan' = [plan EXCEPT ![Worker(e)] = p]
        /\ UNCHANGED <<pump, shutdown, wg>>
    BY <1>5 DEF CaptureDiscarded, Abandon, StreamEnded, RemoveStream, At, Goto, Detach,
       unchangedByWorker
  <2>2. /\ worker'[e].pc \in {"fail", "exit", "stopAudio"}
        /\ \A f \in Entries : f # e => worker'[f] = worker[f]
    BY <1>a, <2>1 DEF WorkerRecord
  <2>3. \A a \in Actors : a # Worker(e) => plan'[a] = plan[a]
    BY <1>c, <2>1
  <2>4. QED BY <2>1, <2>2, <2>3 DEF WorkerEffect, Runs, Pumps
<1>6. CASE Exit(e)
  <2>1. /\ worker[e].pc = "exit" /\ plan[Worker(e)] = {}
        /\ UNCHANGED <<pump, plan, shutdown>> /\ wg' = wg - 1
        /\ worker'[e].pc = "gone" /\ \A f \in Entries : f # e => worker'[f] = worker[f]
    BY <1>a, <1>6 DEF Exit, At, Locals
  <2>2. QED BY <2>1 DEF WorkerEffect, Runs, Pumps
<1> QED
  BY <1>1, <1>2, <1>3, <1>4, <1>5, <1>6 DEF WorkerStep, ProtocolStep, LocalStep, CaptureStep, Quiet

\* A disconnect request registers its cleanup exactly when it has one.
LEMMA RequestCounts ==
    ASSUME MapsInv, CountInv, NEW r \in 1 .. MaxRequests, NEW E, NEW G,
           plan[Request(r)] = {}, Detach(E, G, Request(r)),
           wg' = IF plan'[Request(r)] # {} THEN wg + 1 ELSE wg,
           UNCHANGED <<worker, pump, shutdown>>
    PROVE  WaitGroupExact' /\ PlansRun'
PROOF
<1>1. plan' = [plan EXCEPT ![Request(r)] = plan'[Request(r)]] /\ Request(r) \in Actors
      /\ plan \in [Actors -> SUBSET Resource]
  BY StateFacts DEF Detach, Actors
<1>2. \A a \in Actors : a # Request(r) => plan'[a] = plan[a]
  BY <1>1
<1>3. PlansRun'
  BY <1>2 DEF CountInv, PlansRun, Runs, ShuttingDown, Actors, Worker, Pump, Request, Stopper
<1>4. CountsOnly(Request(r))
  BY <1>2 DEF CountsOnly, Runs, Pumps, Cleans, Actors
<1>5. /\ Request(r) \in Tracked <=> Cleans(r)
      /\ Request(r) \in Tracked' <=> Cleans(r)'
  BY TrackedElements, TrackedElementsNext DEF TrackedShape, Request
<1>6. WaitGroupExact'
  BY <1>4, <1>5, CountFollows DEF CountInv, Cleans
<1> QED BY <1>3, <1>6

\* The counter stays exact, whatever step is taken.
LEMMA CountStep ==
    ASSUME MapsInv, UseInv, CountInv, [Next]_vars
    PROVE  WaitGroupExact' /\ PlansRun'
PROOF
<1> DEFINE Goal == WaitGroupExact' /\ PlansRun'
<1> SUFFICES Goal
  OBVIOUS
<1>a. /\ worker \in [Entries -> WorkerRecord] /\ pump \in [Groups -> PumpRecord]
      /\ plan \in [Actors -> SUBSET Resource]
      /\ \A e \in Entries : Worker(e) \in Actors
      /\ \A g \in Groups : Pump(g) \in Actors
      /\ \A r \in 1 .. MaxRequests : Request(r) \in Actors
      /\ Stopper \in Actors
      /\ \A a, b \in Actors : a[1] # b[1] => a # b
  BY StateFacts DEF Actors
<1>b. /\ \A e \in Entries, g \in Groups : Worker(e) # Pump(g)
      /\ \A e \in Entries : Worker(e) # Stopper
      /\ \A e \in Entries, r \in 1 .. MaxRequests : Worker(e) # Request(r)
      /\ \A g \in Groups, r \in 1 .. MaxRequests : Pump(g) # Request(r)
      /\ \A g \in Groups : Pump(g) # Stopper
      /\ \A r \in 1 .. MaxRequests : Request(r) # Stopper
      /\ \A e, f \in Entries : Worker(e) = Worker(f) => e = f
      /\ \A g, h \in Groups : Pump(g) = Pump(h) => g = h
      /\ \A r, q \in 1 .. MaxRequests : Request(r) = Request(q) => r = q
  BY DEF Worker, Pump, Request, Stopper
<1>c. TrackedShape /\ TrackedShape'
  BY TrackedElements, TrackedElementsNext
<1>d. WaitGroupExact /\ PlansRun
  BY DEF CountInv
\* A step that touches neither goroutines nor plans.
<1>e. ASSUME UNCHANGED <<worker, pump, plan, wg>>, ~ShuttingDown' => ~ShuttingDown PROVE Goal
  <2>1. CountsOnly(Stopper)
    BY <1>e DEF CountsOnly, Runs, Pumps, Cleans
  <2>2. Stopper \notin Tracked /\ Stopper \notin Tracked'
    BY <1>c DEF TrackedShape
  <2>3. WaitGroupExact'
    BY <1>d, <1>e, <2>1, <2>2, CountFollows
  <2>4. PlansRun'
    BY <1>d, <1>e DEF PlansRun, Runs
  <2>5. QED BY <2>3, <2>4
<1>1. ASSUME NEW t \in Targets, NEW c \in BOOLEAN, Connect(t, c) PROVE Goal
  <2>1. PICK e \in Entries : /\ worker[e].pc = "none"
                             /\ worker' = [worker EXCEPT ![e].pc = "dial", ![e].cred = c]
    BY <1>1 DEF Connect
  <2>2. UNCHANGED <<pump, plan, shutdown>> /\ wg' = wg + 1
    BY <1>1 DEF Connect
  <2>3. worker'[e].pc = "dial" /\ \A f \in Entries : f # e => worker'[f] = worker[f]
    BY <1>a, <2>1 DEF WorkerRecord
  <2>4. Runs(e)' /\ ~Runs(e) /\ \A f \in Entries : f # e => (Runs(f)' <=> Runs(f))
    BY <2>1, <2>3 DEF Runs
  <2>5. CountsOnly(Worker(e))
    BY <2>2, <2>4 DEF CountsOnly, Pumps, Cleans
  <2>6. Worker(e) \in Tracked' /\ Worker(e) \notin Tracked
    BY <1>c, <2>4 DEF TrackedShape, Worker
  <2>7. WaitGroupExact'
    BY <1>d, <2>2, <2>5, <2>6, CountFollows
  <2>8. PlansRun'
    BY <1>d, <2>2, <2>4 DEF PlansRun, ShuttingDown, Worker, Pump, Stopper
  <2>9. QED BY <2>7, <2>8
<1>2. ASSUME NEW t \in Targets, Submit(t) PROVE Goal
  BY <1>e, <1>2 DEF Submit, ShuttingDown
<1>3. ASSUME NEW r \in 1 .. MaxRequests, NEW t \in Targets, Disconnect(r, t) PROVE Goal
  BY <1>3, RequestCounts DEF Disconnect
<1>4. ASSUME NEW r \in 1 .. MaxRequests, DisconnectAll(r) PROVE Goal
  BY <1>4, RequestCounts DEF DisconnectAll, DetachAll
<1>5. CASE Shutdown
  <2>1. /\ UNCHANGED <<worker, pump, wg>> /\ shutdown' = "cleaning"
        /\ plan' = [plan EXCEPT ![Stopper] = plan'[Stopper]]
    BY <1>5, <1>a DEF Shutdown, DetachAll, Detach
  <2>2. \A a \in Actors : a # Stopper => plan'[a] = plan[a]
    BY <1>a, <2>1
  <2>3. CountsOnly(Stopper)
    BY <1>a, <1>b, <2>1, <2>2 DEF CountsOnly, Runs, Pumps, Cleans
  <2>4. Stopper \notin Tracked /\ Stopper \notin Tracked'
    BY <1>c DEF TrackedShape
  <2>5. WaitGroupExact'
    BY <1>d, <2>1, <2>3, <2>4, CountFollows
  <2>6. PlansRun'
    <3>1. \A e \in Entries : plan'[Worker(e)] = plan[Worker(e)]
      BY <1>a, <1>b, <2>2
    <3>2. \A g \in Groups : plan'[Pump(g)] = plan[Pump(g)]
      BY <1>a, <1>b, <2>2
    <3>3. ShuttingDown'
      BY <2>1 DEF ShuttingDown
    <3>4. QED
      BY <1>d, <2>1, <3>1, <3>2, <3>3 DEF PlansRun, Runs, Worker, Pump
  <2>7. QED BY <2>5, <2>6
<1>6. CASE ShutdownDone
  BY <1>e, <1>6 DEF ShutdownDone, ShuttingDown
<1>7. ASSUME NEW a \in Actors, Clean(a) PROVE Goal
  <2>1. /\ plan[a] # {} /\ UNCHANGED <<worker, pump, shutdown>>
        /\ plan' = [plan EXCEPT ![a] = plan'[a]]
        /\ wg' = IF a[1] = "request" /\ plan'[a] = {} THEN wg - 1 ELSE wg
    BY <1>7, <1>a DEF Clean
  <2>2. \A b \in Actors : b # a => plan'[b] = plan[b]
    BY <1>a, <2>1
  <2>3. PlansRun'
    <3>1. \A e \in Entries : plan'[Worker(e)] # {} => plan[Worker(e)] # {}
      BY <1>a, <2>1, <2>2
    <3>2. \A g \in Groups : plan'[Pump(g)] # {} => plan[Pump(g)] # {}
      BY <1>a, <2>1, <2>2
    <3>3. plan'[Stopper] # {} => plan[Stopper] # {}
      BY <1>a, <2>1, <2>2
    <3>4. QED BY <1>d, <2>1, <3>1, <3>2, <3>3 DEF PlansRun, Runs, ShuttingDown, Worker, Pump
  <2>4. CountsOnly(a)
    BY <1>a, <2>1, <2>2 DEF CountsOnly, Runs, Pumps, Cleans
  <2>5. CASE a[1] = "request"
    <3>1. PICK r \in 1 .. MaxRequests : a = Request(r)
      BY <2>5 DEF Actors, Worker, Pump, Stopper
    <3>2. /\ a \in Tracked
          /\ a \in Tracked' <=> plan'[a] # {}
      BY <1>c, <2>1, <3>1 DEF TrackedShape, Cleans, Request
    <3>3. WaitGroupExact'
      BY <1>d, <2>1, <2>4, <2>5, <3>2, CountFollows
    <3>4. QED BY <2>3, <3>3
  <2>6. CASE a[1] # "request"
    <3>1. a \in Tracked' <=> a \in Tracked
      <4>1. ASSUME NEW e \in Entries, a = Worker(e) PROVE a \in Tracked' <=> a \in Tracked
        BY <1>c, <2>1, <4>1 DEF TrackedShape, Runs, Worker
      <4>2. ASSUME NEW g \in Groups, a = Pump(g) PROVE a \in Tracked' <=> a \in Tracked
        BY <1>c, <2>1, <4>2 DEF TrackedShape, Pumps, Pump
      <4>3. CASE a = Stopper
        BY <1>c, <4>3 DEF TrackedShape
      <4>4. QED BY <2>6, <4>1, <4>2, <4>3 DEF Actors, Request
    <3>2. WaitGroupExact'
      BY <1>d, <2>1, <2>4, <2>6, <3>1, CountFollows
    <3>3. QED BY <2>3, <3>2
  <2>7. QED BY <2>5, <2>6
<1>8. ASSUME NEW e \in Entries, WorkerStep(e) PROVE Goal
  <2>1. /\ shutdown' = shutdown /\ Runs(e)
        /\ \A f \in Entries : f # e => worker'[f] = worker[f]
        /\ \A a \in Actors : a # Worker(e) => plan'[a] = plan[a]
        /\ \A g \in Groups : pump[g].pc = "cleaning" => pump'[g].pc = "cleaning"
        /\ \/ wg' = wg /\ Runs(e)' /\ \A g \in Groups : Pumps(g)' <=> Pumps(g)
           \/ wg' = wg - 1 /\ ~Runs(e)' /\ plan'[Worker(e)] = {} /\ pump' = pump
           \/ /\ wg' = wg + 1 /\ Runs(e)'
              /\ \E g \in Groups : /\ ~Pumps(g) /\ Pumps(g)'
                                   /\ \A h \in Groups : h # g => pump'[h] = pump[h]
    BY <1>8, WorkerCounts DEF WorkerEffect
  <2>2. /\ \A f \in Entries : f # e => plan'[Worker(f)] = plan[Worker(f)]
        /\ \A g \in Groups : plan'[Pump(g)] = plan[Pump(g)]
        /\ \A r \in 1 .. MaxRequests : plan'[Request(r)] = plan[Request(r)]
        /\ plan'[Stopper] = plan[Stopper]
    BY <1>a, <1>b, <2>1
  <2>3. PlansRun'
    <3>1. ASSUME NEW f \in Entries, plan'[Worker(f)] # {} PROVE Runs(f)'
      <4>1. CASE f = e
        BY <2>1, <3>1, <4>1
      <4>2. CASE f # e
        BY <1>d, <2>1, <2>2, <3>1, <4>2 DEF PlansRun, Runs
      <4>3. QED BY <4>1, <4>2
    <3>2. \A g \in Groups : plan'[Pump(g)] # {} => pump'[g].pc = "cleaning"
      BY <1>d, <2>1, <2>2 DEF PlansRun
    <3>3. ~ShuttingDown' => plan'[Stopper] = {}
      BY <1>d, <2>1, <2>2 DEF PlansRun, ShuttingDown
    <3>4. QED BY <3>1, <3>2, <3>3 DEF PlansRun, Worker, Pump, Stopper
  <2>4. /\ \A f \in Entries : f # e => (Runs(f)' <=> Runs(f))
        /\ \A r \in 1 .. MaxRequests : Cleans(r)' <=> Cleans(r)
    BY <2>1, <2>2 DEF Runs, Cleans, Request
  <2>5. /\ Worker(e) \in Tracked
        /\ Worker(e) \in Tracked' <=> Runs(e)'
    BY <1>c, <2>1 DEF TrackedShape, Worker
  <2>6. CASE wg' = wg /\ Runs(e)' /\ \A g \in Groups : Pumps(g)' <=> Pumps(g)
    <3>1. CountsOnly(Worker(e))
      BY <2>4, <2>6 DEF CountsOnly
    <3>2. QED BY <1>d, <2>3, <2>5, <2>6, <3>1, CountFollows
  <2>7. CASE wg' = wg - 1 /\ ~Runs(e)' /\ pump' = pump
    <3>1. CountsOnly(Worker(e))
      BY <2>4, <2>7 DEF CountsOnly, Pumps
    <3>2. QED BY <1>d, <2>3, <2>5, <2>7, <3>1, CountFollows
  <2>8. CASE /\ wg' = wg + 1 /\ Runs(e)'
             /\ \E g \in Groups : /\ ~Pumps(g) /\ Pumps(g)'
                                  /\ \A h \in Groups : h # g => pump'[h] = pump[h]
    <3>1. PICK g \in Groups : /\ ~Pumps(g) /\ Pumps(g)'
                              /\ \A h \in Groups : h # g => pump'[h] = pump[h]
      BY <2>8
    <3>2. Pump(g) \in Tracked' /\ Pump(g) \notin Tracked
      BY <1>c, <3>1 DEF TrackedShape, Pump
    <3>3. \A h \in Groups : h # g => (Pumps(h)' <=> Pumps(h))
      BY <3>1 DEF Pumps
    <3>4. CountsOnly(Pump(g))
      BY <2>1, <2>4, <2>8, <3>3 DEF CountsOnly
    <3>5. WaitGroupExact'
      BY <1>d, <2>8, <3>2, <3>4, CountFollows
    <3>6. QED BY <2>3, <3>5
  <2>9. QED BY <2>1, <2>6, <2>7, <2>8
<1>9. ASSUME NEW g \in Groups, PumpStep(g) PROVE Goal
  <2>a. /\ UNCHANGED <<worker, shutdown>>
        /\ \A h \in Groups : h # g => pump'[h] = pump[h]
        /\ \A b \in Actors : b # Pump(g) => plan'[b] = plan[b]
    BY <1>9, <1>a DEF PumpStep, BroadcastEnds, FinishCaptureGroup, PumpExits, Detach, maps
  <2>b. /\ \A e \in Entries : plan'[Worker(e)] = plan[Worker(e)]
        /\ \A h \in Groups : h # g => plan'[Pump(h)] = plan[Pump(h)]
        /\ \A r \in 1 .. MaxRequests : plan'[Request(r)] = plan[Request(r)]
        /\ plan'[Stopper] = plan[Stopper]
    BY <1>a, <1>b, <2>a
  <2>c. CountsOnly(Pump(g))
    BY <2>a, <2>b DEF CountsOnly, Runs, Pumps, Cleans, Request
  <2>d. /\ \/ pump[g].pc = "running" /\ pump'[g].pc = "ended" /\ wg' = wg /\ plan' = plan
           \/ pump[g].pc = "ended" /\ pump'[g].pc = "cleaning" /\ wg' = wg
           \/ /\ pump[g].pc = "cleaning" /\ pump'[g].pc = "gone" /\ wg' = wg - 1
              /\ plan'[Pump(g)] = {}
    BY <1>9, <1>a DEF PumpStep, BroadcastEnds, FinishCaptureGroup, PumpExits, PumpRecord
  <2>e. plan'[Pump(g)] # {} => pump'[g].pc = "cleaning"
    BY <1>d, <2>d DEF PlansRun
  <2>1. PlansRun'
    <3>1. \A h \in Groups : plan'[Pump(h)] # {} => pump'[h].pc = "cleaning"
      BY <1>d, <2>a, <2>b, <2>e DEF PlansRun
    <3>2. QED BY <1>d, <2>a, <2>b, <3>1 DEF PlansRun, Runs, ShuttingDown, Worker, Pump, Stopper
  <2>2. /\ Pump(g) \in Tracked <=> Pumps(g)
        /\ Pump(g) \in Tracked' <=> Pumps(g)'
    BY <1>c DEF TrackedShape, Pump
  <2>3. WaitGroupExact'
    BY <1>d, <2>c, <2>d, <2>2, CountFollows DEF Pumps
  <2>4. QED BY <2>1, <2>3
<1>10. CASE UNCHANGED vars
  BY <1>e, <1>10 DEF vars, ShuttingDown
<1> HIDE DEF Goal
<1> QED
  BY <1>1, <1>2, <1>3, <1>4, <1>5, <1>6, <1>7, <1>8, <1>9, <1>10
  DEF Next, ControlStep, SubmitAnywhere

\* Once Shutdown has returned the counter is zero and stays zero.
LEMMA DownStep ==
    ASSUME MapsInv, CountInv, WaitGroupExact', [Next]_vars
    PROVE  DownForGood'
PROOF
<1> SUFFICES ASSUME shutdown' = "down" PROVE wg' = 0 /\ plan'[Stopper] = {}
  BY DEF DownForGood
<1>a. /\ plan \in [Actors -> SUBSET Resource] /\ Stopper \in Actors
      /\ \A e \in Entries : Worker(e) \in Actors /\ Worker(e) # Stopper
      /\ \A g \in Groups : Pump(g) \in Actors /\ Pump(g) # Stopper
      /\ \A r \in 1 .. MaxRequests : Request(r) \in Actors /\ Request(r) # Stopper
  BY StateFacts DEF Actors, Worker, Pump, Request, Stopper
<1>1. CASE ShutdownDone
  BY <1>1 DEF ShutdownDone
<1>2. CASE ~ShutdownDone
  <2>1. shutdown = "down"
    <3>1. ASSUME NEW e \in Entries, WorkerStep(e) PROVE shutdown' = shutdown
      <4>1. CASE Quiet(e)
        BY <4>1, QuietSteps DEF QuietEffect
      <4>2. CASE ~Quiet(e)
        BY <3>1, <4>2 DEF WorkerStep, ProtocolStep, LocalStep, CaptureStep, Quiet, JoinGroup,
           PublishGroup, CaptureFails, PublishCapture, DiscardCapture, CaptureDiscarded,
           Abandon, StreamEnded, RemoveStream, Exit, unchangedByWorker
      <4>3. QED BY <4>1, <4>2
    <3>2. ASSUME NEW g \in Groups, PumpStep(g) PROVE shutdown' = shutdown
      BY <3>2 DEF PumpStep, BroadcastEnds, FinishCaptureGroup, PumpExits
    <3>3. ASSUME ControlStep \/ (\E a \in Actors : Clean(a)) \/ UNCHANGED vars
          PROVE  shutdown' = shutdown
      BY <3>3 DEF ControlStep, Connect, Submit, SubmitAnywhere, Disconnect, DisconnectAll,
         Clean, vars
    <3>4. ~Shutdown
      BY DEF Shutdown
    <3>5. QED BY <1>2, <3>1, <3>2, <3>3, <3>4 DEF Next
  <2>2. wg' = 0
    <3>1. wg' <= wg /\ wg = 0
      BY <2>1, NoAddStep DEF ShuttingDown, CountInv, DownForGood
    <3>2. wg' \in Nat
      BY TrackedElementsNext DEF TrackedShape, WaitGroupExact
    <3>3. QED BY <3>1, <3>2
  <2>3. plan'[Stopper] = {}
    <3>a. plan[Stopper] = {} /\ shutdown # "no"
      BY <2>1 DEF CountInv, DownForGood
    <3>1. ASSUME NEW e \in Entries, WorkerStep(e) PROVE plan'[Stopper] = plan[Stopper]
      <4>1. \/ plan' = plan \/ \E p : plan' = [plan EXCEPT ![Worker(e)] = p]
        BY <3>1 DEF WorkerStep, ProtocolStep, LocalStep, CaptureStep, Dial, GetInfo, Verify,
           Pair, PairPin, AskCredential, ShowPin, PromptReady, ReceiveCredential, WaitCancelled,
           Setup, PrepareAudio, RefuseCapture, JoinGroup, PublishGroup, CaptureFails,
           PublishCapture, DiscardCapture, CaptureDiscarded, Attach, AttachObsolete, Abandon,
           StartAudio, StreamFramesReturns, StreamEnded, StopAudio, RemoveStream, Exit, Detach
      <4>2. QED BY <1>a, <4>1
    <3>2. ASSUME NEW g \in Groups, PumpStep(g) PROVE plan'[Stopper] = plan[Stopper]
      BY <1>a, <3>2 DEF PumpStep, BroadcastEnds, FinishCaptureGroup, PumpExits, Detach
    <3>3. ASSUME NEW a \in Actors, Clean(a) PROVE plan'[Stopper] = plan[Stopper]
      BY <1>a, <3>a, <3>3 DEF Clean
    <3>4. CASE UNCHANGED vars \/ ShutdownDone
      BY <3>a, <3>4 DEF vars, ShutdownDone
    <3>5. ASSUME ControlStep PROVE plan'[Stopper] = plan[Stopper]
      BY <1>a, <3>5 DEF ControlStep, Connect, Submit, SubmitAnywhere, Disconnect,
         DisconnectAll, DetachAll, Detach
    <3>6. ~Shutdown
      BY <3>a DEF Shutdown, ShuttingDown
    <3>7. QED BY <3>a, <3>1, <3>2, <3>3, <3>4, <3>5, <3>6 DEF Next
  <2>4. QED BY <2>2, <2>3
<1> QED BY <1>1, <1>2

\* The WaitGroup counts exactly the goroutines and cleanups that run: what streamWorkers.Add
\* and Done do, in whatever order workers, pumps and requests come and go.
THEOREM WaitGroupCounts == Spec => []CountInv
PROOF
<1>1. Init => CountInv
  <2> SUFFICES ASSUME Init PROVE CountInv
    OBVIOUS
  <2>1. /\ \A e \in Entries : ~Runs(e)
        /\ \A g \in Groups : ~Pumps(g)
        /\ \A a \in Actors : plan[a] = {}
        /\ shutdown = "no" /\ wg = 0
    BY DEF Init, Runs, Pumps, Locals
  <2>2. \A r \in 1 .. MaxRequests : ~Cleans(r)
    BY <2>1 DEF Cleans, Actors
  <2>3. Tracked = {}
    BY <2>1, <2>2 DEF Tracked, Runs, Pumps, Cleans
  <2>4. WaitGroupExact
    BY <2>1, <2>3, FS_EmptySet DEF WaitGroupExact
  <2>5. PlansRun
    BY <2>1 DEF PlansRun, Actors
  <2>6. QED BY <2>1, <2>4, <2>5 DEF CountInv, DownForGood
<1>2. MapsInv /\ UseInv /\ CountInv /\ [Next]_vars => CountInv'
  BY CountStep, DownStep DEF CountInv
<1>3. QED BY <1>1, <1>2, MapsAgree, GroupsAgree, PTL DEF Spec

-----------------------------------------------------------------------------
(* Nothing leaks.                                                           *)

\* Somebody will close r.
Owned(r) ==
    \/ \E e \in Entries : r \in EntryOwns(e) \cup WorkerOwns(e)
    \/ \E g \in Groups : r \in GroupOwns(g)
    \/ \E a \in Actors : r \in plan[a]

\* The entry holds the last client its worker made, and a client that is replaced
\* has been closed.
Dialled(e) ==
    /\ Live(e) => entry[e].client = worker[e].dials
    /\ worker[e].pc = "none" => worker[e].dials = 0
    /\ worker[e].pc \in {"none", "dial"} => Client(e, worker[e].dials) \notin open

\* Without audio no worker goes through the steps that start or stop it.
AudioOff ==
    NoAudio => \A e \in Entries : /\ worker[e].pc \notin {"ready", "startAudio", "stopAudio"}
                                  /\ Audio(e) \notin open

\* A group has no capture before it was started.
Unstarted == \A g \in Groups : pump[g].pc \in {"none", "starting"} => ~group[g].capture

LeakInv == NoLeak /\ AudioOff /\ Unstarted /\ \A e \in Entries : Dialled(e)

\* What an entry and a group own, field by field.
LEMMA EntryOwned ==
    ASSUME NEW e, NEW r
    PROVE  r \in EntryOwns(e) <=>
              /\ Live(e)
              /\ \/ r = Ctx(e) /\ entry[e].cancel
                 \/ r = Sink(e) /\ entry[e].sink
                 \/ r = Session(e) /\ entry[e].session
                 \/ r = Client(e, entry[e].client) /\ entry[e].client # Nil
PROOF
  BY DEF EntryOwns, Held

LEMMA WorkerOwned ==
    ASSUME NEW e, NEW r
    PROVE  r \in WorkerOwns(e) <=>
              \/ r = Session(e) /\ worker[e].pc \in {"ready", "attach"}
              \/ r = Audio(e) /\ worker[e].pc \in AudioPCs
PROOF
  BY DEF WorkerOwns

LEMMA GroupOwned ==
    ASSUME NEW g, NEW r
    PROVE  r \in GroupOwns(g) <=>
              /\ Published(g)
              /\ \/ r = GroupCtx(g) /\ group[g].cancel
                 \/ r = Capture(g) /\ group[g].capture
PROOF
  BY DEF GroupOwns, GroupHeld

\* A step keeps NoLeak when every owner passes on what stays open, and what is
\* opened gets an owner.
LEMMA LeakTransfer ==
    ASSUME NoLeak,
           \A r \in open' \ open : Owned(r)',
           \A r \in open', e \in Entries : r \in EntryOwns(e) => Owned(r)',
           \A r \in open', e \in Entries : r \in WorkerOwns(e) => Owned(r)',
           \A r \in open', g \in Groups : r \in GroupOwns(g) => Owned(r)',
           \A r \in open', a \in Actors : r \in plan[a] => Owned(r)'
    PROVE  NoLeak'
PROOF
<1>1. ASSUME NEW r \in open' PROVE Owned(r)'
  <2>1. CASE r \in open
    <3>1. Owned(r)
      BY <2>1 DEF NoLeak, Owned
    <3>2. QED BY <3>1 DEF Owned
  <2>2. QED BY <2>1
<1>2. \A r \in open' : Owned(r)'
  BY <1>1
<1> QED BY <1>2 DEF NoLeak, Owned

\* A detachment hands everything the entries and groups held to the new plan.
LEMMA DetachLeak ==
    ASSUME MapsInv, NoLeak, NEW E \in SUBSET Active, NEW G \in SUBSET Groups,
           NEW a \in Actors, plan[a] = {}, Detach(E, G, a), open' = open,
           \A e \in Entries, r \in open : r \in WorkerOwns(e) => r \in WorkerOwns(e)'
    PROVE  NoLeak'
PROOF
<1>a. DetachEffect(E, G) /\ plan \in [Actors -> SUBSET Resource] /\ E \subseteq Entries
  BY DetachSteps, StateFacts DEF Active
<1>b. /\ plan'[a] = (UNION {Held(e) : e \in E}) \cup (UNION {GroupHeld(g) : g \in G})
      /\ \A b \in Actors : b # a => plan'[b] = plan[b]
  BY <1>a DEF Detach
<1>1. ASSUME NEW r \in open', NEW e \in Entries, r \in EntryOwns(e) PROVE Owned(r)'
  <2>1. Live(e) /\ r \in Held(e)
    BY <1>1 DEF EntryOwns
  <2>2. CASE e \in E
    <3>1. r \in plan'[a]
      BY <1>b, <2>1, <2>2
    <3>2. QED BY <3>1 DEF Owned
  <2>3. CASE e \notin E
    <3>1. Live(e)' /\ entry'[e] = entry[e]
      BY <1>a, <2>1, <2>3 DEF DetachEffect
    <3>2. r \in EntryOwns(e)'
      BY <1>1, <3>1, <2>1 DEF EntryOwns, Held
    <3>3. QED BY <3>2 DEF Owned
  <2>4. QED BY <2>2, <2>3
<1>2. ASSUME NEW r \in open', NEW e \in Entries, r \in WorkerOwns(e) PROVE Owned(r)'
  BY <1>2 DEF Owned
<1>3. ASSUME NEW r \in open', NEW g \in Groups, r \in GroupOwns(g) PROVE Owned(r)'
  <2>1. Published(g) /\ r \in GroupHeld(g)
    BY <1>3 DEF GroupOwns
  <2>2. CASE g \in G
    <3>1. r \in plan'[a]
      BY <1>b, <2>1, <2>2
    <3>2. QED BY <3>1 DEF Owned
  <2>3. CASE g \notin G
    <3>1. Published(g)' /\ group'[g] = group[g]
      BY <1>a, <2>1, <2>3 DEF DetachEffect
    <3>2. r \in GroupOwns(g)'
      BY <1>3, <3>1, <2>1 DEF GroupOwns, GroupHeld
    <3>3. QED BY <3>2 DEF Owned
  <2>4. QED BY <2>2, <2>3
<1>4. ASSUME NEW r \in open', NEW b \in Actors, r \in plan[b] PROVE Owned(r)'
  <2>1. r \in plan'[b]
    BY <1>4, <1>b
  <2>2. QED BY <2>1 DEF Owned
<1> QED BY <1>1, <1>2, <1>3, <1>4, LeakTransfer

\* A step of worker e that stays away from the maps: only e's own share changes.
OwnShareKept(e) ==
    /\ \A b \in Actors : b # Worker(e) => plan'[b] = plan[b]
    /\ plan[Worker(e)] = {} \/ plan' = plan
    /\ \A r \in open' :
          r \notin open \/ r \in EntryOwns(e) \/ r \in WorkerOwns(e)
             => r \in EntryOwns(e)' \/ r \in WorkerOwns(e)' \/ r \in plan'[Worker(e)]

LEMMA OwnShareLeak ==
    ASSUME NoLeak, NEW e \in Entries, OwnShareKept(e),
           streams' = streams, groups' = groups,
           \A g \in Groups : group'[g] = group[g],
           \A f \in Entries : f # e => worker'[f] = worker[f] /\ entry'[f] = entry[f]
    PROVE  NoLeak'
PROOF
<1>a. Worker(e) \in Actors
  BY DEF Actors
<1>1. \A r \in open' \ open : Owned(r)'
  BY <1>a DEF OwnShareKept, Owned
<1>2. ASSUME NEW r \in open', NEW f \in Entries, r \in EntryOwns(f) \cup WorkerOwns(f)
      PROVE  Owned(r)'
  <2>1. CASE f = e
    BY <1>2, <1>a, <2>1 DEF OwnShareKept, Owned
  <2>2. CASE f # e
    <3>1. worker'[f] = worker[f] /\ entry'[f] = entry[f] /\ (Live(f)' <=> Live(f))
      BY <2>2 DEF Live
    <3>2. EntryOwns(f)' = EntryOwns(f) /\ WorkerOwns(f)' = WorkerOwns(f)
      BY <3>1 DEF EntryOwns, WorkerOwns, Held
    <3>3. QED BY <1>2, <3>2 DEF Owned
  <2>3. QED BY <2>1, <2>2
<1>3. ASSUME NEW r \in open', NEW g \in Groups, r \in GroupOwns(g) PROVE Owned(r)'
  <2>1. group'[g] = group[g] /\ (Published(g)' <=> Published(g))
    BY DEF Published
  <2>2. GroupOwns(g)' = GroupOwns(g)
    BY <2>1 DEF GroupOwns, GroupHeld
  <2>3. QED BY <1>3, <2>2 DEF Owned
<1>4. ASSUME NEW r \in open', NEW b \in Actors, r \in plan[b] PROVE Owned(r)'
  <2>1. r \in plan'[b]
    BY <1>4 DEF OwnShareKept
  <2>2. QED BY <2>1 DEF Owned
<1> QED BY <1>1, <1>2, <1>3, <1>4, LeakTransfer

\* What a step of worker e that stays away from the maps does to the resources.
ShareEffect(e) ==
    /\ OwnShareKept(e) /\ Dialled(e)'
    /\ NoAudio => /\ worker'[e].pc \notin {"ready", "startAudio", "stopAudio"}
                  /\ Audio(e) \notin open'
    /\ \A f \in Entries : f # e =>
          /\ \A i \in Nat : Client(f, i) \in open' => Client(f, i) \in open
          /\ Audio(f) \in open' => Audio(f) \in open

\* The steps of connecting and authenticating open nothing and hand nothing over.
Authenticating(e) ==
    /\ open' \subseteq open /\ plan' = plan
    /\ entry'[e].cancel = entry[e].cancel /\ entry'[e].sink = entry[e].sink
    /\ entry'[e].session = entry[e].session /\ entry'[e].client = entry[e].client
    /\ worker'[e].dials = worker[e].dials
    /\ worker[e].pc \notin AudioPCs \cup {"ready"}
    /\ worker'[e].pc \notin {"none", "ready", "startAudio", "stopAudio"}
    /\ worker'[e].pc = "dial" => Client(e, worker[e].dials) \notin open'

LEMMA AuthenticatingShare ==
    ASSUME MapsInv, LeakInv, NEW e \in Entries, QuietEffect(e), Authenticating(e)
    PROVE  ShareEffect(e)
PROOF
<1>1. Live(e)' <=> Live(e)
  BY DEF QuietEffect, Live
<1>2. OwnShareKept(e)
  <2>1. ASSUME NEW r \in open', r \in EntryOwns(e) \/ r \in WorkerOwns(e)
        PROVE  r \in EntryOwns(e)'
    <3>1. r \in EntryOwns(e)
      BY <2>1, WorkerOwned DEF Authenticating, AudioPCs
    <3>2. Held(e)' = Held(e)
      BY DEF Authenticating, Held
    <3>3. QED BY <1>1, <3>1, <3>2 DEF EntryOwns
  <2>2. QED BY <2>1 DEF OwnShareKept, Authenticating
<1>3. Dialled(e)'
  <2>1. Dialled(e) /\ Client(e, worker[e].dials)' = Client(e, worker[e].dials)
    BY DEF LeakInv, Authenticating, Client
  <2>2. QED BY <1>1, <2>1 DEF Dialled, Authenticating
<1>4. NoAudio => Audio(e) \notin open'
  BY DEF LeakInv, AudioOff, Authenticating
<1> QED BY <1>2, <1>3, <1>4 DEF ShareEffect, Authenticating

LEMMA QuietShare ==
    ASSUME MapsInv, LeakInv, NEW e \in Entries, Quiet(e)
    PROVE  ShareEffect(e)
PROOF
<1>a. /\ QuietEffect(e)
      /\ worker \in [Entries -> WorkerRecord] /\ entry \in [Entries -> EntryRecord]
      /\ plan \in [Actors -> SUBSET Resource] /\ Worker(e) \in Actors
      /\ Live(e)' <=> Live(e)
      /\ Dialled(e) /\ worker[e].dials \in Nat
      /\ worker[e].next \in {"verify", "pair", "pairPin", "setup"}
  <2>1. QuietEffect(e)
    BY QuietSteps
  <2>2. worker[e] \in WorkerRecord
    BY StateFacts
  <2>3. QED
    BY <2>1, <2>2, StateFacts DEF QuietEffect, Live, LeakInv, Actors, WorkerRecord
<1>b. ASSUME NEW p \in {"verify", "pair"}, At(e, p), entry' = entry, plan' = plan,
             PairOutcome(e) \/ Reconnect(e, "pair")
      PROVE  Authenticating(e)
  <2>1. \/ /\ open' = open
           /\ \/ \E q \in {"setup", "fail"} : worker' = [worker EXCEPT ![e].pc = q]
              \/ \E q \in {"askPin", "askPassword"} :
                    worker' = [worker EXCEPT ![e].pc = q, ![e].next = "setup"]
        \/ /\ open' = open \ {Client(e, worker[e].dials)}
           /\ \E n \in {"pair", "pairPin"} :
                 worker' = [worker EXCEPT ![e].pc = "dial", ![e].next = n]
    BY <1>b DEF PairOutcome, Goto, Ask, Reconnect
  <2>2. /\ worker'[e].dials = worker[e].dials
        /\ \/ open' = open /\ worker'[e].pc \in {"setup", "fail", "askPin", "askPassword"}
           \/ open' = open \ {Client(e, worker[e].dials)} /\ worker'[e].pc = "dial"
    BY <1>a, <2>1 DEF WorkerRecord
  <2>3. QED BY <1>b, <2>2 DEF Authenticating, At, AudioPCs
<1>c. ASSUME Authenticating(e) PROVE ShareEffect(e)
  BY <1>a, <1>c, AuthenticatingShare
<1>1. CASE GetInfo(e)
  BY <1>a, <1>c, <1>1 DEF GetInfo, At, Goto, maps, WorkerRecord, Authenticating, AudioPCs
<1>2. CASE Verify(e)
  BY <1>b, <1>c, <1>2 DEF Verify, maps
<1>3. CASE Pair(e)
  BY <1>b, <1>c, <1>3 DEF Pair, maps
<1>4. CASE PairPin(e)
  BY <1>a, <1>c, <1>4 DEF PairPin, At, Goto, Ask, maps, WorkerRecord, Authenticating, AudioPCs
<1>5. CASE AskCredential(e)
  BY <1>a, <1>c, <1>5 DEF AskCredential, At, Goto, WorkerRecord, EntryRecord, Authenticating, AudioPCs
<1>6. CASE ShowPin(e)
  BY <1>a, <1>c, <1>6 DEF ShowPin, At, Goto, WorkerRecord, EntryRecord, Authenticating, AudioPCs
<1>7. CASE PromptReady(e)
  BY <1>a, <1>c, <1>7 DEF PromptReady, At, Goto, WorkerRecord, EntryRecord, Authenticating, AudioPCs
<1>8. CASE ReceiveCredential(e)
  BY <1>a, <1>c, <1>8 DEF ReceiveCredential, At, Goto, WorkerRecord, EntryRecord, Authenticating, AudioPCs
<1>9. CASE WaitCancelled(e)
  BY <1>a, <1>c, <1>9 DEF WaitCancelled, At, Goto, WorkerRecord, EntryRecord, Authenticating, AudioPCs
<1>10. CASE RefuseCapture(e)
  BY <1>a, <1>c, <1>10 DEF RefuseCapture, At, Goto, maps, WorkerRecord, Authenticating, AudioPCs
<1>d. /\ \A f \in Entries, i \in Nat : f # e =>
            /\ Client(f, i) # Session(e) /\ Client(f, i) # Sink(e) /\ Client(f, i) # Audio(e)
            /\ \A j : Client(f, i) # Client(e, j)
      /\ \A f \in Entries : f # e =>
            /\ Audio(f) # Session(e) /\ Audio(f) # Sink(e) /\ Audio(f) # Audio(e)
            /\ \A j : Audio(f) # Client(e, j)
      /\ \A j : /\ Session(e) # Client(e, j) /\ Sink(e) # Client(e, j)
                /\ Audio(e) # Client(e, j) /\ Ctx(e) # Client(e, j)
      /\ Session(e) # Audio(e) /\ Sink(e) # Audio(e) /\ Ctx(e) # Audio(e)
      /\ Session(e) # Sink(e)
      /\ \A j, k : Client(e, j) = Client(e, k) => j = k
  BY DEF Client, Session, Sink, Audio, Ctx
<1>e. /\ Session(e)' = Session(e) /\ Sink(e)' = Sink(e) /\ Audio(e)' = Audio(e)
      /\ Ctx(e)' = Ctx(e)
      /\ entry[e] \in EntryRecord
  BY <1>a DEF Session, Sink, Audio, Ctx
<1>f. NoAudio => /\ worker[e].pc \notin {"ready", "startAudio", "stopAudio"}
                 /\ Audio(e) \notin open
  BY DEF LeakInv, AudioOff
<1>11. CASE Dial(e)
  <2>1. worker[e].pc = "dial" /\ plan[Worker(e)] = {} /\ plan' = plan
    BY <1>11 DEF Dial, At
  <2>2. CASE Goto(e, "fail") /\ UNCHANGED <<entry, open>>
    BY <1>a, <1>c, <2>1, <2>2 DEF Goto, WorkerRecord, Authenticating, AudioPCs
  <2>3. CASE /\ Live(e) /\ entry' = [entry EXCEPT ![e].client = worker[e].dials + 1]
             /\ worker' = [worker EXCEPT ![e].pc = "info", ![e].dials = worker[e].dials + 1]
             /\ open' = open \cup {Client(e, worker[e].dials + 1)}
    <3> DEFINE i == worker[e].dials + 1
    <3>1. /\ worker'[e].pc = "info" /\ worker'[e].dials = i /\ i # Nil
      BY <1>a, <2>3 DEF WorkerRecord
    <3>2. /\ entry'[e].client = i /\ entry'[e].cancel = entry[e].cancel
          /\ entry'[e].sink = entry[e].sink /\ entry'[e].session = entry[e].session
      BY <1>a, <1>e, <2>3 DEF EntryRecord
    <3>3. Client(e, worker[e].dials) \notin open /\ entry[e].client = worker[e].dials
      BY <1>a, <2>1, <2>3 DEF Dialled
    <3> HIDE DEF i
    <3>4. ASSUME NEW r \in open', r \notin open \/ r \in EntryOwns(e) \/ r \in WorkerOwns(e)
          PROVE  r \in EntryOwns(e)'
      <4>1. CASE r = Client(e, i)
        <5>1. Live(e)' /\ r = Client(e, entry'[e].client) /\ entry'[e].client # Nil
          BY <1>a, <2>3, <3>1, <3>2, <4>1
        <5>2. QED BY <5>1 DEF EntryOwns, Held, Client
      <4>2. CASE r # Client(e, i)
        <5>1. r \in open
          BY <2>3, <4>2 DEF i
        <5>2. r \in EntryOwns(e)
          BY <2>1, <3>4, <5>1, WorkerOwned DEF AudioPCs
        <5>3. \/ r = Ctx(e) /\ entry[e].cancel
              \/ r = Sink(e) /\ entry[e].sink
              \/ r = Session(e) /\ entry[e].session
          BY <3>3, <5>1, <5>2, EntryOwned
        <5>4. QED BY <1>a, <1>e, <2>3, <3>2, <5>3 DEF EntryOwns, Held
      <4>3. QED BY <4>1, <4>2
    <3>5. OwnShareKept(e)
      BY <2>1, <3>4 DEF OwnShareKept
    <3>6. Dialled(e)'
      BY <3>1, <3>2 DEF Dialled
    <3>7. NoAudio => Audio(e) \notin open'
      BY <1>d, <1>f, <2>3
    <3>8. \A f \in Entries : f # e =>
             /\ \A j \in Nat : Client(f, j) \in open' => Client(f, j) \in open
             /\ Audio(f) \in open' => Audio(f) \in open
      BY <1>d, <2>3
    <3>9. QED BY <3>1, <3>5, <3>6, <3>7, <3>8 DEF ShareEffect
  <2>4. QED BY <1>11, <2>2, <2>3 DEF Dial
<1>12. CASE Setup(e)
  <2>1. worker[e].pc = "setup" /\ entry' = entry /\ plan' = plan
    BY <1>12 DEF Setup, At, maps
  <2>2. CASE open' = open
    <3>1. \/ \E q \in {"fail", "prepare"} : worker' = [worker EXCEPT ![e].pc = q]
          \/ worker' = [worker EXCEPT ![e].pc = "askPassword", ![e].next = "setup",
                                      ![e].retried = TRUE]
          \/ Session(e) \in open /\ worker' = [worker EXCEPT ![e].pc = IF NoAudio THEN "attach" ELSE "ready"]
      BY <1>12, <2>2 DEF Setup, Goto
    <3>2. CASE \/ \E q \in {"fail", "prepare"} : worker' = [worker EXCEPT ![e].pc = q]
               \/ worker' = [worker EXCEPT ![e].pc = "askPassword", ![e].next = "setup",
                                           ![e].retried = TRUE]
      <4>1. /\ worker'[e].pc \in {"fail", "prepare", "askPassword"}
            /\ worker'[e].dials = worker[e].dials
        BY <1>a, <3>2 DEF WorkerRecord
      <4>2. QED BY <1>c, <2>1, <2>2, <4>1 DEF Authenticating, AudioPCs
    <3>3. CASE worker' = [worker EXCEPT ![e].pc = IF NoAudio THEN "attach" ELSE "ready"]
      <4>1. /\ worker'[e].pc = IF NoAudio THEN "attach" ELSE "ready"
            /\ worker'[e].dials = worker[e].dials
        BY <1>a, <3>3 DEF WorkerRecord
      <4>2. EntryOwns(e)' = EntryOwns(e) /\ WorkerOwns(e) = {}
        BY <1>a, <2>1 DEF EntryOwns, Held, WorkerOwns, AudioPCs
      <4>3. OwnShareKept(e)
        BY <2>1, <2>2, <4>2 DEF OwnShareKept
      <4>4. Dialled(e)'
        BY <1>a, <2>1, <4>1 DEF Dialled
      <4>5. QED BY <1>f, <2>2, <4>1, <4>3, <4>4 DEF ShareEffect
    <3>4. QED BY <3>1, <3>2, <3>3
  <2>3. CASE /\ worker' = [worker EXCEPT ![e].pc = IF NoAudio THEN "attach" ELSE "ready"]
             /\ open' = open \cup {Session(e)}
    <3>1. /\ worker'[e].pc = IF NoAudio THEN "attach" ELSE "ready"
          /\ worker'[e].dials = worker[e].dials
      BY <1>a, <2>3 DEF WorkerRecord
    <3>2. EntryOwns(e)' = EntryOwns(e) /\ WorkerOwns(e) = {} /\ Session(e) \in WorkerOwns(e)'
      BY <1>a, <2>1, <3>1 DEF EntryOwns, Held, WorkerOwns, AudioPCs, Session
    <3>3. OwnShareKept(e)
      BY <2>1, <2>3, <3>2 DEF OwnShareKept
    <3>4. Dialled(e)'
      BY <1>a, <2>1, <3>1 DEF Dialled
    <3>5. NoAudio => Audio(e) \notin open'
      BY <1>d, <1>f, <2>3
    <3>6. \A f \in Entries : f # e =>
             /\ \A j \in Nat : Client(f, j) \in open' => Client(f, j) \in open
             /\ Audio(f) \in open' => Audio(f) \in open
      BY <1>d, <2>3
    <3>7. QED BY <1>f, <3>1, <3>3, <3>4, <3>5, <3>6 DEF ShareEffect
  <2>4. QED BY <1>12, <2>2, <2>3 DEF Setup, Goto
\* The other steps move what the worker owns.
<1>g. ASSUME /\ \A b \in Actors : b # Worker(e) => plan'[b] = plan[b]
             /\ plan[Worker(e)] = {} \/ plan' = plan
             /\ worker'[e].dials = worker[e].dials
             /\ worker'[e].pc \notin {"none", "dial"}
             /\ NoAudio => worker'[e].pc \notin {"ready", "startAudio", "stopAudio"}
             /\ Live(e) => entry'[e].client = entry[e].client
             /\ open' \subseteq open \cup {Audio(e), Sink(e)}
             /\ NoAudio => open' \subseteq open \cup {Sink(e)}
             /\ \A r \in open' :
                   r \notin open \/ r \in EntryOwns(e) \/ r \in WorkerOwns(e)
                      => r \in EntryOwns(e)' \/ r \in WorkerOwns(e)' \/ r \in plan'[Worker(e)]
      PROVE  ShareEffect(e)
  <2>1. OwnShareKept(e)
    BY <1>g DEF OwnShareKept
  <2>2. Dialled(e)'
    BY <1>a, <1>g DEF Dialled
  <2>3. NoAudio => Audio(e) \notin open'
    BY <1>d, <1>f, <1>g
  <2>4. \A f \in Entries : f # e =>
             /\ \A j \in Nat : Client(f, j) \in open' => Client(f, j) \in open
             /\ Audio(f) \in open' => Audio(f) \in open
    <3>1. ASSUME NEW f \in Entries, f # e, NEW j \in Nat, Client(f, j) \in open'
          PROVE  Client(f, j) \in open
      BY <1>g, <3>1, <1>d DEF Client, Audio, Sink
    <3>2. ASSUME NEW f \in Entries, f # e, Audio(f) \in open' PROVE Audio(f) \in open
      BY <1>g, <3>2 DEF Audio, Sink
    <3>3. QED BY <3>1, <3>2
  <2>5. QED BY <1>g, <2>1, <2>2, <2>3, <2>4 DEF ShareEffect
<1>13. CASE PrepareAudio(e)
  <2>1. worker[e].pc = "ready" /\ plan[Worker(e)] = {} /\ entry' = entry /\ ~NoAudio
    BY <1>13, <1>f DEF PrepareAudio, At, maps
  <2>2. EntryOwns(e)' = EntryOwns(e) /\ WorkerOwns(e) = {Session(e)}
    BY <1>a, <2>1 DEF EntryOwns, Held, WorkerOwns, AudioPCs, Session
  <2>3. CASE /\ plan' = [plan EXCEPT ![Worker(e)] = {Session(e)}]
             /\ Goto(e, "fail") /\ UNCHANGED open
    <3>1. /\ worker'[e].pc = "fail" /\ worker'[e].dials = worker[e].dials
          /\ plan'[Worker(e)] = {Session(e)}
          /\ \A b \in Actors : b # Worker(e) => plan'[b] = plan[b]
      BY <1>a, <2>3 DEF Goto, WorkerRecord
    <3>2. QED BY <1>g, <2>1, <2>2, <2>3, <3>1
  <2>4. CASE Goto(e, "attach") /\ UNCHANGED plan /\ open' \in {open, open \cup {Audio(e)}}
    <3>1. /\ worker'[e].pc = "attach" /\ worker'[e].dials = worker[e].dials
      BY <1>a, <2>4 DEF Goto, WorkerRecord
    <3>2. WorkerOwns(e)' = {Session(e), Audio(e)}
      BY <1>e, <3>1 DEF WorkerOwns, AudioPCs, Session, Audio
    <3>3. QED BY <1>g, <2>1, <2>2, <2>4, <3>1, <3>2
  <2>5. QED BY <1>13, <2>3, <2>4 DEF PrepareAudio
<1>14. CASE Attach(e)
  <2>1. /\ worker[e].pc = "attach" /\ plan' = plan /\ open' = open \cup {Sink(e)} /\ Live(e)
        /\ entry' = [entry EXCEPT ![e].state = "streaming", ![e].session = TRUE,
                                  ![e].client = worker[e].dials, ![e].sink = TRUE]
        /\ worker' = [worker EXCEPT ![e].pc = IF NoAudio THEN "streaming" ELSE "startAudio"]
    BY <1>14 DEF Attach, At, Goto
  <2>2. /\ worker'[e].pc = IF NoAudio THEN "streaming" ELSE "startAudio"
        /\ worker'[e].dials = worker[e].dials
    BY <1>a, <2>1 DEF WorkerRecord
  <2>3. /\ entry'[e].session = TRUE /\ entry'[e].sink = TRUE
        /\ entry'[e].client = worker[e].dials /\ entry'[e].cancel = entry[e].cancel
    <3> DEFINE x == [entry[e] EXCEPT !.state = "streaming", !.session = TRUE,
                                     !.client = worker[e].dials, !.sink = TRUE]
    <3>1. entry'[e] = x
      BY <1>a, <2>1
    <3>2. /\ x.session = TRUE /\ x.sink = TRUE /\ x.client = worker[e].dials
          /\ x.cancel = entry[e].cancel
      BY <1>e DEF EntryRecord
    <3> HIDE DEF x
    <3>3. QED BY <3>1, <3>2
  <2>4. entry[e].client = worker[e].dials
    BY <1>a, <2>1 DEF Dialled
  <2>5. ASSUME NEW r \in open', r \notin open \/ r \in EntryOwns(e) \/ r \in WorkerOwns(e)
        PROVE  r \in EntryOwns(e)' \/ r \in WorkerOwns(e)'
    <3>1. /\ Sink(e) \in EntryOwns(e)' /\ Session(e) \in EntryOwns(e)'
          /\ Audio(e) \in WorkerOwns(e)'
      BY <1>a, <2>1, <2>2, <2>3 DEF EntryOwns, Held, WorkerOwns, AudioPCs, Sink, Session, Audio
    <3>2. CASE r \notin open \/ r \in WorkerOwns(e)
      BY <2>1, <2>5, <3>1, <3>2, WorkerOwned
    <3>3. CASE r \in EntryOwns(e)
      <4>1. \/ r = Ctx(e) /\ entry[e].cancel
            \/ r \in {Sink(e), Session(e)}
            \/ r = Client(e, entry[e].client) /\ entry[e].client # Nil
        BY <3>3, EntryOwned
      <4>2. r = Ctx(e) /\ entry[e].cancel => r \in EntryOwns(e)'
        BY <1>a, <1>e, <2>1, <2>3 DEF EntryOwns, Held
      <4>3. r = Client(e, entry[e].client) /\ entry[e].client # Nil => r \in EntryOwns(e)'
        BY <1>a, <2>1, <2>3, <2>4 DEF EntryOwns, Held, Client
      <4>4. QED BY <3>1, <4>1, <4>2, <4>3
    <3>4. QED BY <2>5, <3>2, <3>3
  <2>6. QED BY <1>a, <1>g, <2>1, <2>2, <2>3, <2>4, <2>5
<1>15. CASE AttachObsolete(e)
  <2>1. /\ worker[e].pc = "attach" /\ plan[Worker(e)] = {} /\ ~Live(e) /\ open' = open
        /\ plan' = [plan EXCEPT ![Worker(e)] = {Session(e)} \cup (open \cap {Audio(e)})]
        /\ worker' = [worker EXCEPT ![e].pc = "abandon"]
    BY <1>15 DEF AttachObsolete, At, Goto
  <2>2. /\ worker'[e].pc = "abandon" /\ worker'[e].dials = worker[e].dials
        /\ plan'[Worker(e)] = {Session(e)} \cup (open \cap {Audio(e)})
        /\ \A b \in Actors : b # Worker(e) => plan'[b] = plan[b]
    BY <1>a, <2>1 DEF WorkerRecord
  <2>3. \A r \in open : r \notin EntryOwns(e) /\ (r \in WorkerOwns(e) => r \in plan'[Worker(e)])
    BY <2>1, <2>2, EntryOwned, WorkerOwned
  <2>4. QED BY <1>g, <2>1, <2>2, <2>3
<1>16. CASE StartAudio(e)
  <2>1. /\ worker[e].pc = "startAudio" /\ entry' = entry /\ plan' = plan /\ ~NoAudio
        /\ worker' = [worker EXCEPT ![e].pc = "streaming"]
        /\ open' = open \/ open' = open \cup {Audio(e)}
    BY <1>16, <1>f DEF StartAudio, At, maps, Goto
  <2>2. worker'[e].pc = "streaming" /\ worker'[e].dials = worker[e].dials
    BY <1>a, <2>1 DEF WorkerRecord
  <2>3. /\ EntryOwns(e)' = EntryOwns(e)
        /\ WorkerOwns(e) = {Audio(e)} /\ WorkerOwns(e)' = {Audio(e)}
    BY <1>a, <2>1, <2>2 DEF EntryOwns, Held, WorkerOwns, AudioPCs, Session, Audio
  <2>4. QED BY <1>g, <2>1, <2>2, <2>3
<1>17. CASE StreamFramesReturns(e)
  <2>1. /\ worker[e].pc = "streaming" /\ entry' = entry /\ plan' = plan /\ open' = open
        /\ worker' = [worker EXCEPT ![e].pc = "ended"]
    BY <1>17 DEF StreamFramesReturns, At, maps, Goto
  <2>2. worker'[e].pc = "ended" /\ worker'[e].dials = worker[e].dials
    BY <1>a, <2>1 DEF WorkerRecord
  <2>3. /\ EntryOwns(e)' = EntryOwns(e)
        /\ WorkerOwns(e) = {Audio(e)} /\ WorkerOwns(e)' = {Audio(e)}
    BY <1>a, <2>1, <2>2 DEF EntryOwns, Held, WorkerOwns, AudioPCs, Session, Audio
  <2>4. QED BY <1>g, <2>1, <2>2, <2>3
<1>18. CASE StopAudio(e)
  <2>1. /\ worker[e].pc = "stopAudio" /\ entry' = entry /\ plan' = plan
        /\ open' = open \ {Audio(e)}
        /\ worker' = [worker EXCEPT ![e].pc = "exit"]
    BY <1>18 DEF StopAudio, At, maps, Goto
  <2>2. worker'[e].pc = "exit" /\ worker'[e].dials = worker[e].dials
    BY <1>a, <2>1 DEF WorkerRecord
  <2>3. EntryOwns(e)' = EntryOwns(e) /\ WorkerOwns(e) = {Audio(e)}
    BY <1>a, <2>1, <2>2 DEF EntryOwns, Held, WorkerOwns, AudioPCs, Session, Audio
  <2>4. QED BY <1>g, <2>1, <2>2, <2>3
<1> QED
  BY <1>1, <1>2, <1>3, <1>4, <1>5, <1>6, <1>7, <1>8, <1>9, <1>10, <1>11, <1>12, <1>13, <1>14,
     <1>15, <1>16, <1>17, <1>18
  DEF Quiet

\* Steps that dial no client, start no audio and mark no encoder as captured early.
RestFrame ==
    /\ \A e \in Entries :
          /\ Live(e)' => /\ Live(e) /\ entry'[e].client = entry[e].client
                         /\ worker'[e].dials = worker[e].dials
          /\ worker'[e].pc \in {"none", "dial"} => worker'[e] = worker[e]
          /\ NoAudio => worker'[e].pc \notin {"ready", "startAudio", "stopAudio"}
    /\ \A r \in open' \ open : r[1] \notin {"client", "audio"}
    /\ \A g \in Groups : pump'[g].pc \in {"none", "starting"} /\ group'[g].capture
                            => pump[g].pc \in {"none", "starting"} /\ group[g].capture

LEMMA RestKeeps ==
    ASSUME LeakInv, NoLeak', RestFrame
    PROVE  LeakInv'
PROOF
<1>1. ASSUME NEW e \in Entries PROVE Dialled(e)'
  <2>1. Dialled(e)
    BY DEF LeakInv
  <2>2. Live(e)' => entry'[e].client = worker'[e].dials
    BY <2>1 DEF RestFrame, Dialled
  <2>3. worker'[e].pc = "none" => worker'[e].dials = 0
    BY <2>1 DEF RestFrame, Dialled
  <2>4. ASSUME worker'[e].pc \in {"none", "dial"} PROVE Client(e, worker'[e].dials) \notin open'
    <3>1. worker'[e] = worker[e]
      BY <2>4 DEF RestFrame
    <3>2. Client(e, worker'[e].dials) \notin open
      BY <2>1, <2>4, <3>1 DEF Dialled
    <3>3. Client(e, worker'[e].dials)[1] = "client"
      BY DEF Client
    <3>4. QED BY <3>2, <3>3 DEF RestFrame
  <2>5. Client(e, worker[e].dials)' = Client(e, worker'[e].dials)
    BY DEF Client
  <2>6. QED BY <2>2, <2>3, <2>4, <2>5 DEF Dialled
<1>2. AudioOff'
  <2>1. \A e \in Entries : Audio(e)[1] = "audio" /\ Audio(e)' = Audio(e)
    BY DEF Audio
  <2>2. QED BY <2>1 DEF LeakInv, AudioOff, RestFrame
<1>3. Unstarted'
  BY DEF LeakInv, Unstarted, RestFrame
<1> QED BY <1>1, <1>2, <1>3 DEF LeakInv

\* A detachment, with what its goroutine does besides.
LEMMA DetachKeepsLeak ==
    ASSUME MapsInv, LeakInv, NEW E \in SUBSET Active, NEW G \in SUBSET Groups,
           NEW a \in Actors, plan[a] = {}, Detach(E, G, a), open' = open,
           \A e \in Entries :
              /\ worker'[e].dials = worker[e].dials
              /\ worker'[e].pc \in {"none", "dial"} => worker'[e] = worker[e]
              /\ NoAudio => worker'[e].pc \notin {"ready", "startAudio", "stopAudio"}
              /\ \A r \in open : r \in WorkerOwns(e) => r \in WorkerOwns(e)',
           \A g \in Groups : pump'[g].pc \in {"none", "starting"} => pump'[g] = pump[g]
    PROVE  LeakInv'
PROOF
<1>1. NoLeak'
  BY DetachLeak DEF LeakInv
<1>2. DetachEffect(E, G) /\ group \in [Groups -> GroupRecord] /\ E \subseteq Entries
  BY DetachSteps, StateFacts DEF Active
<1>3. \A g \in Groups : group'[g].capture => group[g].capture
  BY <1>2 DEF Detach, GroupStripped, GroupRecord
<1>4. \A e \in Entries : Live(e)' => Live(e) /\ entry'[e].client = entry[e].client
  BY <1>2 DEF DetachEffect
<1>5. RestFrame
  BY <1>3, <1>4 DEF RestFrame
<1> QED BY <1>1, <1>5, RestKeeps

\* The quiet steps.
LEMMA QuietLeak ==
    ASSUME MapsInv, LeakInv, NEW e \in Entries, Quiet(e)
    PROVE  LeakInv'
PROOF
<1>a. ShareEffect(e) /\ QuietEffect(e)
  BY QuietShare, QuietSteps
<1>b. /\ worker \in [Entries -> WorkerRecord]
      /\ \A f \in Entries : Live(f)' <=> Live(f)
  BY <1>a, StateFacts DEF QuietEffect, Live
<1>1. NoLeak'
  BY <1>a, OwnShareLeak DEF LeakInv, QuietEffect, ShareEffect
<1>2. ASSUME NEW f \in Entries PROVE Dialled(f)'
  <2>1. CASE f = e
    BY <1>a, <2>1 DEF ShareEffect
  <2>2. CASE f # e
    <3>1. /\ worker'[f] = worker[f] /\ entry'[f] = entry[f] /\ Dialled(f)
          /\ worker[f].dials \in Nat
      BY <1>a, <1>b, <2>2 DEF QuietEffect, LeakInv, WorkerRecord
    <3>2. Client(f, worker[f].dials) \in open' => Client(f, worker[f].dials) \in open
      BY <1>a, <2>2, <3>1 DEF ShareEffect
    <3>3. Client(f, worker[f].dials)' = Client(f, worker[f].dials)
      BY <3>1 DEF Client
    <3>4. QED BY <1>b, <3>1, <3>2, <3>3 DEF Dialled
  <2>3. QED BY <2>1, <2>2
<1>3. AudioOff'
  <2>1. ASSUME NoAudio, NEW f \in Entries
        PROVE  worker'[f].pc \notin {"ready", "startAudio", "stopAudio"} /\ Audio(f)' \notin open'
    <3>1. Audio(f)' = Audio(f)
      BY DEF Audio
    <3>2. CASE f = e
      BY <1>a, <2>1, <3>1, <3>2 DEF ShareEffect
    <3>3. CASE f # e
      BY <1>a, <2>1, <3>1, <3>3 DEF ShareEffect, QuietEffect, LeakInv, AudioOff
    <3>4. QED BY <3>2, <3>3
  <2>2. QED BY <2>1 DEF AudioOff
<1>4. Unstarted'
  BY <1>a DEF LeakInv, Unstarted, QuietEffect
<1> QED BY <1>1, <1>2, <1>3, <1>4 DEF LeakInv

\* Steps that keep every entry, worker and group as they own, and shrink plans only
\* by what they close.
LEMMA SharesKept ==
    ASSUME NoLeak, open' \subseteq open,
           \A e \in Entries, r \in open' : r \in EntryOwns(e) => r \in EntryOwns(e)',
           \A e \in Entries, r \in open' : r \in WorkerOwns(e) => r \in WorkerOwns(e)',
           \A g \in Groups, r \in open' : r \in GroupOwns(g) => r \in GroupOwns(g)',
           \A a \in Actors, r \in open' : r \in plan[a] => r \in plan'[a]
    PROVE  NoLeak'
PROOF
<1>1. ASSUME NEW r \in open', NEW e \in Entries, r \in EntryOwns(e) \cup WorkerOwns(e)
      PROVE  Owned(r)'
  BY <1>1 DEF Owned
<1>2. ASSUME NEW r \in open', NEW g \in Groups, r \in GroupOwns(g) PROVE Owned(r)'
  BY <1>2 DEF Owned
<1>3. ASSUME NEW r \in open', NEW a \in Actors, r \in plan[a] PROVE Owned(r)'
  BY <1>3 DEF Owned
<1> QED BY <1>1, <1>2, <1>3, LeakTransfer

\* Nothing leaks, whatever step is taken.
LEMMA LeakStep ==
    ASSUME MapsInv, UseInv, CountInv, LeakInv, [Next]_vars
    PROVE  LeakInv'
PROOF
<1>a. /\ entry \in [Entries -> EntryRecord] /\ group \in [Groups -> GroupRecord]
      /\ worker \in [Entries -> WorkerRecord] /\ pump \in [Groups -> PumpRecord]
      /\ streams \in [Targets -> Entries \cup {Nil}]
      /\ groups \in [Keys -> Groups \cup {Nil}]
      /\ plan \in [Actors -> SUBSET Resource]
      /\ Nil \notin Entries /\ Nil \notin Groups
      /\ \A f \in Entries : entry[f].target \in Targets
      /\ \A f \in Entries : Live(f) => worker[f].pc \notin Finished
      /\ \A t \in Targets : streams[t] # Nil => entry[streams[t]].target = t
  BY StateFacts
<1>b. NoLeak /\ AudioOff /\ Unstarted
  BY DEF LeakInv
<1>c. ASSUME UNCHANGED <<streams, groups, entry, group, worker, pump, plan, open>>
      PROVE LeakInv'
  BY <1>c DEF LeakInv, NoLeak, AudioOff, Unstarted, Dialled, EntryOwns, WorkerOwns, GroupOwns,
     Live, Published, Held, GroupHeld, Audio, Client, Session, Sink, Ctx, GroupCtx, Capture
\* control requests
<1>1. ASSUME NEW t \in Targets, NEW c \in BOOLEAN, Connect(t, c) PROVE LeakInv'
  <2>1. PICK e \in Entries :
           /\ worker[e].pc = "none"
           /\ streams' = [streams EXCEPT ![t] = e]
           /\ entry' = [entry EXCEPT ![e] = FreshEntry(t)]
           /\ worker' = [worker EXCEPT ![e].pc = "dial", ![e].cred = c]
           /\ open' = open \cup {Ctx(e)}
    BY <1>1 DEF Connect
  <2>2. streams[t] = Nil /\ UNCHANGED <<groups, group, pump, plan>>
    BY <1>1 DEF Connect
  <2>3. /\ worker'[e].pc = "dial" /\ worker'[e].dials = worker[e].dials
        /\ entry'[e] = FreshEntry(t)
        /\ \A f \in Entries : f # e => worker'[f] = worker[f] /\ entry'[f] = entry[f]
        /\ streams'[t] = e /\ \A u \in Targets : u # t => streams'[u] = streams[u]
    BY <1>a, <2>1 DEF WorkerRecord
  <2>4. entry'[e].cancel = TRUE /\ entry'[e].client = Nil /\ entry'[e].target = t
    BY <2>3 DEF FreshEntry
  <2>5. ~Live(e) /\ Live(e)' /\ \A f \in Entries : f # e => (Live(f)' <=> Live(f))
    BY <1>a, <2>1, <2>2, <2>3, <2>4 DEF Live, Finished
  <2>6. NoLeak'
    <3>1. ASSUME NEW r \in open' \ open PROVE Owned(r)'
      <4>1. r = Ctx(e)
        BY <2>1, <3>1
      <4>2. r \in EntryOwns(e)'
        BY <2>4, <2>5, <4>1 DEF EntryOwns, Held, Ctx
      <4>3. QED BY <4>2 DEF Owned
    <3>2. ASSUME NEW f \in Entries, NEW r \in open', r \in EntryOwns(f) PROVE Owned(r)'
      <4>1. f # e /\ Live(f)
        BY <2>5, <3>2, EntryOwned
      <4>2. EntryOwns(f)' = EntryOwns(f)
        BY <2>3, <2>5, <4>1 DEF EntryOwns, Held
      <4>3. QED BY <3>2, <4>2 DEF Owned
    <3>3. ASSUME NEW f \in Entries, NEW r \in open', r \in WorkerOwns(f) PROVE Owned(r)'
      <4>1. f # e
        BY <2>1, <3>3, WorkerOwned DEF AudioPCs
      <4>2. WorkerOwns(f)' = WorkerOwns(f)
        BY <2>3, <4>1 DEF WorkerOwns
      <4>3. QED BY <3>3, <4>2 DEF Owned
    <3>4. ASSUME NEW g \in Groups, NEW r \in open', r \in GroupOwns(g) PROVE Owned(r)'
      <4>1. GroupOwns(g)' = GroupOwns(g)
        BY <2>2 DEF GroupOwns, GroupHeld, Published
      <4>2. QED BY <3>4, <4>1 DEF Owned
    <3>5. ASSUME NEW a \in Actors, NEW r \in open', r \in plan[a] PROVE Owned(r)'
      BY <2>2, <3>5 DEF Owned
    <3>6. QED BY <1>b, <3>1, <3>2, <3>3, <3>4, <3>5, LeakTransfer
  <2>7. ASSUME NEW f \in Entries PROVE Dialled(f)'
    <3>1. Dialled(f)
      BY DEF LeakInv
    <3>2. \A i : Client(f, i) \in open' => Client(f, i) \in open
      BY <2>1 DEF Client, Ctx
    <3>3. Client(f, worker[f].dials)' = Client(f, worker'[f].dials)
      BY DEF Client
    <3>4. CASE f = e
      <4>1. worker'[e].dials = 0 /\ Client(e, 0) \notin open
        BY <2>1, <2>3, <3>1, <3>4 DEF Dialled
      <4>2. QED BY <2>3, <2>4, <3>2, <3>3, <3>4, <4>1 DEF Dialled
    <3>5. CASE f # e
      BY <2>3, <2>5, <3>1, <3>2, <3>3, <3>5 DEF Dialled
    <3>6. QED BY <3>4, <3>5
  <2>8. AudioOff'
    <3>1. \A f \in Entries : Audio(f)' = Audio(f) /\ (Audio(f) \in open' => Audio(f) \in open)
      BY <2>1 DEF Audio, Ctx
    <3>2. \A f \in Entries : worker'[f].pc = worker[f].pc \/ worker'[f].pc = "dial"
      BY <2>3
    <3>3. QED BY <1>b, <3>1, <3>2 DEF AudioOff
  <2>9. Unstarted'
    BY <1>b, <2>2 DEF Unstarted
  <2>10. QED BY <2>6, <2>7, <2>8, <2>9 DEF LeakInv
<1>2. ASSUME NEW t \in Targets, Submit(t) PROVE LeakInv'
  <2>1. /\ UNCHANGED <<streams, groups, group, worker, pump, plan, open>>
        /\ streams[t] \in Entries
        /\ \E x : entry' = [entry EXCEPT ![streams[t]].state = "connecting",
                                         ![streams[t]].kind = "none", ![streams[t]].ch = x]
    BY <1>a, <1>2 DEF Submit, Pending
  <2>2. \A f \in Entries : /\ entry'[f].cancel = entry[f].cancel /\ entry'[f].sink = entry[f].sink
                           /\ entry'[f].session = entry[f].session
                           /\ entry'[f].client = entry[f].client
                           /\ entry'[f].target = entry[f].target
    BY <1>a, <2>1 DEF EntryRecord
  <2>3. ASSUME NEW f \in Entries PROVE /\ Live(f)' <=> Live(f)
                                       /\ EntryOwns(f)' = EntryOwns(f)
                                       /\ WorkerOwns(f)' = WorkerOwns(f)
    <3>1. Live(f)' <=> Live(f)
      BY <2>1, <2>2 DEF Live
    <3>2. Held(f)' = Held(f)
      BY <2>2 DEF Held
    <3>3. QED BY <2>1, <3>1, <3>2 DEF EntryOwns, WorkerOwns
  <2>4. \A g \in Groups : GroupOwns(g)' = GroupOwns(g)
    BY <2>1 DEF GroupOwns, GroupHeld, Published
  <2>5. NoLeak'
    BY <1>b, <2>1, <2>3, <2>4, SharesKept
  <2>6. RestFrame
    BY <1>b, <2>1, <2>2, <2>3 DEF RestFrame, AudioOff
  <2>7. QED BY <2>5, <2>6, RestKeeps
\* detachments by requests and Shutdown
<1>3. ASSUME NEW E \in SUBSET Active, NEW G \in SUBSET Groups, NEW a \in Actors,
             plan[a] = {}, Detach(E, G, a), UNCHANGED <<worker, pump, open>>
      PROVE  LeakInv'
  <2>1. \A e \in Entries : WorkerOwns(e)' = WorkerOwns(e)
    BY <1>3 DEF WorkerOwns
  <2>2. \A e \in Entries : NoAudio => worker'[e].pc \notin {"ready", "startAudio", "stopAudio"}
    BY <1>b, <1>3 DEF AudioOff
  <2>3. QED BY <1>3, <2>1, <2>2, DetachKeepsLeak
<1>4. ASSUME NEW r \in 1 .. MaxRequests, NEW t \in Targets, Disconnect(r, t) PROVE LeakInv'
  <2>1. {streams[t]} \in SUBSET Active /\ FreedBy({streams[t]}) \in SUBSET Groups
        /\ Request(r) \in Actors
    BY <1>a, <1>4 DEF Disconnect, Active, Live, FreedBy, Actors
  <2>2. /\ Detach({streams[t]}, FreedBy({streams[t]}), Request(r)) /\ plan[Request(r)] = {}
        /\ UNCHANGED <<worker, pump, open>>
    BY <1>4 DEF Disconnect
  <2>3. QED BY <1>3, <2>1, <2>2
<1>5. ASSUME NEW a \in Actors, plan[a] = {}, DetachAll(a), UNCHANGED <<worker, pump, open>>
      PROVE  LeakInv'
  <2>1. Active \in SUBSET Active /\ {g \in Groups : Published(g)} \in SUBSET Groups
    OBVIOUS
  <2>2. QED BY <1>3, <1>5, <2>1 DEF DetachAll
<1>6. ASSUME NEW r \in 1 .. MaxRequests, DisconnectAll(r) PROVE LeakInv'
  BY <1>5, <1>6 DEF DisconnectAll, Actors
<1>7. CASE Shutdown
  <2>1. plan[Stopper] = {} /\ Stopper \in Actors
    BY <1>7 DEF Shutdown, CountInv, PlansRun, Actors
  <2>2. QED BY <1>5, <1>7, <2>1 DEF Shutdown
<1>8. CASE ShutdownDone
  BY <1>c, <1>8 DEF ShutdownDone, maps
<1>9. ASSUME NEW a \in Actors, Clean(a) PROVE LeakInv'
  <2>1. /\ open' = open \ FirstStage(plan[a]) /\ UNCHANGED <<worker, pump, streams, groups, entry, group>>
        /\ plan' = [plan EXCEPT ![a] = plan[a] \ FirstStage(plan[a])]
    BY <1>9 DEF Clean, maps
  <2>2. ASSUME NEW b \in Actors, NEW r \in open', r \in plan[b] PROVE r \in plan'[b]
    <3>1. CASE b = a
      <4>1. plan'[b] = plan[a] \ FirstStage(plan[a])
        BY <1>a, <2>1, <3>1
      <4>2. QED BY <2>1, <2>2, <3>1, <4>1
    <3>2. CASE b # a
      BY <1>a, <2>1, <2>2, <3>2
    <3>3. QED BY <3>1, <3>2
  <2>3. /\ \A e \in Entries : EntryOwns(e)' = EntryOwns(e) /\ WorkerOwns(e)' = WorkerOwns(e)
        /\ \A g \in Groups : GroupOwns(g)' = GroupOwns(g)
    BY <2>1 DEF EntryOwns, Held, WorkerOwns, GroupOwns, GroupHeld, Live, Published
  <2>4. NoLeak'
    BY <1>b, <2>1, <2>2, <2>3, SharesKept
  <2>5. RestFrame
    BY <1>b, <2>1 DEF RestFrame, AudioOff, Live
  <2>6. QED BY <2>4, <2>5, RestKeeps
\* workers
<1>10. ASSUME NEW e \in Entries, Quiet(e) PROVE LeakInv'
  BY <1>10, QuietLeak
<1>d. ASSUME NEW e \in Entries, NEW p \in {"setup", "fail", "startCapture", "discarded"},
             worker' = [worker EXCEPT ![e].pc = p]
             \/ \E g \in Groups : worker' = [worker EXCEPT ![e].pc = p, ![e].bc = g],
             worker[e].pc \in {"prepare", "startCapture", "discarded"}
      PROVE  /\ \A f \in Entries : /\ worker'[f].dials = worker[f].dials
                                   /\ worker'[f].pc \in {"none", "dial"} => worker'[f] = worker[f]
                                   /\ NoAudio => worker'[f].pc \notin {"ready", "startAudio", "stopAudio"}
                                   /\ WorkerOwns(f)' = WorkerOwns(f)
  <2>1. /\ worker'[e].pc = p /\ worker'[e].dials = worker[e].dials
        /\ \A f \in Entries : f # e => worker'[f] = worker[f]
    BY <1>a, <1>d DEF WorkerRecord
  <2>2. WorkerOwns(e)' = {} /\ WorkerOwns(e) = {}
    BY <1>d, <2>1 DEF WorkerOwns, AudioPCs
  <2>3. \A f \in Entries : WorkerOwns(f)' = WorkerOwns(f)
    BY <2>1, <2>2 DEF WorkerOwns
  <2>4. QED BY <1>b, <2>1, <2>3 DEF AudioOff
<1>e. ASSUME NEW e \in Entries, entry' = entry \/ \E h : entry' = [entry EXCEPT ![e].group = h],
             streams' = streams
      PROVE  \A f \in Entries : /\ EntryOwns(f)' = EntryOwns(f) /\ (Live(f)' <=> Live(f))
                                /\ entry'[f].client = entry[f].client
  <2>1. ASSUME NEW f \in Entries
        PROVE  /\ entry'[f].cancel = entry[f].cancel /\ entry'[f].sink = entry[f].sink
               /\ entry'[f].session = entry[f].session
               /\ entry'[f].client = entry[f].client
               /\ entry'[f].target = entry[f].target
    <3>1. CASE entry' = entry
      BY <3>1
    <3>2. ASSUME NEW h, entry' = [entry EXCEPT ![e].group = h]
          PROVE  /\ entry'[f].cancel = entry[f].cancel /\ entry'[f].sink = entry[f].sink
                 /\ entry'[f].session = entry[f].session
                 /\ entry'[f].client = entry[f].client
                 /\ entry'[f].target = entry[f].target
      <4>1. entry'[f] = entry[f] \/ entry'[f] = [entry[f] EXCEPT !.group = h]
        BY <1>a, <3>2
      <4>2. entry[f] \in EntryRecord
        BY <1>a
      <4>3. QED BY <4>1, <4>2 DEF EntryRecord
    <3>3. QED BY <1>e, <3>1, <3>2
  <2>2. ASSUME NEW f \in Entries PROVE EntryOwns(f)' = EntryOwns(f) /\ (Live(f)' <=> Live(f))
    <3>1. Live(f)' <=> Live(f)
      BY <1>e, <2>1 DEF Live
    <3>2. Held(f)' = Held(f)
      BY <2>1 DEF Held
    <3>3. QED BY <3>1, <3>2 DEF EntryOwns
  <2>3. QED BY <2>1, <2>2
<1>f. ASSUME NEW e \in Entries, worker[e].pc = "startCapture"
      PROVE  worker[e].bc \in Groups /\ pump[worker[e].bc].pc = "starting"
  <2>1. worker[e].bc \in Groups \cup {Nil}
    BY <1>a DEF WorkerRecord
  <2>2. QED BY <1>f, <2>1 DEF UseInv, Starting
<1>11. ASSUME NEW e \in Entries, JoinGroup(e) PROVE LeakInv'
  <2>1. /\ worker[e].pc = "prepare" /\ UNCHANGED <<streams, groups, group, plan, open, pump>>
        /\ \E h : entry' = [entry EXCEPT ![e].group = h]
    BY <1>11 DEF JoinGroup, At, unchangedByWorker
  <2>2. \E p \in {"setup", "fail"} :
           \/ worker' = [worker EXCEPT ![e].pc = p]
           \/ \E g \in Groups : worker' = [worker EXCEPT ![e].pc = p, ![e].bc = g]
    BY <1>a, <1>11 DEF JoinGroup, Goto
  <2>3. \A f \in Entries : /\ worker'[f].dials = worker[f].dials
                           /\ worker'[f].pc \in {"none", "dial"} => worker'[f] = worker[f]
                           /\ NoAudio => worker'[f].pc \notin {"ready", "startAudio", "stopAudio"}
                           /\ WorkerOwns(f)' = WorkerOwns(f)
    BY <1>d, <2>1, <2>2
  <2>4. \A f \in Entries : /\ EntryOwns(f)' = EntryOwns(f) /\ (Live(f)' <=> Live(f))
                           /\ entry'[f].client = entry[f].client
    BY <1>e, <2>1
  <2>5. \A g \in Groups : GroupOwns(g)' = GroupOwns(g)
    BY <2>1 DEF GroupOwns, GroupHeld, Published
  <2>6. NoLeak'
    BY <1>b, <2>1, <2>3, <2>4, <2>5, SharesKept
  <2>7. RestFrame
    BY <2>1, <2>3, <2>4 DEF RestFrame
  <2>8. QED BY <2>6, <2>7, RestKeeps
<1>12. ASSUME NEW e \in Entries, PublishGroup(e) PROVE LeakInv'
  <2>1. PICK k \in Keys, g \in Groups :
           /\ groups[k] = Nil /\ pump[g].pc = "none"
           /\ groups' = [groups EXCEPT ![k] = g]
           /\ group' = [group EXCEPT ![g] = [key |-> k, cancel |-> TRUE,
                                             capture |-> FALSE, broadcast |-> FALSE]]
           /\ entry' = [entry EXCEPT ![e].group = g]
           /\ pump' = [pump EXCEPT ![g].pc = "starting"]
           /\ worker' = [worker EXCEPT ![e].pc = "startCapture", ![e].bc = g]
           /\ open' = open \cup {GroupCtx(g)}
    BY <1>12 DEF PublishGroup
  <2>2. worker[e].pc = "prepare" /\ streams' = streams /\ plan' = plan
    BY <1>12 DEF PublishGroup, At
  <2>3. \A f \in Entries : /\ worker'[f].dials = worker[f].dials
                           /\ worker'[f].pc \in {"none", "dial"} => worker'[f] = worker[f]
                           /\ NoAudio => worker'[f].pc \notin {"ready", "startAudio", "stopAudio"}
                           /\ WorkerOwns(f)' = WorkerOwns(f)
    BY <1>d, <2>1, <2>2
  <2>4. \A f \in Entries : /\ EntryOwns(f)' = EntryOwns(f) /\ (Live(f)' <=> Live(f))
                           /\ entry'[f].client = entry[f].client
    BY <1>e, <2>1, <2>2
  <2>5. ~Published(g)
    BY <1>a, <2>1 DEF Published, MapsInv, MapsOwn, GroupRecord
  <2>6. ASSUME NEW h \in Groups, h # g
        PROVE  group'[h] = group[h] /\ pump'[h] = pump[h] /\ (Published(h) => Published(h)')
    <3>1. group'[h] = group[h] /\ pump'[h] = pump[h]
      BY <1>a, <2>1, <2>6
    <3>2. Published(h) => group[h].key # k
      BY <1>a, <2>1 DEF Published
    <3>3. group[h].key \in Keys
      BY <1>a DEF GroupRecord
    <3>4. QED BY <1>a, <2>1, <3>1, <3>2, <3>3 DEF Published
  <2>7. /\ group'[g].key = k /\ group'[g].cancel = TRUE /\ group'[g].capture = FALSE
        /\ groups'[k] = g
    BY <1>a, <2>1
  <2>8. GroupCtx(g) \in GroupOwns(g)'
    BY <2>7 DEF GroupOwns, GroupHeld, Published, GroupCtx
  <2>9. NoLeak'
    <3>1. \A r \in open' \ open : Owned(r)'
      BY <2>1, <2>8 DEF Owned
    <3>2. \A r \in open', f \in Entries : r \in EntryOwns(f) => Owned(r)'
      BY <2>4 DEF Owned
    <3>3. \A r \in open', f \in Entries : r \in WorkerOwns(f) => Owned(r)'
      BY <2>3 DEF Owned
    <3>4. ASSUME NEW r \in open', NEW h \in Groups, r \in GroupOwns(h) PROVE Owned(r)'
      <4>1. h # g /\ Published(h)
        BY <2>5, <3>4, GroupOwned
      <4>2. r \in GroupOwns(h)'
        BY <2>6, <3>4, <4>1 DEF GroupOwns, GroupHeld
      <4>3. QED BY <4>2 DEF Owned
    <3>5. \A r \in open', a \in Actors : r \in plan[a] => Owned(r)'
      BY <2>2 DEF Owned
    <3>6. QED BY <1>b, <3>1, <3>2, <3>3, <3>4, <3>5, LeakTransfer
  <2>10. RestFrame
    <3>1. \A r \in open' \ open : r[1] \notin {"client", "audio"}
      BY <2>1 DEF GroupCtx
    <3>2. QED BY <2>3, <2>4, <2>6, <2>7, <3>1 DEF RestFrame
  <2>11. QED BY <2>9, <2>10, RestKeeps
<1>13. ASSUME NEW e \in Entries, CaptureFails(e) PROVE LeakInv'
  <2> DEFINE g == worker[e].bc
  <2>1. /\ worker[e].pc = "startCapture" /\ streams' = streams /\ plan' = plan /\ group' = group
        /\ worker' = [worker EXCEPT ![e].pc = "fail"]
        /\ \E h : entry' = [entry EXCEPT ![e].group = h]
        /\ open' = open \ {GroupCtx(g)}
        /\ groups' = [groups EXCEPT ![group[g].key] = IF groups[group[g].key] = g THEN Nil
                                                      ELSE groups[group[g].key]]
        /\ pump' = [pump EXCEPT ![g].pc = "gone"]
    BY <1>13 DEF CaptureFails, At, Goto
  <2>2. g \in Groups /\ pump[g].pc = "starting" /\ ~group[g].capture
    BY <1>b, <1>f, <2>1 DEF Unstarted
  <2>3. \A f \in Entries : /\ worker'[f].dials = worker[f].dials
                           /\ worker'[f].pc \in {"none", "dial"} => worker'[f] = worker[f]
                           /\ NoAudio => worker'[f].pc \notin {"ready", "startAudio", "stopAudio"}
                           /\ WorkerOwns(f)' = WorkerOwns(f)
    BY <1>d, <2>1
  <2>4. \A f \in Entries : /\ EntryOwns(f)' = EntryOwns(f) /\ (Live(f)' <=> Live(f))
                           /\ entry'[f].client = entry[f].client
    BY <1>e, <2>1
  <2> HIDE DEF g
  <2>5. ASSUME NEW h \in Groups, NEW r \in open', r \in GroupOwns(h) PROVE r \in GroupOwns(h)'
    <3>1. h # g
      BY <2>1, <2>2, <2>5, GroupOwned
    <3>2. Published(h) /\ group[h].key \in Keys /\ group[g].key \in Keys
      BY <1>a, <2>2, <2>5, GroupOwned DEF GroupRecord
    <3>3. groups'[group[h].key] = groups[group[h].key]
      BY <1>a, <2>1, <3>1, <3>2 DEF Published
    <3>4. Published(h)'
      BY <2>1, <3>2, <3>3 DEF Published
    <3>5. QED BY <2>1, <2>5, <3>2, <3>4 DEF GroupOwns, GroupHeld
  <2>6. NoLeak'
    BY <1>b, <2>1, <2>3, <2>4, <2>5, SharesKept
  <2>7. \A h \in Groups : pump'[h].pc \in {"none", "starting"} => pump[h].pc \in {"none", "starting"}
    BY <1>a, <2>1, <2>2 DEF PumpRecord
  <2>8. RestFrame
    BY <2>1, <2>3, <2>4, <2>7 DEF RestFrame
  <2>9. QED BY <2>6, <2>8, RestKeeps
<1>14. ASSUME NEW e \in Entries, PublishCapture(e) PROVE LeakInv'
  <2>a. At(e, "startCapture")
    BY <1>14 DEF PublishCapture
  <2>b. PICK g \in Groups : g = worker[e].bc /\ pump[g].pc = "starting"
    BY <1>f, <2>a DEF At
  <2>1. /\ worker[e].pc = "startCapture"
        /\ UNCHANGED <<streams, groups, entry, plan>>
        /\ worker' = [worker EXCEPT ![e].pc = "setup"]
        /\ StillWanted(e, g)
        /\ group' = [group EXCEPT ![g].capture = TRUE, ![g].broadcast = TRUE]
        /\ pump' = [pump EXCEPT ![g].pc = "running"]
        /\ open' = open \cup {Capture(g)}
    BY <1>14, <2>b DEF PublishCapture, At, Goto
  <2>2. g \in Groups /\ pump[g].pc = "starting" /\ Published(g)
    BY <2>1, <2>b DEF StillWanted
  <2>3. \A f \in Entries : /\ worker'[f].dials = worker[f].dials
                           /\ worker'[f].pc \in {"none", "dial"} => worker'[f] = worker[f]
                           /\ NoAudio => worker'[f].pc \notin {"ready", "startAudio", "stopAudio"}
                           /\ WorkerOwns(f)' = WorkerOwns(f)
    BY <1>d, <2>1
  <2>4. \A f \in Entries : /\ EntryOwns(f)' = EntryOwns(f) /\ (Live(f)' <=> Live(f))
                           /\ entry'[f].client = entry[f].client
    BY <1>e, <2>1
  <2>5. /\ group'[g].capture = TRUE /\ group'[g].cancel = group[g].cancel
        /\ group'[g].key = group[g].key
        /\ \A h \in Groups : h # g => group'[h] = group[h] /\ pump'[h] = pump[h]
        /\ pump'[g].pc = "running"
    <3>1. group'[g] = [group[g] EXCEPT !.capture = TRUE, !.broadcast = TRUE]
          /\ group[g] \in GroupRecord
      BY <1>a, <2>1, <2>2
    <3>2. /\ group'[g].capture = TRUE /\ group'[g].cancel = group[g].cancel
          /\ group'[g].key = group[g].key
      BY <3>1 DEF GroupRecord
    <3>3. QED BY <1>a, <2>1, <2>2, <3>2 DEF PumpRecord
  <2>6. \A h \in Groups : Published(h)' <=> Published(h)
    BY <2>1, <2>5 DEF Published
  <2>7. ASSUME NEW h \in Groups, NEW r, r \in GroupOwns(h) PROVE r \in GroupOwns(h)'
    <3>1. CASE h = g
      <4>1. \/ r = GroupCtx(g) /\ group[g].cancel
            \/ r = Capture(g)
        BY <2>7, <3>1, GroupOwned
      <4>2. QED BY <2>2, <2>5, <2>6, <3>1, <4>1 DEF GroupOwns, GroupHeld, GroupCtx, Capture
    <3>2. CASE h # g
      BY <2>5, <2>6, <2>7, <3>2 DEF GroupOwns, GroupHeld
    <3>3. QED BY <3>1, <3>2
  <2>8. Capture(g) \in GroupOwns(g)'
    BY <2>2, <2>5, <2>6 DEF GroupOwns, GroupHeld, Capture
  <2>9. NoLeak'
    <3>1. \A r \in open' \ open : Owned(r)'
      BY <2>1, <2>2, <2>8 DEF Owned
    <3>2. \A r \in open', f \in Entries : r \in EntryOwns(f) => Owned(r)'
      BY <2>4 DEF Owned
    <3>3. \A r \in open', f \in Entries : r \in WorkerOwns(f) => Owned(r)'
      BY <2>3 DEF Owned
    <3>4. \A r \in open', h \in Groups : r \in GroupOwns(h) => Owned(r)'
      BY <2>7 DEF Owned
    <3>5. \A r \in open', a \in Actors : r \in plan[a] => Owned(r)'
      BY <2>1 DEF Owned
    <3>6. QED BY <1>b, <3>1, <3>2, <3>3, <3>4, <3>5, LeakTransfer
  <2>10. RestFrame
    <3>1. \A r \in open' \ open : r[1] \notin {"client", "audio"}
      BY <2>1 DEF Capture
    <3>2. \A h \in Groups : pump'[h].pc \in {"none", "starting"} /\ group'[h].capture
                             => pump[h].pc \in {"none", "starting"} /\ group[h].capture
      BY <2>5
    <3>3. QED BY <2>3, <2>4, <3>1, <3>2 DEF RestFrame
  <2>11. QED BY <2>9, <2>10, RestKeeps
<1>15. ASSUME NEW e \in Entries, DiscardCapture(e) PROVE LeakInv'
  <2>a. At(e, "startCapture")
    BY <1>15 DEF DiscardCapture
  <2>b. PICK g \in Groups : g = worker[e].bc /\ pump[g].pc = "starting"
    BY <1>f, <2>a DEF At
  <2>1. /\ worker[e].pc = "startCapture" /\ plan[Worker(e)] = {}
        /\ UNCHANGED <<streams, groups, entry, group>>
        /\ worker' = [worker EXCEPT ![e].pc = "discarded"]
        /\ plan' = [plan EXCEPT ![Worker(e)] = {GroupCtx(g), Capture(g)}]
        /\ pump' = [pump EXCEPT ![g].pc = "gone"]
        /\ open' = open \cup {Capture(g)}
    BY <1>15, <2>b DEF DiscardCapture, At, Goto, maps
  <2>2. g \in Groups /\ Worker(e) \in Actors
    BY DEF Actors
  <2>3. \A f \in Entries : /\ worker'[f].dials = worker[f].dials
                           /\ worker'[f].pc \in {"none", "dial"} => worker'[f] = worker[f]
                           /\ NoAudio => worker'[f].pc \notin {"ready", "startAudio", "stopAudio"}
                           /\ WorkerOwns(f)' = WorkerOwns(f)
    BY <1>d, <2>1
  <2>4. \A f \in Entries : /\ EntryOwns(f)' = EntryOwns(f) /\ (Live(f)' <=> Live(f))
                           /\ entry'[f].client = entry[f].client
    BY <1>e, <2>1
  <2>5. \A h \in Groups : GroupOwns(h)' = GroupOwns(h)
    BY <2>1 DEF GroupOwns, GroupHeld, Published
  <2>6. /\ plan'[Worker(e)] = {GroupCtx(g), Capture(g)}
        /\ \A a \in Actors : \A r \in plan[a] : r \in plan'[a]
    <3>1. plan'[Worker(e)] = {GroupCtx(g), Capture(g)}
      BY <1>a, <2>1, <2>2
    <3>2. ASSUME NEW a \in Actors, NEW r \in plan[a] PROVE r \in plan'[a]
      <4>1. a # Worker(e)
        BY <2>1
      <4>2. QED BY <1>a, <2>1, <4>1
    <3>3. QED BY <3>1, <3>2
  <2>7. NoLeak'
    <3>1. \A r \in open' \ open : Owned(r)'
      BY <2>1, <2>2, <2>6 DEF Owned
    <3>2. \A r \in open', f \in Entries : r \in EntryOwns(f) => Owned(r)'
      BY <2>4 DEF Owned
    <3>3. \A r \in open', f \in Entries : r \in WorkerOwns(f) => Owned(r)'
      BY <2>3 DEF Owned
    <3>4. \A r \in open', h \in Groups : r \in GroupOwns(h) => Owned(r)'
      BY <2>5 DEF Owned
    <3>5. \A r \in open', a \in Actors : r \in plan[a] => Owned(r)'
      BY <2>6 DEF Owned
    <3>6. QED BY <1>b, <3>1, <3>2, <3>3, <3>4, <3>5, LeakTransfer
  <2>8. RestFrame
    <3>1. \A r \in open' \ open : r[1] \notin {"client", "audio"}
      BY <2>1 DEF Capture
    <3>2. \A h \in Groups : pump'[h].pc \in {"none", "starting"} => pump[h].pc \in {"none", "starting"}
      BY <1>a, <2>1, <2>2 DEF PumpRecord
    <3>3. QED BY <2>1, <2>3, <2>4, <3>1, <3>2 DEF RestFrame
  <2>9. QED BY <2>7, <2>8, RestKeeps
<1>16. ASSUME NEW e \in Entries, CaptureDiscarded(e) PROVE LeakInv'
  <2>1. /\ worker[e].pc = "discarded" /\ worker' = [worker EXCEPT ![e].pc = "fail"]
        /\ UNCHANGED <<streams, groups, entry, group, plan, open, pump>>
    BY <1>16 DEF CaptureDiscarded, At, Goto, maps, unchangedByWorker
  <2>2. \A f \in Entries : /\ worker'[f].dials = worker[f].dials
                           /\ worker'[f].pc \in {"none", "dial"} => worker'[f] = worker[f]
                           /\ NoAudio => worker'[f].pc \notin {"ready", "startAudio", "stopAudio"}
                           /\ WorkerOwns(f)' = WorkerOwns(f)
    BY <1>d, <2>1
  <2>3. \A f \in Entries : /\ EntryOwns(f)' = EntryOwns(f) /\ (Live(f)' <=> Live(f))
                           /\ entry'[f].client = entry[f].client
    BY <1>e, <2>1
  <2>4. \A g \in Groups : GroupOwns(g)' = GroupOwns(g)
    BY <2>1 DEF GroupOwns, GroupHeld, Published
  <2>5. NoLeak'
    BY <1>b, <2>1, <2>2, <2>3, <2>4, SharesKept
  <2>6. RestFrame
    BY <2>1, <2>2, <2>3 DEF RestFrame
  <2>7. QED BY <2>5, <2>6, RestKeeps
\* the end of a worker: it detaches its stream, or its stream is gone already
<1>g. ASSUME NEW e \in Entries, NEW p \in {"exit", "stopAudio"},
             worker' = [worker EXCEPT ![e].pc = p], p = "stopAudio" => ~NoAudio,
             worker[e].pc \in {"abandon", "fail"} \/ (worker[e].pc = "ended" /\ (NoAudio \/ p = "stopAudio"))
      PROVE  \A f \in Entries :
                /\ worker'[f].dials = worker[f].dials
                /\ worker'[f].pc \in {"none", "dial"} => worker'[f] = worker[f]
                /\ NoAudio => worker'[f].pc \notin {"ready", "startAudio", "stopAudio"}
                /\ \A r \in open : r \in WorkerOwns(f) => r \in WorkerOwns(f)'
  <2>1. /\ worker'[e].pc = p /\ worker'[e].dials = worker[e].dials
        /\ \A f \in Entries : f # e => worker'[f] = worker[f]
    BY <1>a, <1>g DEF WorkerRecord
  <2>2. ASSUME NEW r \in open, r \in WorkerOwns(e) PROVE r \in WorkerOwns(e)'
    <3>1. r = Audio(e) /\ worker[e].pc = "ended"
      BY <1>g, <2>2, WorkerOwned DEF AudioPCs
    <3>2. ~NoAudio
      BY <1>b, <2>2, <3>1 DEF AudioOff
    <3>3. QED BY <1>g, <2>1, <3>1, <3>2 DEF WorkerOwns, AudioPCs, Audio
  <2>3. ASSUME NEW f \in Entries, f # e PROVE WorkerOwns(f)' = WorkerOwns(f)
    BY <2>1, <2>3 DEF WorkerOwns
  <2>4. QED BY <1>b, <1>g, <2>1, <2>2, <2>3 DEF AudioOff
<1>17. ASSUME NEW e \in Entries, Abandon(e) PROVE LeakInv'
  <2> DEFINE G == {g \in Groups : g = entry[e].group /\ UsersOf(g) = {} /\ Published(g)}
  <2>1. /\ Detach({}, G, Worker(e)) /\ worker' = [worker EXCEPT ![e].pc = "exit"]
        /\ UNCHANGED <<pump, open>> /\ worker[e].pc = "abandon" /\ plan[Worker(e)] = {}
    BY <1>17 DEF Abandon, At, Goto, unchangedByWorker
  <2>2. {} \in SUBSET Active /\ G \in SUBSET Groups /\ Worker(e) \in Actors
    BY DEF Actors
  <2>3. \A f \in Entries :
           /\ worker'[f].dials = worker[f].dials
           /\ worker'[f].pc \in {"none", "dial"} => worker'[f] = worker[f]
           /\ NoAudio => worker'[f].pc \notin {"ready", "startAudio", "stopAudio"}
           /\ \A r \in open : r \in WorkerOwns(f) => r \in WorkerOwns(f)'
    BY <1>g, <2>1
  <2> HIDE DEF G
  <2>4. QED BY <2>1, <2>2, <2>3, DetachKeepsLeak
<1>18. ASSUME NEW e \in Entries, StreamEnded(e) \/ RemoveStream(e) PROVE LeakInv'
  <2>1. /\ plan[Worker(e)] = {} /\ UNCHANGED <<pump, open>>
        /\ Live(e) => Detach({e}, FreedBy({e}), Worker(e))
        /\ ~Live(e) => UNCHANGED <<streams, groups, entry, group, plan>>
    BY <1>18 DEF StreamEnded, RemoveStream, At, unchangedByWorker, maps
  <2>2. \E p \in {"exit", "stopAudio"} :
           /\ worker' = [worker EXCEPT ![e].pc = p] /\ (p = "stopAudio" => ~NoAudio)
           /\ worker[e].pc = "fail" \/ (worker[e].pc = "ended" /\ (NoAudio \/ p = "stopAudio"))
    BY <1>18 DEF StreamEnded, RemoveStream, At, Goto
  <2>3. \A f \in Entries :
           /\ worker'[f].dials = worker[f].dials
           /\ worker'[f].pc \in {"none", "dial"} => worker'[f] = worker[f]
           /\ NoAudio => worker'[f].pc \notin {"ready", "startAudio", "stopAudio"}
           /\ \A r \in open : r \in WorkerOwns(f) => r \in WorkerOwns(f)'
    BY <1>g, <2>2
  <2>4. CASE Live(e)
    <3>1. {e} \in SUBSET Active /\ FreedBy({e}) \in SUBSET Groups /\ Worker(e) \in Actors
      BY <2>4 DEF Active, FreedBy, Actors
    <3>2. QED BY <2>1, <2>3, <2>4, <3>1, DetachKeepsLeak
  <2>5. CASE ~Live(e)
    <3>1. \A f \in Entries : EntryOwns(f)' = EntryOwns(f) /\ (Live(f)' <=> Live(f))
      BY <2>1, <2>5 DEF EntryOwns, Held, Live
    <3>2. \A g \in Groups : GroupOwns(g)' = GroupOwns(g)
      BY <2>1, <2>5 DEF GroupOwns, GroupHeld, Published
    <3>3. NoLeak'
      BY <1>b, <2>1, <2>3, <2>5, <3>1, <3>2, SharesKept
    <3>4. RestFrame
      BY <2>1, <2>3, <2>5, <3>1 DEF RestFrame
    <3>5. QED BY <3>3, <3>4, RestKeeps
  <2>6. QED BY <2>4, <2>5
<1>19. ASSUME NEW e \in Entries, Exit(e) PROVE LeakInv'
  <2>1. /\ worker[e].pc = "exit" /\ worker'[e].pc = "gone"
        /\ \A f \in Entries : f # e => worker'[f] = worker[f]
        /\ UNCHANGED <<streams, groups, entry, group, plan, open, pump>>
    BY <1>a, <1>19 DEF Exit, At, maps, Locals
  <2>2. ~Live(e)
    BY <1>a, <2>1 DEF Finished
  <2>3. \A f \in Entries : EntryOwns(f)' = EntryOwns(f) /\ (Live(f)' <=> Live(f))
    BY <2>1 DEF EntryOwns, Held, Live
  <2>4. \A g \in Groups : GroupOwns(g)' = GroupOwns(g)
    BY <2>1 DEF GroupOwns, GroupHeld, Published
  <2>5. ASSUME NEW f \in Entries, NEW r, r \in WorkerOwns(f) PROVE r \in WorkerOwns(f)'
    <3>1. f # e
      BY <2>1, <2>5, WorkerOwned DEF AudioPCs
    <3>2. QED BY <2>1, <2>5, <3>1 DEF WorkerOwns
  <2>6. NoLeak'
    BY <1>b, <2>1, <2>3, <2>4, <2>5, SharesKept
  <2>7. RestFrame
    <3>1. \A f \in Entries : NoAudio => worker'[f].pc \notin {"ready", "startAudio", "stopAudio"}
      BY <1>b, <2>1 DEF AudioOff
    <3>2. QED BY <2>1, <2>2, <2>3, <3>1 DEF RestFrame
  <2>8. QED BY <2>6, <2>7, RestKeeps
\* pumps
<1>20. ASSUME NEW g \in Groups, BroadcastEnds(g) \/ PumpExits(g) PROVE LeakInv'
  <2>1. /\ UNCHANGED <<streams, groups, entry, group, worker, plan, open>>
        /\ \A h \in Groups : pump'[h].pc \in {"none", "starting"} => pump'[h] = pump[h]
    BY <1>a, <1>20 DEF BroadcastEnds, PumpExits, maps, PumpRecord
  <2>2. /\ \A f \in Entries : EntryOwns(f)' = EntryOwns(f) /\ WorkerOwns(f)' = WorkerOwns(f)
        /\ \A h \in Groups : GroupOwns(h)' = GroupOwns(h)
    BY <2>1 DEF EntryOwns, Held, WorkerOwns, GroupOwns, GroupHeld, Live, Published
  <2>3. NoLeak'
    BY <1>b, <2>1, <2>2, SharesKept
  <2>4. RestFrame
    BY <1>b, <2>1 DEF RestFrame, AudioOff, Live
  <2>5. QED BY <2>3, <2>4, RestKeeps
<1>21. ASSUME NEW g \in Groups, FinishCaptureGroup(g) PROVE LeakInv'
  <2>1. /\ pump[g].pc = "ended" /\ UNCHANGED <<worker, open>>
        /\ \A h \in Groups : pump'[h].pc \in {"none", "starting"} => pump'[h] = pump[h]
        /\ \/ Detach(UsersOf(g), {g}, Pump(g))
           \/ UNCHANGED <<streams, groups, entry, group, plan>>
    BY <1>a, <1>21 DEF FinishCaptureGroup, maps, PumpRecord
  <2>2. plan[Pump(g)] = {}
    BY <2>1 DEF CountInv, PlansRun
  <2>3. /\ \A f \in Entries : WorkerOwns(f)' = WorkerOwns(f)
        /\ \A f \in Entries : NoAudio => worker'[f].pc \notin {"ready", "startAudio", "stopAudio"}
    BY <1>b, <2>1 DEF WorkerOwns, AudioOff
  <2>4. CASE Detach(UsersOf(g), {g}, Pump(g))
    <3>1. UsersOf(g) \in SUBSET Active /\ {g} \in SUBSET Groups /\ Pump(g) \in Actors
      BY DEF UsersOf, Actors
    <3>2. QED BY <2>1, <2>2, <2>3, <2>4, <3>1, DetachKeepsLeak
  <2>5. CASE UNCHANGED <<streams, groups, entry, group, plan>>
    <3>1. /\ \A f \in Entries : EntryOwns(f)' = EntryOwns(f)
          /\ \A h \in Groups : GroupOwns(h)' = GroupOwns(h)
      BY <2>5 DEF EntryOwns, Held, GroupOwns, GroupHeld, Live, Published
    <3>2. NoLeak'
      BY <1>b, <2>1, <2>3, <2>5, <3>1, SharesKept
    <3>3. RestFrame
      BY <2>1, <2>3, <2>5 DEF RestFrame, Live
    <3>4. QED BY <3>2, <3>3, RestKeeps
  <2>6. QED BY <2>1, <2>4, <2>5
<1>22. CASE UNCHANGED vars
  BY <1>c, <1>22 DEF vars
<1>23. ASSUME NEW e \in Entries, WorkerStep(e) PROVE LeakInv'
  BY <1>23, <1>10, <1>11, <1>12, <1>13, <1>14, <1>15, <1>16, <1>17, <1>18, <1>19
  DEF WorkerStep, ProtocolStep, LocalStep, CaptureStep, Quiet
<1>24. ASSUME NEW g \in Groups, PumpStep(g) PROVE LeakInv'
  BY <1>24, <1>20, <1>21 DEF PumpStep
<1> QED
  BY <1>1, <1>2, <1>4, <1>6, <1>7, <1>8, <1>9, <1>22, <1>23, <1>24
  DEF Next, ControlStep, SubmitAnywhere


\* Whatever is open, an entry, a group, a worker or a cleanup plan will close it.
THEOREM ResourcesAreOwned == Spec => []LeakInv
PROOF
<1>1. Init => LeakInv
  <2> SUFFICES ASSUME Init PROVE LeakInv
    OBVIOUS
  <2>1. /\ \A e \in Entries : worker[e].pc = "none" /\ worker[e].dials = 0 /\ ~Live(e)
        /\ \A g \in Groups : ~group[g].capture
        /\ open = {}
    <3>1. \A t \in Targets : streams[t] = Nil
      BY DEF Init
    <3>2. \A e \in Entries : entry[e].target \in Targets
      BY TargetsAssumption DEF Init, Stripped, FreshEntry
    <3>3. \A e \in Entries : e # Nil
      BY BoundsAssumption DEF Entries
    <3>4. QED BY <3>1, <3>2, <3>3 DEF Init, Locals, Live
  <2>2. NoLeak
    BY <2>1 DEF NoLeak
  <2>3. QED BY <2>1, <2>2 DEF LeakInv, AudioOff, Unstarted, Dialled
<1>2. MapsInv /\ UseInv /\ CountInv /\ LeakInv /\ [Next]_vars => LeakInv'
  BY LeakStep
<1>3. QED BY <1>1, <1>2, MapsAgree, GroupsAgree, WaitGroupCounts, PTL DEF Spec

\* NoLeak of the lifecycle run, for every number of receivers, connections and requests:
\* no interleaving of workers, pumps, requests and Shutdown loses a connection, a session,
\* a sink, an encoder or a context.
THEOREM NothingLeaks == Spec => []NoLeak
PROOF
<1>1. LeakInv => NoLeak
  BY DEF LeakInv
<1>2. QED BY <1>1, ResourcesAreOwned, PTL

\* After Shutdown the maps are empty and the counter is zero, so no goroutine is left that
\* could own what is still open: nothing is.
LEMMA DownOwnsNothing ==
    ASSUME MapsInv, CountInv, LeakInv, shutdown = "down"
    PROVE  open = {} /\ Tracked = {}
PROOF
<1>a. /\ plan[Stopper] = {} /\ WaitGroupExact /\ wg = 0 /\ PlansRun
      /\ ShutdownIsFinal /\ ShuttingDown /\ NoLeak
  BY DEF MapsInv, CountInv, DownForGood, ShuttingDown, LeakInv
<1>b. /\ \A e \in Entries : entry[e].target \in Targets
      /\ \A g \in Groups : group[g].key \in Keys
      /\ Nil \notin Entries /\ Nil \notin Groups
  BY StateFacts DEF GroupRecord
<1>1. Tracked = {}
  BY <1>a, TrackedElements, FS_EmptySet DEF TrackedShape, WaitGroupExact
<1>2. /\ \A e \in Entries : ~Runs(e)
      /\ \A g \in Groups : ~Pumps(g)
      /\ \A r \in 1 .. MaxRequests : ~Cleans(r)
  BY <1>1, TrackedElements DEF TrackedShape
<1>3. \A a \in Actors : plan[a] = {}
  BY <1>a, <1>2 DEF PlansRun, Pumps, Cleans, Actors
<1>4. \A e \in Entries : ~Live(e)
  BY <1>a, <1>b DEF ShutdownIsFinal, Live
<1>5. \A g \in Groups : ~Published(g)
  BY <1>a, <1>b DEF ShutdownIsFinal, Published
<1>6. \A e \in Entries : WorkerOwns(e) = {} /\ EntryOwns(e) = {}
  BY <1>2, <1>4 DEF WorkerOwns, EntryOwns, Runs, AudioPCs
<1>7. \A g \in Groups : GroupOwns(g) = {}
  BY <1>5 DEF GroupOwns
<1>8. open = {}
  BY <1>a, <1>3, <1>6, <1>7 DEF NoLeak
<1> QED BY <1>1, <1>8

\* ShutdownWaits of the lifecycle run: the WaitGroup is exact, and Shutdown returns to a
\* daemon in which no goroutine runs and no resource is open.
THEOREM ShutdownLeavesQuiet == Spec => []ShutdownWaits
PROOF
<1>1. MapsInv /\ CountInv /\ LeakInv => ShutdownWaits
  BY DownOwnsNothing DEF ShutdownWaits, DownIsQuiet, CountInv
<1>2. QED BY <1>1, MapsAgree, WaitGroupCounts, ResourcesAreOwned, PTL


-----------------------------------------------------------------------------
(* Nothing is torn down twice.                                              *)

\* Some cleanup has r on its plan.
Planned(r) == \E a \in Actors : r \in plan[a]

\* Before its session is made, and while the worker alone holds it.
Early ==
    {"none", "dial", "info", "verify", "pair", "pairPin", "askPin", "askPassword",
     "showPin", "prompt", "waiting", "setup", "prepare", "startCapture", "discarded"}
Building == {"ready", "attach"}

\* The worker, the entry and the plans hold a session and a sink one after the other.
SessionOwned(e) ==
    /\ worker[e].pc \in Early => Session(e) \notin open
    /\ worker[e].pc \in Early \cup Building =>
          /\ ~entry[e].session /\ ~Planned(Session(e))
          /\ ~entry[e].sink /\ ~Planned(Sink(e))
    /\ entry[e].session => ~Planned(Session(e))
    /\ entry[e].sink => ~Planned(Sink(e))

\* The group and the plans hold a capture one after the other.
Unborn == {"none", "starting"}
CaptureOwned(g) ==
    /\ pump[g].pc \in Unborn => ~group[g].capture /\ ~Planned(Capture(g))
    /\ group[g].capture => ~Planned(Capture(g))

PlansDisjoint ==
    \A a, b \in Actors : a # b => \A r \in plan[a] \cap plan[b] : ~ClosedOnce(r)

OwnInv ==
    /\ PlansDisjoint
    /\ \A e \in Entries : SessionOwned(e)
    /\ \A g \in Groups : CaptureOwned(g)


\* r is in nobody's hands but a plan's.
Released(r) ==
    /\ \A e \in Entries : r \in {Session(e), Sink(e)} =>
          /\ worker[e].pc \notin Early \cup Building
          /\ r = Session(e) => ~entry[e].session
          /\ r = Sink(e) => ~entry[e].sink
    /\ \A g \in Groups : r = Capture(g) => pump[g].pc \notin Unborn /\ ~group[g].capture

\* A step brings a session, a sink or a capture into an entry or a group only as its
\* worker has just made it.
HoldFrame ==
    /\ \A e \in Entries :
          /\ worker'[e].pc \in Early =>
                worker[e].pc \in Early /\ (Session(e) \in open' => Session(e) \in open)
          /\ worker'[e].pc \in Building => worker[e].pc \in Early \cup Building
          /\ entry'[e].session \/ entry'[e].sink =>
                \/ /\ entry'[e].session => entry[e].session
                   /\ entry'[e].sink => entry[e].sink
                \/ worker[e].pc \in Building /\ worker'[e].pc \notin Early \cup Building
    /\ \A g \in Groups :
          /\ pump'[g].pc \in Unborn => pump[g].pc \in Unborn
          /\ group'[g].capture =>
                group[g].capture \/ (pump[g].pc \in Unborn /\ pump'[g].pc \notin Unborn)

LEMMA OwnKeeps ==
    ASSUME OwnInv, HoldFrame, PlansDisjoint',
           \A r : ClosedOnce(r) /\ Planned(r)' => Planned(r) \/ Released(r)'
    PROVE  OwnInv'
PROOF
<1>1. ASSUME NEW e \in Entries PROVE SessionOwned(e)'
  <2>a. SessionOwned(e)
    BY DEF OwnInv
  <2>b. /\ Session(e)' = Session(e) /\ Sink(e)' = Sink(e) /\ Sink(e) # Session(e)
        /\ ClosedOnce(Session(e)) /\ ClosedOnce(Sink(e))
    BY DEF Session, Sink, ClosedOnce
  <2>c. /\ Planned(Session(e))' => Planned(Session(e)) \/ Released(Session(e))'
        /\ Planned(Sink(e))' => Planned(Sink(e)) \/ Released(Sink(e))'
    BY <2>b DEF Planned
  <2>d. /\ Released(Session(e))' => /\ worker'[e].pc \notin Early \cup Building
                                    /\ ~entry'[e].session
        /\ Released(Sink(e))' => worker'[e].pc \notin Early \cup Building /\ ~entry'[e].sink
    BY <2>b DEF Released
  <2>e. /\ worker'[e].pc \in Early =>
              worker[e].pc \in Early /\ (Session(e) \in open' => Session(e) \in open)
        /\ worker'[e].pc \in Building => worker[e].pc \in Early \cup Building
        /\ entry'[e].session \/ entry'[e].sink =>
              \/ /\ entry'[e].session => entry[e].session
                 /\ entry'[e].sink => entry[e].sink
              \/ worker[e].pc \in Building /\ worker'[e].pc \notin Early \cup Building
    BY DEF HoldFrame
  <2>1. worker'[e].pc \in Early => Session(e) \notin open'
    BY <2>a, <2>e DEF SessionOwned
  <2>2. ASSUME worker'[e].pc \in Early \cup Building
        PROVE  /\ ~entry'[e].session /\ ~Planned(Session(e))'
               /\ ~entry'[e].sink /\ ~Planned(Sink(e))'
    <3>1. worker[e].pc \in Early \cup Building
      BY <2>2, <2>e
    <3>2. /\ ~entry[e].session /\ ~Planned(Session(e))
          /\ ~entry[e].sink /\ ~Planned(Sink(e))
      BY <2>a, <3>1 DEF SessionOwned
    <3>3. QED BY <2>2, <2>c, <2>d, <2>e, <3>2
  <2>3. entry'[e].session => ~Planned(Session(e))'
    BY <2>a, <2>c, <2>d, <2>e DEF SessionOwned
  <2>4. entry'[e].sink => ~Planned(Sink(e))'
    BY <2>a, <2>c, <2>d, <2>e DEF SessionOwned
  <2>5. QED BY <2>b, <2>1, <2>2, <2>3, <2>4 DEF SessionOwned, Planned
<1>2. ASSUME NEW g \in Groups PROVE CaptureOwned(g)'
  <2>a. CaptureOwned(g)
    BY DEF OwnInv
  <2>b. Capture(g)' = Capture(g) /\ ClosedOnce(Capture(g))
    BY DEF Capture, ClosedOnce
  <2>c. Planned(Capture(g))' => Planned(Capture(g)) \/ Released(Capture(g))'
    BY <2>b DEF Planned
  <2>d. Released(Capture(g))' => pump'[g].pc \notin Unborn /\ ~group'[g].capture
    BY <2>b DEF Released
  <2>e. /\ pump'[g].pc \in Unborn => pump[g].pc \in Unborn
        /\ group'[g].capture =>
              group[g].capture \/ (pump[g].pc \in Unborn /\ pump'[g].pc \notin Unborn)
    BY DEF HoldFrame
  <2>1. pump'[g].pc \in Unborn => ~group'[g].capture /\ ~Planned(Capture(g))'
    BY <2>a, <2>c, <2>d, <2>e DEF CaptureOwned
  <2>2. group'[g].capture => ~Planned(Capture(g))'
    BY <2>a, <2>c, <2>d, <2>e DEF CaptureOwned
  <2>3. QED BY <2>b, <2>1, <2>2 DEF CaptureOwned, Planned
<1> QED BY <1>1, <1>2 DEF OwnInv

\* Plans that only shrink.
LEMMA OwnKeepsPlans ==
    ASSUME OwnInv, HoldFrame, \A a \in Actors : plan'[a] \subseteq plan[a]
    PROVE  OwnInv'
PROOF
<1>1. PlansDisjoint'
  BY DEF OwnInv, PlansDisjoint, ClosedOnce
<1>2. \A r : Planned(r)' => Planned(r)
  BY DEF Planned
<1> QED BY <1>1, <1>2, OwnKeeps

\* One new plan, made of what its resources' holders gave away.
LEMMA OwnHandOver ==
    ASSUME OwnInv, HoldFrame, NEW a \in Actors,
           \A b \in Actors : b # a => plan'[b] = plan[b],
           \A r \in plan'[a] : ClosedOnce(r) => ~Planned(r) /\ Released(r)'
    PROVE  OwnInv'
PROOF
<1>1. PlansDisjoint'
  <2>1. ASSUME NEW b \in Actors, NEW c \in Actors, b # c,
               NEW r \in plan'[b] \cap plan'[c], ClosedOnce(r)
        PROVE  FALSE
    <3>1. CASE b # a /\ c # a
      BY <2>1, <3>1 DEF OwnInv, PlansDisjoint
    <3>2. CASE b = a
      BY <2>1, <3>2 DEF Planned
    <3>3. CASE c = a
      BY <2>1, <3>3 DEF Planned
    <3>4. QED BY <3>1, <3>2, <3>3
  <2>2. QED BY <2>1 DEF PlansDisjoint, ClosedOnce
<1>2. ASSUME NEW r, ClosedOnce(r), Planned(r)' PROVE Planned(r) \/ Released(r)'
  BY <1>2 DEF Planned
<1> QED BY <1>1, <1>2, OwnKeeps

\* A detachment.
LEMMA DetachOwn ==
    ASSUME MapsInv, OwnInv, NEW E \in SUBSET Active, NEW G \in SUBSET Groups,
           NEW a \in Actors, Detach(E, G, a), open' = open,
           \A e \in Entries :
              worker'[e].pc \in Early \cup Building => worker'[e] = worker[e],
           \A g \in Groups : pump'[g].pc \in Unborn => pump'[g] = pump[g]
    PROVE  OwnInv'
PROOF
<1>a. /\ DetachEffect(E, G) /\ group \in [Groups -> GroupRecord]
      /\ plan \in [Actors -> SUBSET Resource] /\ E \subseteq Entries
  BY DetachSteps, StateFacts DEF Active
<1>b. /\ plan'[a] = (UNION {Held(e) : e \in E}) \cup (UNION {GroupHeld(g) : g \in G})
      /\ \A b \in Actors : b # a => plan'[b] = plan[b]
  BY <1>a DEF Detach
<1>c. \A e \in E : ~entry'[e].session /\ ~entry'[e].sink
  <2>1. \A e \in E : Held(e)' = {} /\ e \in Entries
    BY <1>a DEF DetachEffect
  <2>2. \A e \in E : (Session(e) \in Held(e))' <=> entry'[e].session
    BY DEF Held, Session, Sink, Ctx, Client
  <2>3. \A e \in E : (Sink(e) \in Held(e))' <=> entry'[e].sink
    BY DEF Held, Session, Sink, Ctx, Client
  <2>4. QED BY <2>1, <2>2, <2>3
<1>d. \A g \in Groups : group'[g].capture => group[g].capture /\ g \notin G
  BY <1>a DEF Detach, GroupStripped, GroupRecord
<1>e. \A e \in Entries : /\ entry'[e].session => entry[e].session
                         /\ entry'[e].sink => entry[e].sink
  BY <1>a, <1>c DEF DetachEffect
<1>1. HoldFrame
  BY <1>d, <1>e DEF HoldFrame
<1>2. ASSUME NEW r \in plan'[a], ClosedOnce(r) PROVE ~Planned(r) /\ Released(r)'
  <2>1. CASE \E e \in E : r \in Held(e)
    <3>1. PICK e \in E : r \in Held(e)
      BY <2>1
    <3>2. e \in Entries /\ SessionOwned(e)
      BY <1>a DEF OwnInv
    <3>3. \/ r = Session(e) /\ entry[e].session
          \/ r = Sink(e) /\ entry[e].sink
      BY <1>2, <3>1 DEF Held, Ctx, Client, Session, Sink, ClosedOnce
    <3>4. ~Planned(r) /\ worker[e].pc \notin Early \cup Building
      BY <3>2, <3>3 DEF SessionOwned
    <3>5. worker'[e].pc \notin Early \cup Building
      BY <3>2, <3>4
    <3>6. \A f \in Entries : r \in {Session(f), Sink(f)} => f = e
      BY <3>3 DEF Session, Sink
    <3>7. \A g \in Groups : r # Capture(g)
      BY <3>3 DEF Session, Sink, Capture
    <3>8. \A f \in Entries : Session(f)' = Session(f) /\ Sink(f)' = Sink(f)
      BY DEF Session, Sink
    <3>9. Released(r)'
      BY <1>c, <3>1, <3>5, <3>6, <3>7, <3>8 DEF Released, Capture
    <3>10. QED BY <3>4, <3>9
  <2>2. CASE \E g \in G : r \in GroupHeld(g)
    <3>1. PICK g \in G : r \in GroupHeld(g)
      BY <2>2
    <3>2. r = Capture(g) /\ group[g].capture
      BY <1>2, <3>1 DEF GroupHeld, GroupCtx, ClosedOnce
    <3>3. CaptureOwned(g)
      BY DEF OwnInv
    <3>4. ~Planned(r) /\ pump[g].pc \notin Unborn
      BY <3>2, <3>3 DEF CaptureOwned
    <3>5. pump'[g].pc \notin Unborn /\ ~group'[g].capture
      BY <1>d, <3>4
    <3>6. \A f \in Entries : r \notin {Session(f), Sink(f)}
      BY <3>2 DEF Session, Sink, Capture
    <3>7. \A h \in Groups : r = Capture(h) => h = g
      BY <3>2 DEF Capture
    <3>8. Released(r)'
      BY <3>5, <3>6, <3>7 DEF Released, Session, Sink, Capture
    <3>9. QED BY <3>4, <3>8
  <2>3. QED BY <1>2, <1>b, <2>1, <2>2
<1> QED BY <1>1, <1>2, <1>b, OwnHandOver


\* What a quiet step of worker e does to e's session and sink.
QuietHold(e) ==
    /\ worker'[e].pc \in Early =>
          worker[e].pc \in Early /\ (Session(e) \in open' => Session(e) \in open)
    /\ worker'[e].pc \in Building => worker[e].pc \in Early \cup Building
    /\ \A f \in Entries : f # e => (Session(f) \in open' => Session(f) \in open)
    /\ \/ /\ plan' = plan
          /\ \/ entry'[e].session = entry[e].session /\ entry'[e].sink = entry[e].sink
             \/ worker[e].pc \in Building /\ worker'[e].pc \notin Early \cup Building
       \/ /\ entry' = entry /\ worker[e].pc \in Building
          /\ worker'[e].pc \notin Early \cup Building
          /\ \A b \in Actors : b # Worker(e) => plan'[b] = plan[b]
          /\ \A r \in plan'[Worker(e)] : ClosedOnce(r) => r = Session(e)

LEMMA QuietHolds ==
    ASSUME MapsInv, NEW e \in Entries, Quiet(e)
    PROVE  QuietHold(e)
PROOF
<1>a. /\ worker \in [Entries -> WorkerRecord] /\ entry \in [Entries -> EntryRecord]
      /\ plan \in [Actors -> SUBSET Resource] /\ Worker(e) \in Actors
      /\ worker[e].next \in Early
  <2>1. worker[e] \in WorkerRecord
    BY StateFacts
  <2>2. QED BY <2>1, StateFacts DEF WorkerRecord, Early, Actors
<1>b. /\ \A f \in Entries : \A i : Session(f) # Client(e, i) /\ Session(f) # Audio(e) /\ Session(f) # Sink(e)
      /\ \A f \in Entries : f # e => Session(f) # Session(e)
      /\ ~ClosedOnce(Audio(e))
  BY DEF Session, Client, Audio, Sink, ClosedOnce
\* from one early step to the next, or to the end
<1>c. ASSUME worker[e].pc \in Early, worker'[e].pc \in Early \cup {"fail"}, plan' = plan,
             \A f \in Entries : Session(f) \in open' => Session(f) \in open,
             entry'[e].session = entry[e].session, entry'[e].sink = entry[e].sink
      PROVE  QuietHold(e)
  <2>1. "fail" \notin Early \cup Building /\ Early \cap Building = {}
    BY DEF Early, Building
  <2>2. QED BY <1>c, <2>1 DEF QuietHold
<1>d. ASSUME NEW p \in {"verify", "pair"}, At(e, p), entry' = entry, plan' = plan,
             PairOutcome(e) \/ Reconnect(e, "pair")
      PROVE  QuietHold(e)
  <2>1. /\ open' = open \/ open' = open \ {Client(e, worker[e].dials)}
        /\ \/ \E q \in {"setup", "fail"} : worker' = [worker EXCEPT ![e].pc = q]
           \/ \E q \in {"askPin", "askPassword", "dial"}, n \in {"setup", "pair", "pairPin"} :
                 worker' = [worker EXCEPT ![e].pc = q, ![e].next = n]
    BY <1>d DEF PairOutcome, Goto, Ask, Reconnect
  <2>2. worker'[e].pc \in {"setup", "fail", "askPin", "askPassword", "dial"}
    BY <1>a, <2>1 DEF WorkerRecord
  <2>3. QED BY <1>c, <1>d, <2>1, <2>2 DEF At, Early
<1>1. CASE Dial(e)
  <2>1. worker[e].pc = "dial" /\ plan' = plan
    BY <1>1 DEF Dial, At
  <2>2. /\ \A f \in Entries : Session(f) \in open' => Session(f) \in open
        /\ worker'[e].pc \in {"fail", "info"}
    BY <1>a, <1>b, <1>1 DEF Dial, Goto, WorkerRecord
  <2>3. entry'[e].session = entry[e].session /\ entry'[e].sink = entry[e].sink
    BY <1>a, <1>1 DEF Dial, EntryRecord
  <2>4. QED BY <1>c, <2>1, <2>2, <2>3 DEF Early
<1>2. CASE Verify(e)
  BY <1>d, <1>2 DEF Verify, maps
<1>3. CASE Pair(e)
  BY <1>d, <1>3 DEF Pair, maps
<1>4. CASE GetInfo(e)
  <2>1. /\ worker[e].pc = "info" /\ plan' = plan /\ open' = open
        /\ worker'[e].pc \in Early \cup {"fail"}
    BY <1>a, <1>4 DEF GetInfo, At, Goto, Ask, WorkerRecord, Early
  <2>2. entry'[e].session = entry[e].session /\ entry'[e].sink = entry[e].sink
    BY <1>a, <1>4 DEF GetInfo, EntryRecord, maps
  <2>3. QED BY <1>c, <2>1, <2>2 DEF Early
<1>5. CASE PairPin(e)
  <2>1. /\ worker[e].pc = "pairPin" /\ plan' = plan /\ open' = open
        /\ worker'[e].pc \in Early \cup {"fail"}
    BY <1>a, <1>5 DEF PairPin, At, Goto, Ask, WorkerRecord, Early
  <2>2. entry'[e].session = entry[e].session /\ entry'[e].sink = entry[e].sink
    BY <1>a, <1>5 DEF PairPin, EntryRecord, maps
  <2>3. QED BY <1>c, <2>1, <2>2 DEF Early
<1>6. CASE ShowPin(e)
  <2>1. /\ worker[e].pc = "showPin" /\ plan' = plan /\ open' = open
        /\ worker'[e].pc \in Early \cup {"fail"}
    BY <1>a, <1>6 DEF ShowPin, At, Goto, Ask, WorkerRecord, Early
  <2>2. entry'[e].session = entry[e].session /\ entry'[e].sink = entry[e].sink
    BY <1>a, <1>6 DEF ShowPin, EntryRecord, maps
  <2>3. QED BY <1>c, <2>1, <2>2 DEF Early
<1>7. CASE PromptReady(e)
  <2>1. /\ worker[e].pc = "prompt" /\ plan' = plan /\ open' = open
        /\ worker'[e].pc \in Early \cup {"fail"}
    BY <1>a, <1>7 DEF PromptReady, At, Goto, Ask, WorkerRecord, Early
  <2>2. entry'[e].session = entry[e].session /\ entry'[e].sink = entry[e].sink
    BY <1>a, <1>7 DEF PromptReady, EntryRecord, maps
  <2>3. QED BY <1>c, <2>1, <2>2 DEF Early
<1>8. CASE ReceiveCredential(e)
  <2>1. /\ worker[e].pc = "waiting" /\ plan' = plan /\ open' = open
        /\ worker'[e].pc \in Early \cup {"fail"}
    BY <1>a, <1>8 DEF ReceiveCredential, At, Goto, Ask, WorkerRecord, Early
  <2>2. entry'[e].session = entry[e].session /\ entry'[e].sink = entry[e].sink
    BY <1>a, <1>8 DEF ReceiveCredential, EntryRecord, maps
  <2>3. QED BY <1>c, <2>1, <2>2 DEF Early
<1>9. CASE WaitCancelled(e)
  <2>1. /\ worker[e].pc = "waiting" /\ plan' = plan /\ open' = open
        /\ worker'[e].pc \in Early \cup {"fail"}
    BY <1>a, <1>9 DEF WaitCancelled, At, Goto, Ask, WorkerRecord, Early
  <2>2. entry'[e].session = entry[e].session /\ entry'[e].sink = entry[e].sink
    BY <1>a, <1>9 DEF WaitCancelled, EntryRecord, maps
  <2>3. QED BY <1>c, <2>1, <2>2 DEF Early
<1>10. CASE RefuseCapture(e)
  <2>1. /\ worker[e].pc = "prepare" /\ plan' = plan /\ open' = open
        /\ worker'[e].pc \in Early \cup {"fail"}
    BY <1>a, <1>10 DEF RefuseCapture, At, Goto, Ask, WorkerRecord, Early
  <2>2. entry'[e].session = entry[e].session /\ entry'[e].sink = entry[e].sink
    BY <1>a, <1>10 DEF RefuseCapture, EntryRecord, maps
  <2>3. QED BY <1>c, <2>1, <2>2 DEF Early
<1>11. CASE AskCredential(e)
  <2>1. /\ worker[e].pc \in {"askPin", "askPassword"} /\ plan' = plan /\ open' = open
        /\ worker'[e].pc \in Early \cup {"fail"}
    BY <1>a, <1>11 DEF AskCredential, At, Goto, Ask, WorkerRecord, Early
  <2>2. entry'[e].session = entry[e].session /\ entry'[e].sink = entry[e].sink
    BY <1>a, <1>11 DEF AskCredential, EntryRecord, maps
  <2>3. QED BY <1>c, <2>1, <2>2 DEF Early
<1>12. CASE Setup(e)
  <2>1. worker[e].pc = "setup" /\ entry' = entry /\ plan' = plan
    BY <1>12 DEF Setup, At, maps
  <2>2. \/ open' = open /\ worker'[e].pc \in {"fail", "askPassword", "prepare"}
        \/ open' = open \cup {Session(e)} /\ worker'[e].pc \in Building
    BY <1>a, <1>12 DEF Setup, Goto, WorkerRecord, Building
  <2>3. CASE open' = open /\ worker'[e].pc \in {"fail", "askPassword", "prepare"}
    BY <1>c, <2>1, <2>3 DEF Early
  <2>4. CASE open' = open \cup {Session(e)} /\ worker'[e].pc \in Building
    BY <1>b, <2>1, <2>4 DEF QuietHold, Early, Building
  <2>5. QED BY <2>2, <2>3, <2>4
<1>13. CASE PrepareAudio(e)
  <2>1. /\ worker[e].pc = "ready" /\ entry' = entry
        /\ open' = open \/ open' = open \cup {Audio(e)}
        /\ \/ worker'[e].pc = "attach" /\ plan' = plan
           \/ worker'[e].pc = "fail" /\ plan' = [plan EXCEPT ![Worker(e)] = {Session(e)}]
    BY <1>a, <1>13 DEF PrepareAudio, At, Goto, maps, WorkerRecord
  <2>2. \A f \in Entries : Session(f) \in open' => Session(f) \in open
    BY <1>b, <2>1
  <2>3. CASE worker'[e].pc = "attach" /\ plan' = plan
    BY <2>1, <2>2, <2>3 DEF QuietHold, Early, Building
  <2>4. CASE worker'[e].pc = "fail" /\ plan' = [plan EXCEPT ![Worker(e)] = {Session(e)}]
    <3>1. /\ \A b \in Actors : b # Worker(e) => plan'[b] = plan[b]
          /\ plan'[Worker(e)] = {Session(e)}
      BY <1>a, <2>4
    <3>2. QED BY <2>1, <2>2, <2>4, <3>1 DEF QuietHold, Early, Building
  <2>5. QED BY <2>1, <2>3, <2>4
<1>14. CASE Attach(e)
  <2>1. /\ worker[e].pc = "attach" /\ plan' = plan /\ open' = open \cup {Sink(e)}
        /\ worker'[e].pc \in {"streaming", "startAudio"}
    BY <1>a, <1>14 DEF Attach, At, Goto, WorkerRecord
  <2>2. \A f \in Entries : Session(f) \in open' => Session(f) \in open
    BY <1>b, <2>1
  <2>3. QED BY <2>1, <2>2 DEF QuietHold, Early, Building
<1>15. CASE AttachObsolete(e)
  <2>1. /\ worker[e].pc = "attach" /\ entry' = entry /\ open' = open
        /\ worker'[e].pc = "abandon"
        /\ plan' = [plan EXCEPT ![Worker(e)] = {Session(e)} \cup (open \cap {Audio(e)})]
    BY <1>a, <1>15 DEF AttachObsolete, At, Goto, maps, WorkerRecord
  <2>2. /\ \A b \in Actors : b # Worker(e) => plan'[b] = plan[b]
        /\ plan'[Worker(e)] = {Session(e)} \cup (open \cap {Audio(e)})
    BY <1>a, <2>1
  <2>3. QED BY <1>b, <2>1, <2>2 DEF QuietHold, Early, Building
<1>16. CASE StartAudio(e)
  <2>1. /\ entry' = entry /\ plan' = plan /\ open' \subseteq open \cup {Audio(e)} /\ worker'[e].pc = "streaming"
    BY <1>a, <1>16 DEF StartAudio, At, Goto, maps, WorkerRecord
  <2>2. \A f \in Entries : Session(f) \in open' => Session(f) \in open
    BY <1>b, <2>1
  <2>3. QED BY <2>1, <2>2 DEF QuietHold, Early, Building
<1>17. CASE StreamFramesReturns(e)
  <2>1. /\ entry' = entry /\ plan' = plan /\ open' = open /\ worker'[e].pc = "ended"
    BY <1>a, <1>17 DEF StreamFramesReturns, At, Goto, maps, WorkerRecord
  <2>2. \A f \in Entries : Session(f) \in open' => Session(f) \in open
    BY <1>b, <2>1
  <2>3. QED BY <2>1, <2>2 DEF QuietHold, Early, Building
<1>18. CASE StopAudio(e)
  <2>1. /\ entry' = entry /\ plan' = plan /\ open' \subseteq open /\ worker'[e].pc = "exit"
    BY <1>a, <1>18 DEF StopAudio, At, Goto, maps, WorkerRecord
  <2>2. \A f \in Entries : Session(f) \in open' => Session(f) \in open
    BY <1>b, <2>1
  <2>3. QED BY <2>1, <2>2 DEF QuietHold, Early, Building
<1> QED
  BY <1>1, <1>2, <1>3, <1>4, <1>5, <1>6, <1>7, <1>8, <1>9, <1>10, <1>11, <1>12, <1>13, <1>14, <1>15, <1>16, <1>17, <1>18
  DEF Quiet

LEMMA QuietOwn ==
    ASSUME MapsInv, OwnInv, NEW e \in Entries, Quiet(e)
    PROVE  OwnInv'
PROOF
<1>a. QuietEffect(e) /\ QuietHold(e) /\ SessionOwned(e) /\ Worker(e) \in Actors
  BY QuietSteps, QuietHolds DEF OwnInv, Actors
<1>b. /\ \A f \in Entries : f # e => worker'[f] = worker[f] /\ entry'[f] = entry[f]
      /\ pump' = pump /\ group' = group
  BY <1>a DEF QuietEffect
<1>1. HoldFrame
  <2>1. ASSUME NEW f \in Entries
        PROVE  /\ worker'[f].pc \in Early =>
                     worker[f].pc \in Early /\ (Session(f) \in open' => Session(f) \in open)
               /\ worker'[f].pc \in Building => worker[f].pc \in Early \cup Building
               /\ entry'[f].session \/ entry'[f].sink =>
                     \/ /\ entry'[f].session => entry[f].session
                        /\ entry'[f].sink => entry[f].sink
                     \/ worker[f].pc \in Building /\ worker'[f].pc \notin Early \cup Building
    <3>1. CASE f = e
      BY <1>a, <3>1 DEF QuietHold
    <3>2. CASE f # e
      BY <1>a, <1>b, <3>2 DEF QuietHold
    <3>3. QED BY <3>1, <3>2
  <2>2. QED BY <1>b, <2>1 DEF HoldFrame
<1>2. CASE plan' = plan
  BY <1>1, <1>2, OwnKeepsPlans
<1>3. CASE /\ entry' = entry /\ worker[e].pc \in Building
           /\ worker'[e].pc \notin Early \cup Building
           /\ \A b \in Actors : b # Worker(e) => plan'[b] = plan[b]
           /\ \A r \in plan'[Worker(e)] : ClosedOnce(r) => r = Session(e)
  <2>1. ~entry[e].session /\ ~Planned(Session(e))
    BY <1>a, <1>3 DEF SessionOwned
  <2>2. Released(Session(e))'
    <3>1. /\ \A f \in Entries : /\ Session(f)' = Session(f) /\ Sink(f)' = Sink(f)
                                /\ Session(e) # Sink(f)
                                /\ Session(e) = Session(f) => f = e
          /\ \A g \in Groups : Session(e)' # Capture(g)'
      BY DEF Session, Sink, Capture
    <3>2. QED BY <1>3, <2>1, <3>1 DEF Released
  <2>3. \A r \in plan'[Worker(e)] : ClosedOnce(r) => ~Planned(r) /\ Released(r)'
    <3>1. Session(e)' = Session(e)
      BY DEF Session
    <3>2. ASSUME NEW r \in plan'[Worker(e)], ClosedOnce(r) PROVE ~Planned(r) /\ Released(r)'
      <4>1. r = Session(e)
        BY <1>3, <3>2
      <4>2. QED BY <2>1, <2>2, <3>1, <4>1 DEF Released
    <3>3. QED BY <3>2
  <2>4. QED BY <1>a, <1>1, <1>3, <2>3, OwnHandOver
<1> QED BY <1>a, <1>2, <1>3 DEF QuietHold


\* No second owner appears, whatever step is taken.
LEMMA OwnStep ==
    ASSUME MapsInv, UseInv, CountInv, OwnInv, [Next]_vars
    PROVE  OwnInv'
PROOF
<1>a. /\ entry \in [Entries -> EntryRecord] /\ group \in [Groups -> GroupRecord]
      /\ worker \in [Entries -> WorkerRecord] /\ pump \in [Groups -> PumpRecord]
      /\ plan \in [Actors -> SUBSET Resource]
      /\ streams \in [Targets -> Entries \cup {Nil}]
      /\ Nil \notin Entries /\ Nil \notin Groups
      /\ \A t \in Targets : streams[t] # Nil => entry[streams[t]].target = t
  BY StateFacts
<1>b. /\ \A e \in Entries, f \in Entries : Session(e) # Ctx(f)
      /\ \A e \in Entries, g \in Groups : Session(e) # GroupCtx(g) /\ Session(e) # Capture(g)
  BY DEF Session, Ctx, GroupCtx, Capture
\* steps that touch neither what entries and groups hold nor the sessions
<1>c. ASSUME \A e \in Entries :
                /\ worker'[e].pc \in Early \cup Building =>
                      (worker'[e].pc = worker[e].pc
                       \/ (worker[e].pc \in Early /\ worker'[e].pc \in Early))
                /\ entry'[e].session => entry[e].session
                /\ entry'[e].sink => entry[e].sink,
             \A e \in Entries : Session(e) \in open' => Session(e) \in open,
             \A g \in Groups : /\ pump'[g].pc \in Unborn => pump[g].pc \in Unborn
                               /\ group'[g].capture =>
                                     group[g].capture \/ (pump[g].pc \in Unborn
                                                          /\ pump'[g].pc \notin Unborn)
      PROVE  HoldFrame
  <2>1. Early \cap Building = {}
    BY DEF Early, Building
  <2>2. QED BY <1>c, <2>1 DEF HoldFrame
<1>d. ASSUME UNCHANGED <<entry, group, worker, pump, plan, open>> PROVE OwnInv'
  BY <1>c, <1>d, OwnKeepsPlans
\* control requests
<1>1. ASSUME NEW t \in Targets, NEW c \in BOOLEAN, Connect(t, c) PROVE OwnInv'
  <2>1. PICK e \in Entries :
           /\ worker[e].pc = "none"
           /\ entry' = [entry EXCEPT ![e] = FreshEntry(t)]
           /\ worker' = [worker EXCEPT ![e].pc = "dial", ![e].cred = c]
           /\ open' = open \cup {Ctx(e)}
    BY <1>1 DEF Connect
  <2>2. UNCHANGED <<group, pump, plan>>
    BY <1>1 DEF Connect
  <2>3. /\ worker'[e].pc = "dial" /\ entry'[e] = FreshEntry(t)
        /\ \A f \in Entries : f # e => worker'[f] = worker[f] /\ entry'[f] = entry[f]
    BY <1>a, <2>1 DEF WorkerRecord
  <2>4. ~entry'[e].session /\ ~entry'[e].sink
    BY <2>3 DEF FreshEntry
  <2>5. \A f \in Entries : Session(f) \in open' => Session(f) \in open
    BY <1>b, <2>1
  <2>6. "none" \in Early /\ "dial" \in Early
    BY DEF Early
  <2>7. HoldFrame
    BY <1>c, <2>1, <2>2, <2>3, <2>4, <2>5, <2>6
  <2>8. QED BY <2>2, <2>7, OwnKeepsPlans
<1>2. ASSUME NEW t \in Targets, Submit(t) PROVE OwnInv'
  <2>1. /\ UNCHANGED <<group, worker, pump, plan, open>> /\ streams[t] \in Entries
        /\ \E x : entry' = [entry EXCEPT ![streams[t]].state = "connecting",
                                         ![streams[t]].kind = "none", ![streams[t]].ch = x]
    BY <1>a, <1>2 DEF Submit, Pending
  <2>2. \A f \in Entries : entry'[f].session = entry[f].session /\ entry'[f].sink = entry[f].sink
    BY <1>a, <2>1 DEF EntryRecord
  <2>3. HoldFrame
    BY <1>c, <2>1, <2>2
  <2>4. QED BY <2>1, <2>3, OwnKeepsPlans
\* detachments by requests and Shutdown
<1>3. ASSUME NEW E \in SUBSET Active, NEW G \in SUBSET Groups, NEW a \in Actors,
             Detach(E, G, a), UNCHANGED <<worker, pump, open>>
      PROVE  OwnInv'
  BY <1>3, DetachOwn
<1>4. ASSUME NEW r \in 1 .. MaxRequests, NEW t \in Targets, Disconnect(r, t) PROVE OwnInv'
  <2>1. {streams[t]} \in SUBSET Active /\ FreedBy({streams[t]}) \in SUBSET Groups
        /\ Request(r) \in Actors
    BY <1>a, <1>4 DEF Disconnect, Active, Live, FreedBy, Actors
  <2>2. /\ Detach({streams[t]}, FreedBy({streams[t]}), Request(r))
        /\ UNCHANGED <<worker, pump, open>>
    BY <1>4 DEF Disconnect
  <2>3. QED BY <1>3, <2>1, <2>2
<1>5. ASSUME NEW a \in Actors, DetachAll(a), UNCHANGED <<worker, pump, open>>
      PROVE  OwnInv'
  <2>1. Active \in SUBSET Active /\ {g \in Groups : Published(g)} \in SUBSET Groups
    OBVIOUS
  <2>2. QED BY <1>3, <1>5, <2>1 DEF DetachAll
<1>6. ASSUME NEW r \in 1 .. MaxRequests, DisconnectAll(r) PROVE OwnInv'
  BY <1>5, <1>6 DEF DisconnectAll, Actors
<1>7. CASE Shutdown
  BY <1>5, <1>7 DEF Shutdown, Actors
<1>8. CASE ShutdownDone
  BY <1>d, <1>8 DEF ShutdownDone, maps
<1>9. ASSUME NEW a \in Actors, Clean(a) PROVE OwnInv'
  <2>1. /\ open' \subseteq open /\ UNCHANGED <<worker, pump, entry, group>>
        /\ plan' = [plan EXCEPT ![a] = plan[a] \ FirstStage(plan[a])]
    BY <1>9 DEF Clean, maps
  <2>2. \A b \in Actors : plan'[b] \subseteq plan[b]
    BY <1>a, <2>1
  <2>3. HoldFrame
    BY <1>c, <2>1
  <2>4. QED BY <2>2, <2>3, OwnKeepsPlans
\* workers
<1>10. ASSUME NEW e \in Entries, Quiet(e) PROVE OwnInv'
  BY <1>10, QuietOwn
\* the worker goes from one early step to the next, or to its end
<1>e. ASSUME NEW e \in Entries, NEW p,
             p \in Early => worker[e].pc \in Early, p \notin Building,
             worker'[e].pc = p, \A f \in Entries : f # e => worker'[f] = worker[f]
      PROVE  \A f \in Entries :
                worker'[f].pc \in Early \cup Building =>
                   (worker'[f].pc = worker[f].pc
                    \/ (worker[f].pc \in Early /\ worker'[f].pc \in Early))
  BY <1>e
<1>f. ASSUME NEW e \in Entries, NEW h, entry' = [entry EXCEPT ![e].group = h]
      PROVE  \A f \in Entries : entry'[f].session = entry[f].session /\ entry'[f].sink = entry[f].sink
  BY <1>a, <1>f DEF EntryRecord
<1>11. ASSUME NEW e \in Entries, JoinGroup(e) PROVE OwnInv'
  <2>1. /\ worker[e].pc = "prepare" /\ UNCHANGED <<group, plan, open, pump>>
        /\ \E h : entry' = [entry EXCEPT ![e].group = h]
        /\ \/ worker' = [worker EXCEPT ![e].pc = "fail"]
           \/ \E h : worker' = [worker EXCEPT ![e].pc = "setup", ![e].bc = h]
    BY <1>11 DEF JoinGroup, At, Goto, unchangedByWorker
  <2>2. /\ worker'[e].pc \in {"fail", "setup"}
        /\ \A f \in Entries : f # e => worker'[f] = worker[f]
    BY <1>a, <2>1 DEF WorkerRecord
  <2>3. \A f \in Entries : entry'[f].session = entry[f].session /\ entry'[f].sink = entry[f].sink
    BY <1>f, <2>1
  <2>4. /\ worker'[e].pc \in Early => worker[e].pc \in Early
        /\ worker'[e].pc \notin Building
    BY <2>1, <2>2 DEF Early, Building
  <2>5. HoldFrame
    BY <1>c, <1>e, <2>1, <2>2, <2>3, <2>4
  <2>6. QED BY <2>1, <2>5, OwnKeepsPlans
<1>12. ASSUME NEW e \in Entries, PublishGroup(e) PROVE OwnInv'
  <2>1. PICK k \in Keys, g \in Groups :
           /\ pump[g].pc = "none"
           /\ group' = [group EXCEPT ![g] = [key |-> k, cancel |-> TRUE,
                                             capture |-> FALSE, broadcast |-> FALSE]]
           /\ entry' = [entry EXCEPT ![e].group = g]
           /\ pump' = [pump EXCEPT ![g].pc = "starting"]
           /\ worker' = [worker EXCEPT ![e].pc = "startCapture", ![e].bc = g]
           /\ open' = open \cup {GroupCtx(g)}
    BY <1>12 DEF PublishGroup
  <2>2. worker[e].pc = "prepare" /\ plan' = plan
    BY <1>12 DEF PublishGroup, At
  <2>3. /\ worker'[e].pc = "startCapture"
        /\ \A f \in Entries : f # e => worker'[f] = worker[f]
        /\ \A h \in Groups : h # g => pump'[h] = pump[h] /\ group'[h] = group[h]
        /\ ~group'[g].capture
    BY <1>a, <2>1 DEF WorkerRecord
  <2>4. \A f \in Entries : entry'[f].session = entry[f].session /\ entry'[f].sink = entry[f].sink
    BY <1>f, <2>1
  <2>5. /\ worker'[e].pc \in Early => worker[e].pc \in Early
        /\ worker'[e].pc \notin Building
    BY <2>2, <2>3 DEF Early, Building
  <2>6. \A f \in Entries : Session(f) \in open' => Session(f) \in open
    BY <1>b, <2>1
  <2>7. \A h \in Groups : /\ pump'[h].pc \in Unborn => pump[h].pc \in Unborn
                          /\ group'[h].capture => group[h].capture
    BY <2>1, <2>3 DEF Unborn
  <2>8. HoldFrame
    BY <1>c, <1>e, <2>3, <2>4, <2>5, <2>6, <2>7
  <2>9. QED BY <2>2, <2>8, OwnKeepsPlans
<1>g. ASSUME NEW e \in Entries, worker[e].pc = "startCapture"
      PROVE  worker[e].bc \in Groups /\ pump[worker[e].bc].pc = "starting"
  <2>1. worker[e].bc \in Groups \cup {Nil}
    BY <1>a DEF WorkerRecord
  <2>2. QED BY <1>g, <2>1 DEF UseInv, Starting
<1>13. ASSUME NEW e \in Entries, CaptureFails(e) PROVE OwnInv'
  <2>1. /\ worker[e].pc = "startCapture" /\ group' = group /\ plan' = plan
        /\ worker' = [worker EXCEPT ![e].pc = "fail"]
        /\ pump' = [pump EXCEPT ![worker[e].bc].pc = "gone"]
        /\ \E h : entry' = [entry EXCEPT ![e].group = h]
        /\ open' \subseteq open
    BY <1>13 DEF CaptureFails, At, Goto
  <2>2. /\ worker'[e].pc = "fail"
        /\ \A f \in Entries : f # e => worker'[f] = worker[f]
        /\ \A h \in Groups : pump'[h].pc \in Unborn => pump[h].pc \in Unborn
    BY <1>a, <2>1 DEF WorkerRecord, PumpRecord, Unborn
  <2>3. \A f \in Entries : entry'[f].session = entry[f].session /\ entry'[f].sink = entry[f].sink
    BY <1>f, <2>1
  <2>4. "fail" \notin Early \cup Building
    BY DEF Early, Building
  <2>5. HoldFrame
    BY <1>c, <1>e, <2>1, <2>2, <2>3, <2>4
  <2>6. QED BY <2>1, <2>5, OwnKeepsPlans
<1>14. ASSUME NEW e \in Entries, PublishCapture(e) PROVE OwnInv'
  <2>a. worker[e].pc = "startCapture"
    BY <1>14 DEF PublishCapture, At
  <2>b. PICK g \in Groups : g = worker[e].bc /\ pump[g].pc = "starting"
    BY <1>g, <2>a
  <2>1. /\ UNCHANGED <<entry, plan>>
        /\ worker' = [worker EXCEPT ![e].pc = "setup"]
        /\ group' = [group EXCEPT ![g].capture = TRUE, ![g].broadcast = TRUE]
        /\ pump' = [pump EXCEPT ![g].pc = "running"]
        /\ open' = open \cup {Capture(g)}
    BY <1>14, <2>b DEF PublishCapture, Goto
  <2>2. /\ worker'[e].pc = "setup"
        /\ \A f \in Entries : f # e => worker'[f] = worker[f]
        /\ pump'[g].pc = "running"
        /\ \A h \in Groups : h # g => pump'[h] = pump[h] /\ group'[h] = group[h]
    BY <1>a, <2>1 DEF WorkerRecord, PumpRecord
  <2>3. /\ worker'[e].pc \in Early => worker[e].pc \in Early
        /\ worker'[e].pc \notin Building
    BY <2>a, <2>2 DEF Early, Building
  <2>4. \A h \in Groups : /\ pump'[h].pc \in Unborn => pump[h].pc \in Unborn
                          /\ group'[h].capture =>
                                group[h].capture \/ (pump[h].pc \in Unborn
                                                     /\ pump'[h].pc \notin Unborn)
    BY <2>b, <2>2 DEF Unborn
  <2>5. \A f \in Entries : Session(f) \in open' => Session(f) \in open
    BY <1>b, <2>1
  <2>6. HoldFrame
    BY <1>c, <1>e, <2>1, <2>2, <2>3, <2>4, <2>5
  <2>7. QED BY <2>1, <2>6, OwnKeepsPlans
<1>15. ASSUME NEW e \in Entries, DiscardCapture(e) PROVE OwnInv'
  <2>a. worker[e].pc = "startCapture" /\ Worker(e) \in Actors
    BY <1>15 DEF DiscardCapture, At, Actors
  <2>b. PICK g \in Groups : g = worker[e].bc /\ pump[g].pc = "starting"
    BY <1>g, <2>a
  <2>1. /\ UNCHANGED <<entry, group>>
        /\ worker' = [worker EXCEPT ![e].pc = "discarded"]
        /\ plan' = [plan EXCEPT ![Worker(e)] = {GroupCtx(g), Capture(g)}]
        /\ pump' = [pump EXCEPT ![g].pc = "gone"]
        /\ open' = open \cup {Capture(g)}
    BY <1>15, <2>b DEF DiscardCapture, Goto, maps
  <2>2. /\ worker'[e].pc = "discarded"
        /\ \A f \in Entries : f # e => worker'[f] = worker[f]
        /\ pump'[g].pc = "gone" /\ \A h \in Groups : h # g => pump'[h] = pump[h]
        /\ plan'[Worker(e)] = {GroupCtx(g), Capture(g)}
        /\ \A b \in Actors : b # Worker(e) => plan'[b] = plan[b]
    BY <1>a, <2>a, <2>1 DEF WorkerRecord, PumpRecord
  <2>3. /\ worker'[e].pc \in Early => worker[e].pc \in Early
        /\ worker'[e].pc \notin Building
    BY <2>a, <2>2 DEF Early, Building
  <2>4. \A h \in Groups : pump'[h].pc \in Unborn => pump[h].pc \in Unborn
    BY <2>2 DEF Unborn
  <2>5. \A f \in Entries : Session(f) \in open' => Session(f) \in open
    BY <1>b, <2>1
  <2>6. HoldFrame
    BY <1>c, <1>e, <2>1, <2>2, <2>3, <2>4, <2>5
  <2>7. ~Planned(Capture(g)) /\ ~group[g].capture
    BY <2>b DEF OwnInv, CaptureOwned, Unborn
  <2>8. ASSUME NEW r \in plan'[Worker(e)], ClosedOnce(r) PROVE ~Planned(r) /\ Released(r)'
    <3>1. r = Capture(g)
      BY <2>2, <2>8 DEF GroupCtx, ClosedOnce
    <3>2. \A f \in Entries : r \notin {Session(f), Sink(f)}
      BY <3>1 DEF Session, Sink, Capture
    <3>3. \A h \in Groups : r = Capture(h) => h = g
      BY <3>1 DEF Capture
    <3>4. pump'[g].pc \notin Unborn /\ ~group'[g].capture
      BY <2>1, <2>2, <2>7 DEF Unborn
    <3>5. Released(r)'
      BY <3>2, <3>3, <3>4 DEF Released, Session, Sink, Capture
    <3>6. QED BY <2>7, <3>1, <3>5
  <2>9. QED BY <2>a, <2>2, <2>6, <2>8, OwnHandOver
<1>16. ASSUME NEW e \in Entries, CaptureDiscarded(e) PROVE OwnInv'
  <2>1. /\ worker' = [worker EXCEPT ![e].pc = "fail"]
        /\ UNCHANGED <<entry, group, plan, open, pump>>
    BY <1>16 DEF CaptureDiscarded, Goto, maps, unchangedByWorker
  <2>2. worker'[e].pc = "fail" /\ \A f \in Entries : f # e => worker'[f] = worker[f]
    BY <1>a, <2>1 DEF WorkerRecord
  <2>3. "fail" \notin Early \cup Building
    BY DEF Early, Building
  <2>4. HoldFrame
    BY <1>c, <1>e, <2>1, <2>2, <2>3
  <2>5. QED BY <2>1, <2>4, OwnKeepsPlans
\* the end of a worker
<1>h. ASSUME NEW e \in Entries, NEW p \in {"exit", "stopAudio", "gone"}, worker'[e].pc = p,
             \A f \in Entries : f # e => worker'[f] = worker[f]
      PROVE  \A f \in Entries :
                worker'[f].pc \in Early \cup Building => worker'[f] = worker[f]
  <2>1. p \notin Early \cup Building
    BY DEF Early, Building
  <2>2. QED BY <1>h, <2>1
<1>17. ASSUME NEW e \in Entries, Abandon(e) PROVE OwnInv'
  <2> DEFINE G == {g \in Groups : g = entry[e].group /\ UsersOf(g) = {} /\ Published(g)}
  <2>1. /\ Detach({}, G, Worker(e)) /\ worker' = [worker EXCEPT ![e].pc = "exit"]
        /\ UNCHANGED <<pump, open>>
    BY <1>17 DEF Abandon, Goto, unchangedByWorker
  <2>2. {} \in SUBSET Active /\ G \in SUBSET Groups /\ Worker(e) \in Actors
    BY DEF Actors
  <2>3. worker'[e].pc = "exit" /\ \A f \in Entries : f # e => worker'[f] = worker[f]
    BY <1>a, <2>1 DEF WorkerRecord
  <2>4. \A f \in Entries : worker'[f].pc \in Early \cup Building => worker'[f] = worker[f]
    BY <1>h, <2>3
  <2> HIDE DEF G
  <2>5. QED BY <2>1, <2>2, <2>4, DetachOwn
<1>18. ASSUME NEW e \in Entries, StreamEnded(e) \/ RemoveStream(e) PROVE OwnInv'
  <2>1. /\ UNCHANGED <<pump, open>>
        /\ Live(e) => Detach({e}, FreedBy({e}), Worker(e))
        /\ ~Live(e) => UNCHANGED <<entry, group, plan>>
        /\ \E p \in {"exit", "stopAudio"} : worker' = [worker EXCEPT ![e].pc = p]
    BY <1>18 DEF StreamEnded, RemoveStream, Goto, unchangedByWorker, maps
  <2>2. /\ worker'[e].pc \in {"exit", "stopAudio"}
        /\ \A f \in Entries : f # e => worker'[f] = worker[f]
    BY <1>a, <2>1 DEF WorkerRecord
  <2>3. \A f \in Entries : worker'[f].pc \in Early \cup Building => worker'[f] = worker[f]
    BY <1>h, <2>2
  <2>4. CASE Live(e)
    <3>1. {e} \in SUBSET Active /\ FreedBy({e}) \in SUBSET Groups /\ Worker(e) \in Actors
      BY <2>4 DEF Active, FreedBy, Actors
    <3>2. QED BY <2>1, <2>3, <2>4, <3>1, DetachOwn
  <2>5. CASE ~Live(e)
    <3>1. HoldFrame
      BY <1>c, <2>1, <2>3, <2>5
    <3>2. QED BY <2>1, <2>5, <3>1, OwnKeepsPlans
  <2>6. QED BY <2>4, <2>5
<1>19. ASSUME NEW e \in Entries, Exit(e) PROVE OwnInv'
  <2>1. /\ worker'[e].pc = "gone" /\ \A f \in Entries : f # e => worker'[f] = worker[f]
        /\ UNCHANGED <<entry, group, plan, open, pump>>
    BY <1>a, <1>19 DEF Exit, maps, Locals
  <2>2. \A f \in Entries : worker'[f].pc \in Early \cup Building => worker'[f] = worker[f]
    BY <1>h, <2>1
  <2>3. HoldFrame
    BY <1>c, <2>1, <2>2
  <2>4. QED BY <2>1, <2>3, OwnKeepsPlans
\* pumps
<1>20. ASSUME NEW g \in Groups, BroadcastEnds(g) \/ PumpExits(g) PROVE OwnInv'
  <2>1. /\ UNCHANGED <<entry, group, worker, plan, open>>
        /\ \A h \in Groups : pump'[h].pc \in Unborn => pump'[h] = pump[h]
    BY <1>a, <1>20 DEF BroadcastEnds, PumpExits, maps, PumpRecord, Unborn
  <2>2. HoldFrame
    BY <1>c, <2>1
  <2>3. QED BY <2>1, <2>2, OwnKeepsPlans
<1>21. ASSUME NEW g \in Groups, FinishCaptureGroup(g) PROVE OwnInv'
  <2>1. /\ UNCHANGED <<worker, open>>
        /\ \A h \in Groups : pump'[h].pc \in Unborn => pump'[h] = pump[h]
        /\ \/ Detach(UsersOf(g), {g}, Pump(g))
           \/ UNCHANGED <<entry, group, plan>>
    BY <1>a, <1>21 DEF FinishCaptureGroup, maps, PumpRecord, Unborn
  <2>2. CASE Detach(UsersOf(g), {g}, Pump(g))
    <3>1. UsersOf(g) \in SUBSET Active /\ {g} \in SUBSET Groups /\ Pump(g) \in Actors
      BY DEF UsersOf, Actors
    <3>2. QED BY <2>1, <2>2, <3>1, DetachOwn
  <2>3. CASE UNCHANGED <<entry, group, plan>>
    <3>1. HoldFrame
      BY <1>c, <2>1, <2>3
    <3>2. QED BY <2>3, <3>1, OwnKeepsPlans
  <2>4. QED BY <2>1, <2>2, <2>3
<1>22. CASE UNCHANGED vars
  BY <1>d, <1>22 DEF vars
<1>23. ASSUME NEW e \in Entries, WorkerStep(e) PROVE OwnInv'
  BY <1>23, <1>10, <1>11, <1>12, <1>13, <1>14, <1>15, <1>16, <1>17, <1>18, <1>19
  DEF WorkerStep, ProtocolStep, LocalStep, CaptureStep, Quiet
<1>24. ASSUME NEW g \in Groups, PumpStep(g) PROVE OwnInv'
  BY <1>24, <1>20, <1>21 DEF PumpStep
<1> QED
  BY <1>1, <1>2, <1>4, <1>6, <1>7, <1>8, <1>9, <1>22, <1>23, <1>24
  DEF Next, ControlStep, SubmitAnywhere


\* Sessions, sinks and captures change hands: they never have two owners.
THEOREM OwnersTakeTurns == Spec => []OwnInv
PROOF
<1>1. Init => OwnInv
  <2> SUFFICES ASSUME Init PROVE OwnInv
    OBVIOUS
  <2>1. /\ \A a \in Actors : plan[a] = {}
        /\ \A g \in Groups : ~group[g].capture
        /\ open = {}
    BY DEF Init
  <2>2. \A e \in Entries : ~entry[e].session /\ ~entry[e].sink
    <3> DEFINE x == FreshEntry(CHOOSE t \in Targets : TRUE)
    <3>1. \A e \in Entries : entry[e] = Stripped(x)
      BY DEF Init
    <3>2. ~Stripped(x).session /\ ~Stripped(x).sink
      BY DEF Stripped, FreshEntry
    <3>3. QED BY <3>1, <3>2
  <2>3. QED BY <2>1, <2>2 DEF OwnInv, PlansDisjoint, SessionOwned, CaptureOwned, Planned
<1>2. MapsInv /\ UseInv /\ CountInv /\ OwnInv /\ [Next]_vars => OwnInv'
  BY OwnStep
<1>3. QED BY <1>1, <1>2, MapsAgree, GroupsAgree, WaitGroupCounts, PTL DEF Spec

\* A set whose elements are all equal.
LEMMA AtMostOne ==
    ASSUME NEW S, \A x, y \in S : x = y
    PROVE  /\ Cardinality(S) \in {0, 1}
           /\ S = {} => Cardinality(S) = 0
PROOF
<1>1. CASE S = {}
  BY <1>1, FS_EmptySet
<1>2. CASE S # {}
  <2>1. PICK x : S = {x}
    BY <1>2
  <2>2. QED BY <2>1, FS_Singleton
<1> QED BY <1>1, <1>2

\* SingleOwner of the lifecycle run: one goroutine at most tears a session down, closes a
\* sink or stops a capture, however disconnects, failures, abandoned setups and Shutdown
\* interleave.
THEOREM NothingClosedTwice == Spec => []SingleOwner
PROOF
<1>1. ASSUME OwnInv PROVE SingleOwner
  <2> SUFFICES ASSUME NEW r \in open, ClosedOnce(r)
               PROVE  Cardinality({a \in Actors : r \in plan[a]})
                      + Cardinality({e \in Entries : r \in EntryOwns(e)})
                      + Cardinality({e \in Entries : r \in WorkerOwns(e)})
                      + Cardinality({g \in Groups : r \in GroupOwns(g)}) <= 1
    BY DEF SingleOwner
  <2> DEFINE A == {a \in Actors : r \in plan[a]}
             E == {e \in Entries : r \in EntryOwns(e)}
             W == {e \in Entries : r \in WorkerOwns(e)}
             G == {g \in Groups : r \in GroupOwns(g)}
  <2>a. \A e \in E : /\ e \in Entries /\ SessionOwned(e)
                     /\ \/ r = Session(e) /\ entry[e].session
                        \/ r = Sink(e) /\ entry[e].sink
    BY <1>1, EntryOwned DEF OwnInv, ClosedOnce, Ctx, Client
  <2>b. \A e \in W : /\ e \in Entries /\ SessionOwned(e)
                     /\ r = Session(e) /\ worker[e].pc \in Building
    BY <1>1, WorkerOwned DEF OwnInv, ClosedOnce, Audio, Building
  <2>c. \A g \in G : /\ g \in Groups /\ CaptureOwned(g)
                     /\ r = Capture(g) /\ group[g].capture
    BY <1>1, GroupOwned DEF OwnInv, ClosedOnce, GroupCtx
  <2>d. \A a, b \in A : a = b
    BY <1>1 DEF OwnInv, PlansDisjoint
  <2>e. A # {} => Planned(r)
    BY DEF Planned
  <2>1. E # {} => A = {} /\ W = {} /\ G = {}
    <3>1. SUFFICES ASSUME NEW e \in E PROVE A = {} /\ W = {} /\ G = {}
      OBVIOUS
    <3>2. ~Planned(r) /\ worker[e].pc \notin Early \cup Building
      BY <2>a DEF SessionOwned
    <3>3. \A f \in W : f = e
      BY <2>a, <2>b DEF Session, Sink
    <3>4. G = {}
      BY <2>a, <2>c DEF Session, Sink, Capture
    <3>5. QED BY <2>b, <2>e, <3>2, <3>3, <3>4
  <2>2. W # {} => A = {} /\ G = {}
    <3>1. SUFFICES ASSUME NEW e \in W PROVE A = {} /\ G = {}
      OBVIOUS
    <3>2. ~Planned(r)
      BY <2>b DEF SessionOwned
    <3>3. G = {}
      BY <2>b, <2>c DEF Session, Capture
    <3>4. QED BY <2>e, <3>2, <3>3
  <2>3. G # {} => A = {}
    BY <2>c, <2>e DEF CaptureOwned
  <2>4. \A e, f \in E : e = f
    BY <2>a DEF Session, Sink
  <2>5. \A e, f \in W : e = f
    BY <2>b DEF Session
  <2>6. \A g, h \in G : g = h
    BY <2>c DEF Capture
  <2>7. /\ Cardinality(A) \in {0, 1} /\ (A = {} => Cardinality(A) = 0)
        /\ Cardinality(E) \in {0, 1} /\ (E = {} => Cardinality(E) = 0)
        /\ Cardinality(W) \in {0, 1} /\ (W = {} => Cardinality(W) = 0)
        /\ Cardinality(G) \in {0, 1} /\ (G = {} => Cardinality(G) = 0)
    BY <2>d, <2>4, <2>5, <2>6, AtMostOne
  <2> HIDE DEF A, E, W, G
  <2>8. Cardinality(A) + Cardinality(E) + Cardinality(W) + Cardinality(G) <= 1
    BY <2>1, <2>2, <2>3, <2>7
  <2>9. QED BY <2>8 DEF A, E, W, G
<1>2. QED BY <1>1, OwnersTakeTurns, PTL
=============================================================================
