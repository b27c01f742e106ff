------------------------- MODULE C3Platform_proofs -------------------------
(***************************************************************************)
(* Safety of the platform connection, for any number of identities, any    *)
(* length of the queue and any surroundings.                               *)
(*                                                                         *)
(* The types are an invariant of their own.  PlatformInv adds where the    *)
(* client is while the task is at each of its places, how a granted        *)
(* identity moves through flash to its acknowledgement, what requests      *)
(* carry, and what was told of being online against what the bits and the  *)
(* callbacks say; each part is kept by every action, and the properties    *)
(* follow.                                                                 *)
(***************************************************************************)
EXTENDS C3Platform, TLAPS

-----------------------------------------------------------------------------
\* What the helpers keep.

\* Every stage the task may be told to go to is one of its places.
LEMMA TaskGoes ==
    ASSUME task \in Tasks, NEW stage \in Stages, GoesTo(stage)
    PROVE  task' \in Tasks /\ task' = [task EXCEPT !.at = stage]
<1>1. [task EXCEPT !.at = stage] \in Tasks
  BY ZenonT(60) DEF Tasks
<1>2. QED
  BY <1>1 DEF GoesTo

LEMMA TaskReads ==
    ASSUME NEW t \in Tasks, NEW stage \in Stages, NEW b \in SUBSET Bits
    PROVE  [t EXCEPT !.at = stage, !.bits = b] \in Tasks
BY ZenonT(60) DEF Tasks

LEMMA TaskThen ==
    ASSUME NEW t \in Tasks, NEW stage \in Stages, NEW then \in {"login", "token"}
    PROVE  [t EXCEPT !.at = stage, !.then = then] \in Tasks
BY ZenonT(60) DEF Tasks

LEMMA TaskAnnounces ==
    ASSUME NEW t \in Tasks, NEW stage \in Stages, NEW b \in BOOLEAN
    PROVE  [t EXCEPT !.at = stage, !.announced = b] \in Tasks
BY ZenonT(60) DEF Tasks

LEMMA TaskReceives ==
    ASSUME NEW t \in Tasks, NEW stage \in Stages, NEW r \in Requests
    PROVE  [t EXCEPT !.request = r, !.at = stage] \in Tasks
BY ZenonT(60) DEF Tasks

LEMMA SeenTold ==
    ASSUME NEW s \in Memories, NEW what \in {"none", "online", "offline", "unbound"}
    PROVE  Told(s, what) \in Memories
BY ZenonT(60) DEF Memories, Told

LEMMA SeenCause ==
    ASSUME NEW s \in Memories, NEW b \in BOOLEAN
    PROVE  [s EXCEPT !.cause = b] \in Memories
BY ZenonT(60) DEF Memories

LEMMA SeenMarks ==
    ASSUME NEW s \in Memories, NEW b
    PROVE  /\ [s EXCEPT !.raced = @ \/ b] \in Memories
           /\ [s EXCEPT !.blinked = @ \/ b] \in Memories
           /\ [s EXCEPT !.gap = @ \/ b] \in Memories
           /\ [s EXCEPT !.mixed = @ \/ b] \in Memories
BY ZenonT(60) DEF Memories

LEMMA CloudGrants ==
    ASSUME NEW c \in Clouds, NEW g \in Identities, NEW b \in BOOLEAN
    PROVE  /\ [c EXCEPT !.granted = g, !.bound = b] \in Clouds
           /\ [c EXCEPT !.bound = b] \in Clouds
BY ZenonT(60) DEF Clouds

LEMMA CloudAcks ==
    ASSUME NEW c \in Clouds, NEW a \in Identities, NEW b \in Identities
    PROVE  /\ [c EXCEPT !.ack = a] \in Clouds
           /\ [c EXCEPT !.ack = a, !.acked = b] \in Clouds
BY ZenonT(60) DEF Clouds

\* A budget is spent by one.
LEMMA BudgetTyped ==
    ASSUME may \in SurroundingKinds,
           NEW kind \in {"crashes", "losses", "refusals", "unbinds", "requests",
                         "retries", "faults"},
           Budget(kind)
    PROVE  may' \in SurroundingKinds
<1>1. may[kind] - 1 \in Nat
  BY SMT DEF SurroundingKinds, Budget
<1>2. \A n \in Nat : [may EXCEPT ![kind] = n] \in SurroundingKinds
  BY ZenonT(60) DEF SurroundingKinds
<1>3. QED
  BY <1>1, <1>2 DEF Budget

LEMMA FaultTyped ==
    ASSUME may \in SurroundingKinds, Fault
    PROVE  may' \in SurroundingKinds
BY BudgetTyped DEF Fault

LEMMA OfflineTyped ==
    ASSUME NEW o \in Onlines
    PROVE  /\ Offline(o) \in Onlines /\ ~Offline(o).is
           /\ ~o.is => Offline(o) = o
           /\ o.is => Offline(o).epoch = o.epoch + 1
<1>1. \A n \in Nat : [is |-> FALSE, epoch |-> n] \in Onlines
  BY DEF Onlines
<1>2. o.is \in BOOLEAN /\ o.epoch \in Nat
  BY DEF Onlines
<1>3. QED
  BY <1>1, <1>2, SMT DEF Offline

LEMMA StopTyped ==
    ASSUME PlatformTypeOK, PlatformAssumption, MqttStop
    PROVE  /\ client' \in Clients /\ online' \in Onlines /\ cloud' \in Clouds
           /\ StoppedBits \subseteq Bits
<1>1. 0 \in Identities
  BY DEF PlatformAssumption, Identities
<1>2. NoClient \in Clients
  BY DEF NoClient, Clients
<1>3. QED
  BY <1>1, <1>2, OfflineTyped, CloudAcks DEF MqttStop, PlatformTypeOK, StoppedBits

LEMMA PauseTyped ==
    ASSUME task \in Tasks, seen \in Memories, Pause
    PROVE  task' \in Tasks /\ seen' \in Memories
<1>1. "announce" \in Stages
  BY DEF Stages
<1>2. QED
  BY <1>1, TaskGoes, SeenCause DEF Pause

LEMMA StopAndPauseTyped ==
    ASSUME PlatformTypeOK, PlatformAssumption, StopAndPause
    PROVE  /\ client' \in Clients /\ online' \in Onlines /\ cloud' \in Clouds
           /\ bits' \subseteq Bits
           /\ task' \in Tasks /\ seen' \in Memories
BY StopTyped, PauseTyped DEF StopAndPause, PlatformTypeOK

LEMMA StartTyped ==
    ASSUME NEW kind \in {"temporary", "own"}, MqttStart(kind)
    PROVE  client' \in Clients /\ bits' \subseteq Bits
<1>1. [kind |-> kind, link |-> FALSE] \in Clients
  BY DEF Clients
<1>2. QED
  BY <1>1 DEF MqttStart

LEMMA StartFailsTyped ==
    ASSUME client \in Clients, bits \subseteq Bits, StartFails
    PROVE  client' \in Clients /\ bits' \subseteq Bits
BY DEF StartFails
-----------------------------------------------------------------------------
\* Every action keeps the types.
LEMMA TypeStep ==
    ASSUME PlatformTypeOK, PlatformNext, PlatformAssumption
    PROVE  PlatformTypeOK'
<1>0. 0 \in Identities
  BY DEF PlatformAssumption, Identities
<1>1. CASE Load
  <2>1. task' \in Tasks
    BY <1>1, <1>0, TaskGoes DEF PlatformTypeOK, Load, Goes, Stages
  <2>2. seen' \in Memories
    BY <1>1, <1>0, SeenCause DEF PlatformTypeOK, Load
  <2>3. QED
    BY <1>1, <2>1, <2>2 DEF PlatformTypeOK, Load
<1>2. CASE ReadBits
  <2>1. task' \in Tasks
    BY <1>2, <1>0, TaskReads DEF PlatformTypeOK, ReadBits, Stages
  <2>2. QED
    BY <1>2, <2>1 DEF PlatformTypeOK, ReadBits
<1>3. CASE Unbound
  <2>1. [task EXCEPT !.at = "refresh?", !.announced = FALSE] \in Tasks
    BY <1>3, <1>0, TaskAnnounces DEF PlatformTypeOK, Unbound, Stages
  <2>2. Told(seen, "unbound") \in Memories
    BY <1>3, <1>0, SeenTold DEF PlatformTypeOK, Unbound
  <2>3. [Told(seen, "unbound") EXCEPT !.cause = FALSE] \in Memories
    BY <1>3, <1>0, <2>2, SeenCause DEF PlatformTypeOK, Unbound
  <2>4. task' \in Tasks
    BY <1>3, <1>0, <2>1, TaskGoes DEF PlatformTypeOK, Unbound, Stages
  <2>5. seen' \in Memories
    BY <1>3, <1>0, <2>3 DEF PlatformTypeOK, Unbound
  <2>6. client' \in Clients /\ online' \in Onlines /\ cloud' \in Clouds /\ bits' \subseteq Bits
    BY <1>3, <1>0, StopTyped DEF PlatformTypeOK, Unbound
  <2>7. retry' \in BOOLEAN
    BY <1>3, <1>0 DEF PlatformTypeOK, Unbound
  <2>8. QED
    BY <1>3, <2>1, <2>2, <2>3, <2>4, <2>5, <2>6, <2>7 DEF PlatformTypeOK, Unbound
<1>4. CASE Refresh
  <2>1. task' \in Tasks
    BY <1>4, <1>0, TaskAnnounces DEF PlatformTypeOK, Refresh, Stages
  <2>2. Told(seen, "offline") \in Memories
    BY <1>4, <1>0, SeenTold DEF PlatformTypeOK, Refresh
  <2>3. \A b \in BOOLEAN : [Told(seen, "offline") EXCEPT !.cause = b] \in Memories
    BY <1>4, <1>0, <2>2, SeenCause DEF PlatformTypeOK, Refresh
  <2>4. seen' \in Memories /\ retry' \in BOOLEAN
    BY <1>4, <1>0, <2>3 DEF PlatformTypeOK, Refresh
  <2>5. client' \in Clients /\ online' \in Onlines /\ cloud' \in Clouds /\ bits' \subseteq Bits
    BY <1>4, <1>0, StopTyped DEF PlatformTypeOK, Refresh
  <2>6. may' \in SurroundingKinds
    BY <1>4, <1>0, BudgetTyped DEF PlatformTypeOK, Refresh
  <2>7. QED
    BY <1>4, <2>1, <2>2, <2>3, <2>4, <2>5, <2>6 DEF PlatformTypeOK, Refresh
<1>5. CASE NoRefresh
  BY <1>5, <1>0, TaskGoes, SMTT(30) DEF PlatformTypeOK, NoRefresh, Goes, At, Stages
<1>6. CASE Startup
  <2>1. task' \in Tasks
    BY <1>6, <1>0, TaskGoes, PauseTyped DEF PlatformTypeOK, Startup, Stages
  <2>2. seen' \in Memories
    BY <1>6, <1>0, PauseTyped DEF PlatformTypeOK, Startup
  <2>3. may' \in SurroundingKinds
    BY <1>6, <1>0, FaultTyped DEF PlatformTypeOK, Startup
  <2>4. retry' \in BOOLEAN
    BY <1>6, <1>0 DEF PlatformTypeOK, Startup
  <2>5. QED
    BY <1>6, <2>1, <2>2, <2>3, <2>4 DEF PlatformTypeOK, Startup
<1>7. CASE Announce
  <2>1. [task EXCEPT !.at = "receive", !.announced = FALSE] \in Tasks
    BY <1>7, <1>0, TaskAnnounces DEF PlatformTypeOK, Announce, Stages
  <2>2. task' \in Tasks
    BY <1>7, <1>0, <2>1, TaskGoes DEF PlatformTypeOK, Announce, Stages
  <2>3. QED
    BY <1>7, <2>1, <2>2 DEF PlatformTypeOK, Announce
<1>8. CASE GoOnline
  <2>1. task' \in Tasks
    BY <1>8, <1>0, TaskGoes DEF PlatformTypeOK, GoOnline, Goes, Stages
  <2>2. online' \in Onlines
    BY <1>8, <1>0 DEF PlatformTypeOK, GoOnline, Onlines
  <2>3. QED
    BY <1>8, <2>1, <2>2 DEF PlatformTypeOK, GoOnline
<1>9. CASE TellOnline
  <2>1. task' \in Tasks
    BY <1>9, <1>0, TaskAnnounces DEF PlatformTypeOK, TellOnline, Stages
  <2>2. seen' \in Memories
    BY <1>9, <1>0, SeenTold DEF PlatformTypeOK, TellOnline
  <2>3. QED
    BY <1>9, <2>1, <2>2 DEF PlatformTypeOK, TellOnline
<1>10. CASE Login
  <2>1. \A then \in {"login", "token"} : [task EXCEPT !.at = "report", !.then = then] \in Tasks
    BY <1>10, <1>0, TaskThen DEF PlatformTypeOK, Login, Stages
  <2>2. task' \in Tasks
    BY <1>10, <1>0, <2>1, TaskGoes, PauseTyped DEF PlatformTypeOK, Login, Provision,
       Stages
  <2>3. seen' \in Memories
    BY <1>10, <1>0, SeenTold, PauseTyped DEF PlatformTypeOK, Login
  <2>4. client' \in Clients /\ bits' \subseteq Bits
    BY <1>10, <1>0, StartTyped, StartFailsTyped DEF PlatformTypeOK, Login
  <2>5. may' \in SurroundingKinds
    BY <1>10, <1>0, FaultTyped DEF PlatformTypeOK, Login
  <2>6. QED
    BY <1>10, <2>1, <2>2, <2>3, <2>4, <2>5 DEF PlatformTypeOK, Login
<1>11. CASE Report
  BY <1>11, <1>0, TaskGoes, StartTyped, PauseTyped, FaultTyped, StartFailsTyped,
     SMTT(30) DEF PlatformTypeOK, Report, Stages
<1>12. CASE AwaitReady
  BY <1>12, <1>0, TaskGoes, StopAndPauseTyped, FaultTyped, SMTT(30) DEF
     PlatformTypeOK, AwaitReady, Await, Stages
<1>13. CASE AwaitGrant
  BY <1>13, <1>0, TaskGoes, StopAndPauseTyped, FaultTyped, SMTT(30) DEF
     PlatformTypeOK, AwaitGrant, Await, Stages
<1>14. CASE Save
  BY <1>14, <1>0, TaskGoes, StopAndPauseTyped, FaultTyped, SMTT(30) DEF
     PlatformTypeOK, Save, Stages
<1>15. CASE Update
  <2>1. task' \in Tasks
    BY <1>15, <1>0, TaskGoes DEF PlatformTypeOK, Update, Goes, Stages
  <2>2. cloud' \in Clouds
    BY <1>15, <1>0, CloudAcks DEF PlatformTypeOK, Update
  <2>3. QED
    BY <1>15, <2>1, <2>2 DEF PlatformTypeOK, Update
<1>16. CASE AwaitAck
  BY <1>16, <1>0, TaskGoes, StopTyped, PauseTyped, FaultTyped, SMTT(30) DEF
     PlatformTypeOK, AwaitAck, Stages, Tasks
<1>17. CASE Token
  BY <1>17, <1>0, TaskGoes, StartTyped, PauseTyped, FaultTyped, StartFailsTyped,
     SMTT(30) DEF PlatformTypeOK, Token, Stages
<1>18. CASE Ask
  BY <1>18, <1>0, BudgetTyped, SMTT(30) DEF PlatformTypeOK, Ask, Callers, Onlines
<1>19. CASE Enqueue
  <2>1. seen' \in Memories
    BY <1>19, <1>0, SeenMarks DEF PlatformTypeOK, Enqueue
  <2>2. caller' \in Callers
    BY <1>19, <1>0 DEF PlatformTypeOK, Enqueue, Callers
  <2>3. [epoch |-> online.epoch, identity |-> caller.identity] \in Requests
    BY <1>19, <1>0 DEF PlatformTypeOK, Enqueue, Callers, Onlines, Requests
  <2>4. Len(requests) \in Nat /\ QueueSize \in Nat
    BY <1>19, <1>0 DEF PlatformTypeOK, Enqueue, PlatformAssumption
  <2>5. requests' \in Seq(Requests) /\ Len(requests') <= QueueSize
    BY <1>19, <1>0, <2>3, <2>4 DEF PlatformTypeOK, Enqueue
  <2>6. QED
    BY <1>19, <2>1, <2>2, <2>3, <2>4, <2>5 DEF PlatformTypeOK, Enqueue
<1>20. CASE Receive
  <2>1. requests # <<>> => /\ Head(requests) \in Requests /\ Tail(requests) \in Seq(Requests)
                           /\ Len(Tail(requests)) = Len(requests) - 1
    BY <1>20, <1>0 DEF PlatformTypeOK, Receive
  <2>2. Len(requests) \in Nat /\ QueueSize \in Nat
    BY <1>20, <1>0 DEF PlatformTypeOK, Receive, PlatformAssumption
  <2>3. requests # <<>> =>
            \A stage \in Stages : [task EXCEPT !.request = Head(requests), !.at = stage] \in Tasks
    BY <1>20, <1>0, <2>1, TaskReceives DEF PlatformTypeOK, Receive
  <2>4. task' \in Tasks
    BY <1>20, <1>0, <2>3, TaskGoes DEF PlatformTypeOK, Receive, Stages
  <2>5. requests' \in Seq(Requests) /\ Len(requests') <= QueueSize
    BY <1>20, <1>0, <2>1, <2>2 DEF PlatformTypeOK, Receive
  <2>6. QED
    BY <1>20, <2>1, <2>2, <2>3, <2>4, <2>5 DEF PlatformTypeOK, Receive
<1>21. CASE Http
  BY <1>21, <1>0, TaskGoes, BudgetTyped, OfflineTyped, SMTT(30) DEF PlatformTypeOK,
     Http, Goes, Stages, Bits
<1>22. CASE AnswerRequest
  <2>1. task' \in Tasks
    BY <1>22, <1>0, TaskGoes DEF PlatformTypeOK, AnswerRequest, Goes, Stages
  <2>2. seen' \in Memories
    BY <1>22, <1>0, SeenMarks DEF PlatformTypeOK, AnswerRequest
  <2>3. QED
    BY <1>22, <2>1, <2>2 DEF PlatformTypeOK, AnswerRequest
<1>23. CASE Subscribe
  <2>1. client' \in Clients
    BY <1>23, <1>0 DEF PlatformTypeOK, Subscribe, Clients
  <2>2. seen' \in Memories
    BY <1>23, <1>0, SeenMarks DEF PlatformTypeOK, Subscribe
  <2>3. bits' \subseteq Bits
    BY <1>23, <1>0 DEF PlatformTypeOK, Subscribe, Bits
  <2>4. QED
    BY <1>23, <2>1, <2>2, <2>3 DEF PlatformTypeOK, Subscribe
<1>24. CASE Refuse
  BY <1>24, <1>0, BudgetTyped, SMTT(30) DEF PlatformTypeOK, Refuse, Bits
<1>25. CASE Lose
  <2>1. client' \in Clients
    BY <1>25, <1>0 DEF PlatformTypeOK, Lose, Clients
  <2>2. seen' \in Memories
    BY <1>25, <1>0, SeenMarks DEF PlatformTypeOK, Lose
  <2>3. may' \in SurroundingKinds
    BY <1>25, <1>0, BudgetTyped DEF PlatformTypeOK, Lose
  <2>4. QED
    BY <1>25, <2>1, <2>2, <2>3 DEF PlatformTypeOK, Lose
<1>26. CASE LostOffline
  BY <1>26, <1>0, OfflineTyped, SMTT(30) DEF PlatformTypeOK, LostOffline
<1>27. CASE LostTell
  BY <1>27, <1>0, SeenTold, SMTT(30) DEF PlatformTypeOK, LostTell
<1>28. CASE Grant
  <2>1. MaxGrants \in Nat /\ cloud.granted \in Identities
    BY <1>28, <1>0 DEF PlatformTypeOK, Grant, PlatformAssumption, Clouds
  <2>2. cloud.granted < MaxGrants => cloud.granted + 1 \in Identities
    BY <1>28, <1>0, <2>1 DEF PlatformTypeOK, Grant, Identities
  <2>3. cloud.granted < MaxGrants =>
            [cloud EXCEPT !.granted = @ + 1, !.bound = TRUE] \in Clouds
    BY <1>28, <1>0, <2>2, CloudGrants DEF PlatformTypeOK, Grant
  <2>4. [cloud EXCEPT !.bound = TRUE] \in Clouds
    BY <1>28, <1>0, <2>1, CloudGrants DEF PlatformTypeOK, Grant
  <2>5. cloud' \in Clouds
    BY <1>28, <1>0, <2>3, <2>4 DEF PlatformTypeOK, Grant
  <2>6. granted' \in Identities
    BY <1>28, <1>0, <2>5 DEF PlatformTypeOK, Grant, Clouds
  <2>7. bits' \subseteq Bits
    BY <1>28, <1>0 DEF PlatformTypeOK, Grant, Bits
  <2>8. QED
    BY <1>28, <2>1, <2>2, <2>3, <2>4, <2>5, <2>6, <2>7 DEF PlatformTypeOK, Grant
<1>29. CASE Acknowledged
  <2>1. cloud.ack \in Identities
    BY <1>29, <1>0 DEF PlatformTypeOK, Acknowledged, Clouds
  <2>2. cloud' \in Clouds
    BY <1>29, <1>0, <2>1, CloudAcks DEF PlatformTypeOK, Acknowledged
  <2>3. QED
    BY <1>29, <2>1, <2>2 DEF PlatformTypeOK, Acknowledged
<1>30. CASE Unbind
  <2>1. 0 \in Identities
    BY <1>30, <1>0 DEF PlatformTypeOK, Unbind
  <2>2. [cloud EXCEPT !.bound = FALSE] \in Clouds
    BY <1>30, <1>0, <2>1, CloudGrants DEF PlatformTypeOK, Unbind
  <2>3. cloud' \in Clouds
    BY <1>30, <1>0, <2>2 DEF PlatformTypeOK, Unbind
  <2>4. may' \in SurroundingKinds
    BY <1>30, <1>0, BudgetTyped DEF PlatformTypeOK, Unbind
  <2>5. callback' \in {"none", "lost", "lost-offline", "unbind", "unbind-offline"}
    BY <1>30, <1>0 DEF PlatformTypeOK, Unbind
  <2>6. QED
    BY <1>30, <2>1, <2>2, <2>3, <2>4, <2>5 DEF PlatformTypeOK, Unbind
<1>31. CASE UnbindOffline
  BY <1>31, <1>0, OfflineTyped, SMTT(30) DEF PlatformTypeOK, UnbindOffline
<1>32. CASE UnbindBit
  BY <1>32, <1>0, OfflineTyped, SMTT(30) DEF PlatformTypeOK, UnbindBit, Bits
<1>33. CASE Retry
  <2>1. seen' \in Memories
    BY <1>33, <1>0, SeenCause DEF PlatformTypeOK, Retry
  <2>2. may' \in SurroundingKinds
    BY <1>33, <1>0, BudgetTyped DEF PlatformTypeOK, Retry
  <2>3. QED
    BY <1>33, <2>1, <2>2 DEF PlatformTypeOK, Retry
<1>34. CASE Crash
  <2>1. Told(seen, "none") \in Memories
    BY <1>34, <1>0, SeenTold DEF PlatformTypeOK, Crash
  <2>2. seen' \in Memories
    BY <1>34, <1>0, <2>1, SeenCause DEF PlatformTypeOK, Crash
  <2>3. cloud' \in Clouds
    BY <1>34, <1>0, CloudAcks DEF PlatformTypeOK, Crash
  <2>4. task' \in Tasks
    BY <1>34, <1>0 DEF PlatformTypeOK, Crash, AtStart, Tasks, Stages, Requests, Bits
  <2>5. client' \in Clients
    BY <1>34, <1>0 DEF PlatformTypeOK, Crash, NoClient, Clients
  <2>6. online' \in Onlines /\ caller' \in Callers
    BY <1>34, <1>0 DEF PlatformTypeOK, Crash, Onlines, Callers
  <2>7. requests' \in Seq(Requests) /\ Len(requests') <= QueueSize
    BY <1>34, <1>0 DEF PlatformTypeOK, Crash, PlatformAssumption
  <2>8. may' \in SurroundingKinds
    BY <1>34, <1>0, BudgetTyped DEF PlatformTypeOK, Crash
  <2>9. 0 \in Identities
    BY <1>34, <1>0 DEF PlatformTypeOK, Crash
  <2>10. QED
    BY <1>34, <2>1, <2>2, <2>3, <2>4, <2>5, <2>6, <2>7, <2>8, <2>9 DEF
       PlatformTypeOK, Crash
<1>35. QED
  BY <1>1, <1>2, <1>3, <1>4, <1>5, <1>6, <1>7, <1>8, <1>9, <1>10, <1>11, <1>12,
     <1>13, <1>14, <1>15, <1>16, <1>17, <1>18, <1>19, <1>20, <1>21, <1>22, <1>23, <1>24,
     <1>25, <1>26, <1>27, <1>28, <1>29, <1>30, <1>31, <1>32, <1>33, <1>34
     DEF PlatformNext, TurnNext, LoginNext, RequestNext, ServiceNext
-----------------------------------------------------------------------------
\* The invariant.

Placed ==
    /\ task.at \in {"load", "login", "report", "token"} => client = NoClient
    /\ task.at \in {"await-ready", "await-grant", "save", "update", "await-ack"} =>
           client.kind = "temporary"
    /\ task.at \in {"go-online", "tell"} => client.kind = "own"
    /\ online.is => client.kind = "own"
    /\ client.kind = "none" => client = NoClient

Stored ==
    /\ cloud.acked <= flash /\ cloud.ack <= flash
    /\ flash <= cloud.granted /\ granted <= cloud.granted
    /\ client.kind = "temporary" /\ "grant" \in bits => flash <= granted
    /\ task.at \in {"save", "update"} => "grant" \in bits
    /\ task.at = "update" => granted = flash

Paused ==
    client = NoClient /\ ~retry /\ task.at \notin {"load", "login", "report", "token"} =>
        seen.cause

Good(r) ==
    r.epoch < online.epoch \/ (r.epoch = online.epoch /\ online.is /\ r.identity = identity)

Fresh ==
    \/ seen.gap
    \/ /\ ~seen.mixed
       /\ caller.at = "epoch" => Good(caller)
       /\ task.at \in {"http", "answer"} => Good(task.request)
       /\ \A i \in 1 .. Len(requests) : Good(requests[i])

-----------------------------------------------------------------------------
\* What the steps with several outcomes do to the parts of the records.

LEMMA TaskParts ==
    ASSUME NEW t \in Tasks, NEW stage \in Stages, NEW b
    PROVE  /\ [t EXCEPT !.at = stage].at = stage
           /\ [t EXCEPT !.at = stage].request = t.request
           /\ [t EXCEPT !.at = stage, !.announced = b].at = stage
           /\ [t EXCEPT !.at = stage, !.announced = b].request = t.request
           /\ [t EXCEPT !.at = stage, !.then = b].at = stage
           /\ [t EXCEPT !.at = stage, !.then = b].request = t.request
           /\ [t EXCEPT !.request = b, !.at = stage].at = stage
           /\ [t EXCEPT !.request = b, !.at = stage].request = b
BY DEF Tasks

LEMMA SeenParts ==
    ASSUME NEW s \in Memories, NEW what, NEW b
    PROVE  /\ Told(s, what).cause = s.cause
           /\ Told(s, what).gap = s.gap /\ Told(s, what).mixed = s.mixed
           /\ [s EXCEPT !.cause = b].cause = b
           /\ [s EXCEPT !.cause = b].gap = s.gap
           /\ [s EXCEPT !.cause = b].mixed = s.mixed
           /\ [Told(s, what) EXCEPT !.cause = b].cause = b
           /\ [Told(s, what) EXCEPT !.cause = b].gap = s.gap
           /\ [Told(s, what) EXCEPT !.cause = b].mixed = s.mixed
BY DEF Memories, Told

LEMMA GoesDoes ==
    ASSUME task \in Tasks, NEW stage \in Stages, GoesTo(stage)
    PROVE  task'.at = stage /\ task'.request = task.request
BY TaskParts DEF GoesTo

LEMMA PauseDoes ==
    ASSUME task \in Tasks, seen \in Memories, Pause
    PROVE  /\ task'.at = "announce" /\ task'.request = task.request
           /\ seen'.cause /\ seen'.gap = seen.gap /\ seen'.mixed = seen.mixed
<1>1. "announce" \in Stages
  BY DEF Stages
<1>2. QED
  BY <1>1, GoesDoes, SeenParts DEF Pause

LEMMA StopDoes ==
    ASSUME cloud \in Clouds, online \in Onlines, MqttStop
    PROVE  /\ client' = NoClient
           /\ ~online'.is /\ (~online.is => online' = online)
           /\ online.is => online'.epoch = online.epoch + 1
           /\ cloud'.ack = 0 /\ cloud'.acked = cloud.acked
           /\ cloud'.granted = cloud.granted
<1>1. /\ [cloud EXCEPT !.ack = 0].ack = 0
      /\ [cloud EXCEPT !.ack = 0].acked = cloud.acked
      /\ [cloud EXCEPT !.ack = 0].granted = cloud.granted
  BY DEF Clouds
<1>2. QED
  BY <1>1, OfflineTyped DEF MqttStop

LEMMA LinkDoes ==
    ASSUME NEW c \in Clients, NEW b
    PROVE  /\ [c EXCEPT !.link = b].kind = c.kind
           /\ c # NoClient /\ b => [c EXCEPT !.link = b] # NoClient
           /\ c.link => c # NoClient
BY DEF Clients, NoClient

LEMMA LoginDoes ==
    ASSUME PlatformTypeOK, Login
    PROVE  /\ task.at = "login"
           /\ \/ /\ task'.at = "report" /\ client' = client /\ bits' = bits
                 /\ seen'.cause = seen.cause
              \/ /\ task'.at = "announce" /\ bits' = {}
                 /\ client' = [kind |-> "own", link |-> FALSE]
                 /\ seen' = seen
              \/ /\ task'.at = "announce" /\ client' = client
                 /\ bits' \in {bits, {}} /\ seen'.cause
           /\ task'.request = task.request
           /\ seen'.gap = seen.gap /\ seen'.mixed = seen.mixed
<1>1. {"announce", "report"} \subseteq Stages
  BY DEF Stages
<1>2. ASSUME NEW then, Provision(then)
      PROVE  task'.at = "report" /\ task'.request = task.request
  BY <1>1, <1>2, TaskParts DEF Provision, PlatformTypeOK
<1>3. CASE identity = 0 /\ Provision("login") /\ UNCHANGED <<client, bits, may, seen>>
  BY <1>2, <1>3 DEF Login, At
<1>4. CASE /\ identity # 0 /\ Known /\ MqttStart("own") /\ GoesTo("announce")
           /\ UNCHANGED <<may, seen>>
  BY <1>1, <1>4, GoesDoes DEF Login, At, MqttStart, PlatformTypeOK
<1>5. CASE /\ identity # 0 /\ ~Known /\ Provision("token") /\ seen' = Told(seen, "unbound")
           /\ UNCHANGED <<client, bits, may>>
  BY <1>2, <1>5, SeenParts DEF Login, At, PlatformTypeOK
<1>6. CASE identity # 0 /\ Fault /\ Pause /\ StartFails
  BY <1>6, PauseDoes DEF Login, At, StartFails, PlatformTypeOK
<1>7. QED
  BY <1>3, <1>4, <1>5, <1>6 DEF Login

LEMMA StartupStepsDo ==
    ASSUME PlatformTypeOK, Report \/ Token
    PROVE  /\ task.at \in {"report", "token"}
           /\ \/ /\ bits' = {} /\ seen' = seen
                 /\ \/ /\ client' = [kind |-> "temporary", link |-> FALSE]
                       /\ task'.at = "await-ready"
                    \/ /\ client' = [kind |-> "own", link |-> FALSE]
                       /\ task'.at = "announce"
              \/ /\ task'.at = "announce" /\ client' = client
                 /\ bits' \in {bits, {}} /\ seen'.cause
           /\ task'.request = task.request
           /\ seen'.gap = seen.gap /\ seen'.mixed = seen.mixed
<1>1. {"announce", "await-ready"} \subseteq Stages
  BY DEF Stages
<1>2. CASE Report
  BY <1>1, <1>2, GoesDoes, PauseDoes DEF Report, At, MqttStart, StartFails, PlatformTypeOK
<1>3. CASE Token
  BY <1>1, <1>3, GoesDoes, PauseDoes DEF Token, At, MqttStart, StartFails, PlatformTypeOK
<1>4. QED
  BY <1>2, <1>3

LEMMA StopStepsDo ==
    ASSUME PlatformTypeOK, Unbound \/ Refresh
    PROVE  /\ task.at \in {"unbound?", "refresh?"}
           /\ task'.at \in {"refresh?", "login?"} /\ task'.request = task.request
           /\ seen'.gap = seen.gap /\ seen'.mixed = seen.mixed
           /\ \/ MqttStop /\ bits' \subseteq bits /\ (retry' \/ seen'.cause)
              \/ UNCHANGED <<client, online, cloud, bits, retry, seen>>
           /\ UNCHANGED <<flash, identity, granted, caller, requests>>
<1>0. task.at \in {"unbound?", "refresh?"}
  BY DEF Unbound, Refresh, At
<1>1. "refresh?" \in Stages /\ "login?" \in Stages
  BY DEF Stages
<1>2. CASE Unbound /\ "unbound" \in task.bits
  <2>1. task'.at = "refresh?" /\ task'.request = task.request
    <3>1. task' = [task EXCEPT !.at = "refresh?", !.announced = FALSE]
      BY <1>2 DEF Unbound
    <3>2. QED
      BY <1>1, <3>1, TaskParts DEF PlatformTypeOK
  <2>2. seen'.gap = seen.gap /\ seen'.mixed = seen.mixed
    <3>1. seen' = [Told(seen, "unbound") EXCEPT !.cause = FALSE]
      BY <1>2 DEF Unbound
    <3>2. QED
      BY <3>1, SeenParts DEF PlatformTypeOK
  <2>3. MqttStop /\ bits' \subseteq bits /\ retry'
    BY <1>2 DEF Unbound, StoppedBits
  <2>4. UNCHANGED <<flash, identity, granted, caller, requests>>
    BY <1>2 DEF Unbound
  <2>5. QED
    BY <1>0, <2>1, <2>2, <2>3, <2>4
<1>3. CASE Unbound /\ "unbound" \notin task.bits
  BY <1>0, <1>1, <1>3, GoesDoes DEF Unbound, PlatformTypeOK
<1>4. CASE Refresh
  <2>1. task'.at = "login?" /\ task'.request = task.request
    BY <1>1, <1>4, TaskParts DEF Refresh, PlatformTypeOK
  <2>2. PICK recent \in BOOLEAN :
            /\ retry' = (retry \/ ~recent)
            /\ seen' = [Told(seen, "offline") EXCEPT !.cause = recent]
    BY <1>4 DEF Refresh
  <2>3. /\ seen'.gap = seen.gap /\ seen'.mixed = seen.mixed
        /\ seen'.cause = recent
    BY <2>2, SeenParts DEF PlatformTypeOK
  <2>4. MqttStop /\ bits' \subseteq bits
    BY <1>4 DEF Refresh, StoppedBits
  <2>5. UNCHANGED <<flash, identity, granted, caller, requests>>
    BY <1>4 DEF Refresh
  <2>6. retry' \/ seen'.cause
    BY <2>2, <2>3
  <2>7. QED
    BY <1>0, <2>1, <2>3, <2>4, <2>5, <2>6
<1>5. QED
  BY <1>2, <1>3, <1>4

LEMMA AnnounceDoes ==
    ASSUME PlatformTypeOK, Announce
    PROVE  /\ \/ task'.at = "go-online" /\ client.kind = "own"
              \/ task'.at = "receive"
           /\ task'.request = task.request
<1>1. "go-online" \in Stages /\ "receive" \in Stages
  BY DEF Stages
<1>2. CASE client.kind = "own" /\ GoesTo("go-online")
  BY <1>1, <1>2, GoesDoes DEF PlatformTypeOK
<1>3. CASE task' = [task EXCEPT !.at = "receive", !.announced = FALSE]
  BY <1>1, <1>3, TaskParts DEF PlatformTypeOK
<1>4. QED
  BY <1>2, <1>3 DEF Announce

LEMMA ReceiveDoes ==
    ASSUME PlatformTypeOK, Receive
    PROVE  \/ task'.at = "top" /\ task'.request = task.request /\ UNCHANGED requests
           \/ /\ requests # <<>> /\ requests' = Tail(requests)
              /\ task'.request = Head(requests)
              /\ task'.at \in {"http", "top"}
              /\ task'.at = "http" => Current(Head(requests))
<1>1. "http" \in Stages /\ "top" \in Stages
  BY DEF Stages
<1>2. CASE GoesTo("top") /\ UNCHANGED requests
  BY <1>1, <1>2, GoesDoes DEF PlatformTypeOK
<1>3. CASE /\ requests # <<>> /\ requests' = Tail(requests)
           /\ task' = [task EXCEPT !.request = Head(requests),
                                   !.at = IF Current(Head(requests)) THEN "http" ELSE "top"]
  <2>1. CASE Current(Head(requests))
    BY <1>1, <1>3, <2>1, TaskParts DEF PlatformTypeOK
  <2>2. CASE ~Current(Head(requests))
    BY <1>1, <1>3, <2>2, TaskParts DEF PlatformTypeOK
  <2>3. QED
    BY <1>3, <2>1, <2>2
<1>4. QED
  BY <1>2, <1>3 DEF Receive

LEMMA GoodKept ==
    ASSUME online \in Onlines, online' \in Onlines, NEW r, r.epoch \in Nat, Good(r),
           \/ online' = online
           \/ online'.is /\ online'.epoch = online.epoch
           \/ ~online'.is /\ (online.is => online'.epoch = online.epoch + 1)
                          /\ (~online.is => online' = online),
           identity' = identity \/ (~online.is /\ ~online'.is),
           ~online.is /\ online'.is => identity' = identity
    PROVE  \/ r.epoch < online'.epoch
           \/ r.epoch = online'.epoch /\ online'.is /\ r.identity = identity'
BY SMT DEF Good, Onlines

\* What the steps keep that touch neither the queue nor the caller.
LEMMA FreshKept ==
    ASSUME PlatformTypeOK, PlatformTypeOK', Fresh,
           UNCHANGED <<caller, requests>>,
           seen'.gap = seen.gap, seen'.mixed = seen.mixed,
           task'.at \in {"http", "answer"} => /\ task.at \in {"http", "answer"}
                                              /\ task'.request = task.request,
           \/ online' = online
           \/ online'.is /\ online'.epoch = online.epoch
           \/ ~online'.is /\ (online.is => online'.epoch = online.epoch + 1)
                          /\ (~online.is => online' = online),
           identity' = identity \/ (~online.is /\ ~online'.is)
    PROVE  Fresh'
<1>1. CASE seen.gap
  BY <1>1 DEF Fresh
<1>2. CASE ~seen.gap
  <2>1. ASSUME NEW r, r.epoch \in Nat, Good(r)
        PROVE  \/ r.epoch < online'.epoch
               \/ r.epoch = online'.epoch /\ online'.is /\ r.identity = identity'
    BY <2>1, GoodKept DEF PlatformTypeOK
  <2>2. ~seen'.mixed
    BY <1>2 DEF Fresh
  <2>3. caller'.at = "epoch" => Good(caller)'
    <3>1. caller.epoch \in Nat
      BY DEF PlatformTypeOK, Callers
    <3>2. QED
      BY <1>2, <2>1, <3>1 DEF Fresh, Good
  <2>4. task'.at \in {"http", "answer"} => Good(task.request)'
    <3>1. task.request.epoch \in Nat
      BY DEF PlatformTypeOK, Tasks, Requests
    <3>2. QED
      BY <1>2, <2>1, <3>1 DEF Fresh, Good
  <2>5. ASSUME NEW i \in 1 .. Len(requests')
        PROVE  Good(requests[i])'
    <3>1. requests[i] \in Requests /\ i \in 1 .. Len(requests)
      BY DEF PlatformTypeOK
    <3>2. requests[i].epoch \in Nat
      BY <3>1 DEF Requests
    <3>3. QED
      BY <1>2, <2>1, <3>1, <3>2 DEF Fresh, Good
  <2>6. QED
    BY <2>2, <2>3, <2>4, <2>5 DEF Fresh
<1>3. QED
  BY <1>1, <1>2 DEF PlatformTypeOK, Memories

LEMMA FreshEnqueue ==
    ASSUME PlatformTypeOK, PlatformTypeOK', Fresh, Enqueue
    PROVE  Fresh'
<1>1. /\ seen'.gap = (seen.gap \/ online.epoch # caller.epoch)
      /\ seen'.mixed = seen.mixed
  BY DEF Enqueue, PlatformTypeOK, Memories
<1>2. caller'.at = "rest" /\ UNCHANGED <<online, task, identity>>
  BY DEF Enqueue, PlatformTypeOK, Callers
<1>3. CASE seen.gap \/ online.epoch # caller.epoch
  BY <1>1, <1>3 DEF Fresh
<1>4. CASE ~seen.gap /\ online.epoch = caller.epoch
  <2> DEFINE r == [epoch |-> online.epoch, identity |-> caller.identity]
  <2>1. Good(caller)
    BY <1>4 DEF Fresh, Enqueue
  <2>2. Good(r)
    BY <1>4, <2>1 DEF Good, PlatformTypeOK, Onlines
  <2>3. /\ Len(requests) \in Nat /\ r \in Requests
        /\ Len(Append(requests, r)) = Len(requests) + 1
        /\ \A i \in 1 .. Len(requests) : Append(requests, r)[i] = requests[i]
        /\ Append(requests, r)[Len(requests) + 1] = r
    BY DEF PlatformTypeOK, Callers, Requests, Onlines
  <2>4. requests' = requests \/ requests' = Append(requests, r)
    BY DEF Enqueue
  <2> HIDE DEF r
  <2>5. \A i \in 1 .. Len(requests) : Good(requests[i])
    BY <1>4 DEF Fresh
  <2>6. ASSUME NEW i \in 1 .. Len(requests')
        PROVE  Good(requests'[i])
    BY <2>2, <2>3, <2>4, <2>5
  <2>7. \A x : Good(x) => (x.epoch < online'.epoch \/ (x.epoch = online'.epoch /\ online'.is
                                                         /\ x.identity = identity'))
    BY <1>2 DEF Good
  <2>8. QED
    BY <1>1, <1>2, <1>4, <2>6, <2>7 DEF Fresh, Good
<1>5. QED
  BY <1>3, <1>4 DEF PlatformTypeOK, Memories

LEMMA FreshReceive ==
    ASSUME PlatformTypeOK, PlatformTypeOK', Fresh, Receive
    PROVE  Fresh'
<1>1. UNCHANGED <<online, identity, caller, seen>>
  BY DEF Receive
<1>2. CASE seen.gap
  BY <1>1, <1>2 DEF Fresh
<1>3. CASE ~seen.gap
  <2>1. \A x : Good(x) => (x.epoch < online'.epoch \/ (x.epoch = online'.epoch /\ online'.is
                                                         /\ x.identity = identity'))
    BY <1>1 DEF Good
  <2>2. \A i \in 1 .. Len(requests) : Good(requests[i])
    BY <1>3 DEF Fresh
  <2>3. CASE task'.at = "top" /\ UNCHANGED requests
    BY <1>1, <1>3, <2>1, <2>2, <2>3 DEF Fresh, Good
  <2>4. CASE /\ requests # <<>> /\ requests' = Tail(requests)
             /\ task'.request = Head(requests) /\ task'.at \in {"http", "top"}
    <3>1. /\ Len(requests) \in Nat \ {0} /\ Head(requests) = requests[1]
          /\ Len(Tail(requests)) = Len(requests) - 1
          /\ \A i \in 1 .. Len(Tail(requests)) : Tail(requests)[i] = requests[i + 1]
      BY <2>4 DEF PlatformTypeOK
    <3>2. Good(task'.request)
      BY <2>2, <2>4, <3>1
    <3>3. ASSUME NEW i \in 1 .. Len(requests')
          PROVE  Good(requests'[i])
      BY <2>2, <2>4, <3>1
    <3>4. QED
      BY <1>1, <1>3, <2>1, <3>2, <3>3 DEF Fresh, Good
  <2>5. QED
    BY <2>3, <2>4, ReceiveDoes
<1>4. QED
  BY <1>2, <1>3 DEF PlatformTypeOK, Memories

-----------------------------------------------------------------------------
\* Where the task is, what client there is.
LEMMA PlacedStep ==
    ASSUME PlatformTypeOK, PlatformAssumption, Placed, PlatformNext
    PROVE  Placed'
<1>1. CASE Load
  BY <1>1, SMTT(40) DEF PlatformTypeOK, Placed, Load, Goes, At, GoesTo, Tasks,
     Clients, Onlines
<1>2. CASE ReadBits
  BY <1>2, SMTT(40) DEF PlatformTypeOK, Placed, ReadBits, At, Tasks, Clients, Onlines
<1>3. CASE Unbound
  BY <1>3, StopStepsDo, StopDoes, SMTT(40) DEF PlatformTypeOK, Placed, NoClient,
     Tasks, Clients, Onlines
<1>4. CASE Refresh
  BY <1>4, SMTT(40) DEF PlatformTypeOK, Placed, Refresh, At, MqttStop, Offline,
     NoClient, StoppedBits, Told, Budget, Tasks, Clients, Onlines
<1>5. CASE NoRefresh
  BY <1>5, SMTT(40) DEF PlatformTypeOK, Placed, NoRefresh, Goes, At, GoesTo, Tasks,
     Clients, Onlines
<1>6. CASE Startup
  BY <1>6, SMTT(40) DEF PlatformTypeOK, Placed, Startup, At, GoesTo, Pause, Fault,
     Budget, Tasks, Clients, Onlines
<1>7. CASE Announce
  BY <1>7, AnnounceDoes, SMTT(40) DEF PlatformTypeOK, Placed, Announce, NoClient,
     Tasks, Clients, Onlines
<1>8. CASE GoOnline
  BY <1>8, SMTT(40) DEF PlatformTypeOK, Placed, GoOnline, Goes, At, GoesTo, Tasks,
     Clients, Onlines
<1>9. CASE TellOnline
  BY <1>9, SMTT(40) DEF PlatformTypeOK, Placed, TellOnline, At, Told, Tasks, Clients,
     Onlines
<1>10. CASE Login
  BY <1>10, LoginDoes, SMTT(40) DEF PlatformTypeOK, Placed, Login, NoClient, Tasks,
     Clients, Onlines
<1>11. CASE Report
  BY <1>11, StartupStepsDo, SMTT(40) DEF PlatformTypeOK, Placed, Report, NoClient,
     Tasks, Clients, Onlines
<1>12. CASE AwaitReady
  BY <1>12, SMTT(40) DEF PlatformTypeOK, Placed, AwaitReady, Await, At, GoesTo,
     StopAndPause, MqttStop, Offline, NoClient, StoppedBits, Pause, Fault, Budget, Tasks,
     Clients, Onlines
<1>13. CASE AwaitGrant
  BY <1>13, SMTT(40) DEF PlatformTypeOK, Placed, AwaitGrant, Await, At, GoesTo,
     StopAndPause, MqttStop, Offline, NoClient, StoppedBits, Pause, Fault, Budget, Tasks,
     Clients, Onlines
<1>14. CASE Save
  BY <1>14, SMTT(40) DEF PlatformTypeOK, Placed, Save, At, GoesTo, StopAndPause,
     MqttStop, Offline, NoClient, StoppedBits, Pause, Fault, Budget, Tasks, Clients,
     Onlines
<1>15. CASE Update
  BY <1>15, SMTT(40) DEF PlatformTypeOK, Placed, Update, Goes, At, GoesTo, Tasks,
     Clients, Onlines
<1>16. CASE AwaitAck
  BY <1>16, SMTT(40) DEF PlatformTypeOK, Placed, AwaitAck, At, GoesTo, MqttStop,
     Offline, NoClient, StoppedBits, Pause, Fault, Budget, Tasks, Clients, Onlines
<1>17. CASE Token
  BY <1>17, SMTT(40) DEF PlatformTypeOK, Placed, Token, At, GoesTo, MqttStart,
     StartFails, Pause, Fault, Budget, Tasks, Clients, Onlines
<1>18. CASE Ask
  BY <1>18, SMTT(40) DEF PlatformTypeOK, Placed, Ask, Budget, Tasks, Clients, Onlines
<1>19. CASE Enqueue
  BY <1>19, SMTT(40) DEF PlatformTypeOK, Placed, Enqueue, Tasks, Clients, Onlines
<1>20. CASE Receive
  BY <1>20, ReceiveDoes, SMTT(40) DEF PlatformTypeOK, Placed, Receive, NoClient,
     Tasks, Clients, Onlines
<1>21. CASE Http
  BY <1>21, SMTT(40) DEF PlatformTypeOK, Placed, Http, Goes, At, GoesTo, Budget,
     Offline, Tasks, Clients, Onlines
<1>22. CASE AnswerRequest
  BY <1>22, SMTT(40) DEF PlatformTypeOK, Placed, AnswerRequest, Goes, At, GoesTo,
     Tasks, Clients, Onlines
<1>23. CASE Subscribe
  BY <1>23, SMTT(40) DEF PlatformTypeOK, Placed, Subscribe, Tasks, Clients, Onlines
<1>24. CASE Refuse
  BY <1>24, SMTT(40) DEF PlatformTypeOK, Placed, Refuse, Budget, Tasks, Clients,
     Onlines
<1>25. CASE Lose
  BY <1>25, LinkDoes, SMTT(40) DEF PlatformTypeOK, Placed, Lose, NoClient, Tasks,
     Clients, Onlines
<1>26. CASE LostOffline
  BY <1>26, SMTT(40) DEF PlatformTypeOK, Placed, LostOffline, Offline, Tasks, Clients,
     Onlines
<1>27. CASE LostTell
  BY <1>27, SMTT(40) DEF PlatformTypeOK, Placed, LostTell, Told, Tasks, Clients,
     Onlines
<1>28. CASE Grant
  BY <1>28, SMTT(40) DEF PlatformTypeOK, Placed, Grant, Tasks, Clients, Onlines
<1>29. CASE Acknowledged
  BY <1>29, SMTT(40) DEF PlatformTypeOK, Placed, Acknowledged, Tasks, Clients, Onlines
<1>30. CASE Unbind
  BY <1>30, SMTT(40) DEF PlatformTypeOK, Placed, Unbind, Budget, Tasks, Clients,
     Onlines
<1>31. CASE UnbindOffline
  BY <1>31, SMTT(40) DEF PlatformTypeOK, Placed, UnbindOffline, Offline, Tasks,
     Clients, Onlines
<1>32. CASE UnbindBit
  BY <1>32, SMTT(40) DEF PlatformTypeOK, Placed, UnbindBit, Tasks, Clients, Onlines
<1>33. CASE Retry
  BY <1>33, SMTT(40) DEF PlatformTypeOK, Placed, Retry, Budget, Tasks, Clients,
     Onlines
<1>34. CASE Crash
  BY <1>34, SMTT(40) DEF PlatformTypeOK, Placed, Crash, AtStart, NoClient, Told,
     Budget, Tasks, Clients, Onlines
<1>35. QED
  BY <1>1, <1>2, <1>3, <1>4, <1>5, <1>6, <1>7, <1>8, <1>9, <1>10, <1>11, <1>12, <1>13,
     <1>14, <1>15, <1>16, <1>17, <1>18, <1>19, <1>20, <1>21, <1>22, <1>23, <1>24, <1>25,
     <1>26, <1>27, <1>28, <1>29, <1>30, <1>31, <1>32, <1>33, <1>34 DEF PlatformNext,
     TurnNext, LoginNext, RequestNext, ServiceNext

\* The identity on its way from the grant through flash to its acknowledgement.
LEMMA StoredStep ==
    ASSUME PlatformTypeOK, PlatformAssumption, Placed, Stored, PlatformNext
    PROVE  Stored'
<1>1. CASE Load
  BY <1>1, SMTT(40) DEF PlatformTypeOK, Placed, Stored, Load, Goes, At, GoesTo, Tasks,
     Clients, Clouds, Identities
<1>2. CASE ReadBits
  BY <1>2, SMTT(40) DEF PlatformTypeOK, Placed, Stored, ReadBits, At, Tasks, Clients,
     Clouds, Identities
<1>3. CASE Unbound
  BY <1>3, StopStepsDo, StopDoes, SMTT(40) DEF PlatformTypeOK, Placed, Stored,
     NoClient, Tasks, Clients, Clouds, Identities
<1>4. CASE Refresh
  BY <1>4, SMTT(40) DEF PlatformTypeOK, Placed, Stored, Refresh, At, MqttStop,
     Offline, NoClient, StoppedBits, Told, Budget, Tasks, Clients, Clouds, Identities
<1>5. CASE NoRefresh
  BY <1>5, SMTT(40) DEF PlatformTypeOK, Placed, Stored, NoRefresh, Goes, At, GoesTo,
     Tasks, Clients, Clouds, Identities
<1>6. CASE Startup
  BY <1>6, SMTT(40) DEF PlatformTypeOK, Placed, Stored, Startup, At, GoesTo, Pause,
     Fault, Budget, Tasks, Clients, Clouds, Identities
<1>7. CASE Announce
  BY <1>7, AnnounceDoes, SMTT(40) DEF PlatformTypeOK, Placed, Stored, Announce,
     NoClient, Tasks, Clients, Clouds, Identities
<1>8. CASE GoOnline
  BY <1>8, SMTT(40) DEF PlatformTypeOK, Placed, Stored, GoOnline, Goes, At, GoesTo,
     Tasks, Clients, Clouds, Identities
<1>9. CASE TellOnline
  BY <1>9, SMTT(40) DEF PlatformTypeOK, Placed, Stored, TellOnline, At, Told, Tasks,
     Clients, Clouds, Identities
<1>10. CASE Login
  BY <1>10, LoginDoes, SMTT(40) DEF PlatformTypeOK, Placed, Stored, Login, NoClient,
     Tasks, Clients, Clouds, Identities
<1>11. CASE Report
  BY <1>11, SMTT(40) DEF PlatformTypeOK, Placed, Stored, Report, At, GoesTo,
     MqttStart, StartFails, Pause, Fault, Budget, Tasks, Clients, Clouds, Identities
<1>12. CASE AwaitReady
  BY <1>12, SMTT(40) DEF PlatformTypeOK, Placed, Stored, AwaitReady, Await, At,
     GoesTo, StopAndPause, MqttStop, Offline, NoClient, StoppedBits, Pause, Fault,
     Budget, Tasks, Clients, Clouds, Identities
<1>13. CASE AwaitGrant
  BY <1>13, SMTT(40) DEF PlatformTypeOK, Placed, Stored, AwaitGrant, Await, At,
     GoesTo, StopAndPause, MqttStop, Offline, NoClient, StoppedBits, Pause, Fault,
     Budget, Tasks, Clients, Clouds, Identities
<1>14. CASE Save
  BY <1>14, SMTT(40) DEF PlatformTypeOK, Placed, Stored, Save, At, GoesTo,
     StopAndPause, MqttStop, Offline, NoClient, StoppedBits, Pause, Fault, Budget, Tasks,
     Clients, Clouds, Identities
<1>15. CASE Update
  BY <1>15, SMTT(40) DEF PlatformTypeOK, Placed, Stored, Update, Goes, At, GoesTo,
     Tasks, Clients, Clouds, Identities
<1>16. CASE AwaitAck
  BY <1>16, SMTT(40) DEF PlatformTypeOK, Placed, Stored, AwaitAck, At, GoesTo,
     MqttStop, Offline, NoClient, StoppedBits, Pause, Fault, Budget, Tasks, Clients,
     Clouds, Identities
<1>17. CASE Token
  BY <1>17, SMTT(40) DEF PlatformTypeOK, Placed, Stored, Token, At, GoesTo, MqttStart,
     StartFails, Pause, Fault, Budget, Tasks, Clients, Clouds, Identities
<1>18. CASE Ask
  BY <1>18, SMTT(40) DEF PlatformTypeOK, Placed, Stored, Ask, Budget, Tasks, Clients,
     Clouds, Identities
<1>19. CASE Enqueue
  BY <1>19, SMTT(40) DEF PlatformTypeOK, Placed, Stored, Enqueue, Tasks, Clients,
     Clouds, Identities
<1>20. CASE Receive
  BY <1>20, ReceiveDoes, SMTT(40) DEF PlatformTypeOK, Placed, Stored, Receive,
     NoClient, Tasks, Clients, Clouds, Identities
<1>21. CASE Http
  BY <1>21, SMTT(40) DEF PlatformTypeOK, Placed, Stored, Http, Goes, At, GoesTo,
     Budget, Offline, Tasks, Clients, Clouds, Identities
<1>22. CASE AnswerRequest
  BY <1>22, SMTT(40) DEF PlatformTypeOK, Placed, Stored, AnswerRequest, Goes, At,
     GoesTo, Tasks, Clients, Clouds, Identities
<1>23. CASE Subscribe
  BY <1>23, SMTT(40) DEF PlatformTypeOK, Placed, Stored, Subscribe, Tasks, Clients,
     Clouds, Identities
<1>24. CASE Refuse
  BY <1>24, SMTT(40) DEF PlatformTypeOK, Placed, Stored, Refuse, Budget, Tasks,
     Clients, Clouds, Identities
<1>25. CASE Lose
  BY <1>25, SMTT(40) DEF PlatformTypeOK, Placed, Stored, Lose, Budget, Tasks, Clients,
     Clouds, Identities
<1>26. CASE LostOffline
  BY <1>26, SMTT(40) DEF PlatformTypeOK, Placed, Stored, LostOffline, Offline, Tasks,
     Clients, Clouds, Identities
<1>27. CASE LostTell
  BY <1>27, SMTT(40) DEF PlatformTypeOK, Placed, Stored, LostTell, Told, Tasks,
     Clients, Clouds, Identities
<1>28. CASE Grant
  <2>1. /\ cloud'.granted \in Nat /\ cloud.granted <= cloud'.granted
        /\ cloud'.ack = cloud.ack /\ cloud'.acked = cloud.acked
    <3>1. cloud.granted \in Nat
      BY DEF PlatformTypeOK, PlatformAssumption, Clouds, Identities
    <3>2. \A g, b : /\ [cloud EXCEPT !.granted = g, !.bound = b].granted = g
                     /\ [cloud EXCEPT !.granted = g, !.bound = b].ack = cloud.ack
                     /\ [cloud EXCEPT !.granted = g, !.bound = b].acked = cloud.acked
                     /\ [cloud EXCEPT !.bound = b].granted = cloud.granted
                     /\ [cloud EXCEPT !.bound = b].ack = cloud.ack
                     /\ [cloud EXCEPT !.bound = b].acked = cloud.acked
      BY DEF PlatformTypeOK, Clouds
    <3>3. CASE cloud' = [cloud EXCEPT !.granted = cloud.granted + 1, !.bound = TRUE]
      BY <3>1, <3>2, <3>3
    <3>4. CASE cloud' = [cloud EXCEPT !.bound = TRUE]
      BY <3>1, <3>2, <3>4
    <3>5. QED
      BY <1>28, <3>3, <3>4 DEF Grant
  <2>2. /\ flash \in Nat /\ granted \in Nat /\ cloud.granted \in Nat
        /\ cloud.ack \in Nat /\ cloud.acked \in Nat
    BY DEF PlatformTypeOK, PlatformAssumption, Clouds, Identities
  <2>3. CASE "grant" \in bits
    BY <1>28, <2>1, <2>2, <2>3 DEF Grant, Stored
  <2>4. CASE "grant" \notin bits
    <3>1. task.at \notin {"save", "update"}
      BY <2>4 DEF Stored
    <3>2. granted' = cloud'.granted /\ UNCHANGED <<flash, task>>
      BY <1>28, <2>4 DEF Grant
    <3>3. QED
      BY <2>1, <2>2, <3>1, <3>2 DEF Stored
  <2>5. QED
    BY <2>3, <2>4
<1>29. CASE Acknowledged
  BY <1>29, SMTT(40) DEF PlatformTypeOK, Placed, Stored, Acknowledged, Tasks, Clients,
     Clouds, Identities
<1>30. CASE Unbind
  BY <1>30, SMTT(40) DEF PlatformTypeOK, Placed, Stored, Unbind, Budget, Tasks,
     Clients, Clouds, Identities
<1>31. CASE UnbindOffline
  BY <1>31, SMTT(40) DEF PlatformTypeOK, Placed, Stored, UnbindOffline, Offline,
     Tasks, Clients, Clouds, Identities
<1>32. CASE UnbindBit
  BY <1>32, SMTT(40) DEF PlatformTypeOK, Placed, Stored, UnbindBit, Tasks, Clients,
     Clouds, Identities
<1>33. CASE Retry
  BY <1>33, SMTT(40) DEF PlatformTypeOK, Placed, Stored, Retry, Budget, Tasks,
     Clients, Clouds, Identities
<1>34. CASE Crash
  BY <1>34, SMTT(40) DEF PlatformTypeOK, Placed, Stored, Crash, AtStart, NoClient,
     Told, Budget, Tasks, Clients, Clouds, Identities
<1>35. QED
  BY <1>1, <1>2, <1>3, <1>4, <1>5, <1>6, <1>7, <1>8, <1>9, <1>10, <1>11, <1>12, <1>13,
     <1>14, <1>15, <1>16, <1>17, <1>18, <1>19, <1>20, <1>21, <1>22, <1>23, <1>24, <1>25,
     <1>26, <1>27, <1>28, <1>29, <1>30, <1>31, <1>32, <1>33, <1>34 DEF PlatformNext,
     TurnNext, LoginNext, RequestNext, ServiceNext

\* A pause has had its cause.
LEMMA PausedStep ==
    ASSUME PlatformTypeOK, PlatformAssumption, Placed, Paused, PlatformNext
    PROVE  Paused'
<1>1. CASE Load
  BY <1>1, SMTT(40) DEF PlatformTypeOK, Placed, Paused, Load, Goes, At, GoesTo, Tasks,
     Clients, Memories
<1>2. CASE ReadBits
  BY <1>2, SMTT(40) DEF PlatformTypeOK, Placed, Paused, ReadBits, At, Tasks, Clients,
     Memories
<1>3. CASE Unbound
  BY <1>3, SMTT(40) DEF PlatformTypeOK, Placed, Paused, Unbound, At, GoesTo, MqttStop,
     Offline, NoClient, StoppedBits, Told, Tasks, Clients, Memories
<1>4. CASE Refresh
  BY <1>4, StopStepsDo, StopDoes, SMTT(40) DEF PlatformTypeOK, Placed, Paused,
     NoClient, Tasks, Clients, Memories
<1>5. CASE NoRefresh
  BY <1>5, SMTT(40) DEF PlatformTypeOK, Placed, Paused, NoRefresh, Goes, At, GoesTo,
     Tasks, Clients, Memories
<1>6. CASE Startup
  BY <1>6, SMTT(40) DEF PlatformTypeOK, Placed, Paused, Startup, At, GoesTo, Pause,
     Fault, Budget, Tasks, Clients, Memories
<1>7. CASE Announce
  BY <1>7, SMTT(40) DEF PlatformTypeOK, Placed, Paused, Announce, At, GoesTo, Tasks,
     Clients, Memories
<1>8. CASE GoOnline
  BY <1>8, SMTT(40) DEF PlatformTypeOK, Placed, Paused, GoOnline, Goes, At, GoesTo,
     Tasks, Clients, Memories
<1>9. CASE TellOnline
  BY <1>9, SMTT(40) DEF PlatformTypeOK, Placed, Paused, TellOnline, At, Told, Tasks,
     Clients, Memories
<1>10. CASE Login
  BY <1>10, LoginDoes, SMTT(40) DEF PlatformTypeOK, Placed, Paused, Login, NoClient,
     Tasks, Clients, Memories
<1>11. CASE Report
  BY <1>11, StartupStepsDo, SMTT(40) DEF PlatformTypeOK, Placed, Paused, Report,
     NoClient, Tasks, Clients, Memories
<1>12. CASE AwaitReady
  BY <1>12, SMTT(40) DEF PlatformTypeOK, Placed, Paused, AwaitReady, Await, At,
     GoesTo, StopAndPause, MqttStop, Offline, NoClient, StoppedBits, Pause, Fault,
     Budget, Tasks, Clients, Memories
<1>13. CASE AwaitGrant
  BY <1>13, SMTT(40) DEF PlatformTypeOK, Placed, Paused, AwaitGrant, Await, At,
     GoesTo, StopAndPause, MqttStop, Offline, NoClient, StoppedBits, Pause, Fault,
     Budget, Tasks, Clients, Memories
<1>14. CASE Save
  BY <1>14, SMTT(40) DEF PlatformTypeOK, Placed, Paused, Save, At, GoesTo,
     StopAndPause, MqttStop, Offline, NoClient, StoppedBits, Pause, Fault, Budget, Tasks,
     Clients, Memories
<1>15. CASE Update
  BY <1>15, SMTT(40) DEF PlatformTypeOK, Placed, Paused, Update, Goes, At, GoesTo,
     Tasks, Clients, Memories
<1>16. CASE AwaitAck
  BY <1>16, SMTT(40) DEF PlatformTypeOK, Placed, Paused, AwaitAck, At, GoesTo,
     MqttStop, Offline, NoClient, StoppedBits, Pause, Fault, Budget, Tasks, Clients,
     Memories
<1>17. CASE Token
  BY <1>17, StartupStepsDo, SMTT(40) DEF PlatformTypeOK, Placed, Paused, Token,
     NoClient, Tasks, Clients, Memories
<1>18. CASE Ask
  BY <1>18, SMTT(40) DEF PlatformTypeOK, Placed, Paused, Ask, Budget, Tasks, Clients,
     Memories
<1>19. CASE Enqueue
  BY <1>19, SMTT(40) DEF PlatformTypeOK, Placed, Paused, Enqueue, Tasks, Clients,
     Memories
<1>20. CASE Receive
  BY <1>20, SMTT(40) DEF PlatformTypeOK, Placed, Paused, Receive, At, GoesTo, Tasks,
     Clients, Memories
<1>21. CASE Http
  BY <1>21, SMTT(40) DEF PlatformTypeOK, Placed, Paused, Http, Goes, At, GoesTo,
     Budget, Offline, Tasks, Clients, Memories
<1>22. CASE AnswerRequest
  BY <1>22, SMTT(40) DEF PlatformTypeOK, Placed, Paused, AnswerRequest, Goes, At,
     GoesTo, Tasks, Clients, Memories
<1>23. CASE Subscribe
  BY <1>23, LinkDoes, SMTT(40) DEF PlatformTypeOK, Placed, Paused, Subscribe,
     NoClient, Tasks, Clients, Memories
<1>24. CASE Refuse
  BY <1>24, SMTT(40) DEF PlatformTypeOK, Placed, Paused, Refuse, Budget, Tasks,
     Clients, Memories
<1>25. CASE Lose
  BY <1>25, LinkDoes, SMTT(40) DEF PlatformTypeOK, Placed, Paused, Lose, NoClient,
     Tasks, Clients, Memories
<1>26. CASE LostOffline
  BY <1>26, SMTT(40) DEF PlatformTypeOK, Placed, Paused, LostOffline, Offline, Tasks,
     Clients, Memories
<1>27. CASE LostTell
  BY <1>27, SMTT(40) DEF PlatformTypeOK, Placed, Paused, LostTell, Told, Tasks,
     Clients, Memories
<1>28. CASE Grant
  BY <1>28, SMTT(40) DEF PlatformTypeOK, Placed, Paused, Grant, Tasks, Clients,
     Memories
<1>29. CASE Acknowledged
  BY <1>29, SMTT(40) DEF PlatformTypeOK, Placed, Paused, Acknowledged, Tasks, Clients,
     Memories
<1>30. CASE Unbind
  BY <1>30, SMTT(40) DEF PlatformTypeOK, Placed, Paused, Unbind, Budget, Tasks,
     Clients, Memories
<1>31. CASE UnbindOffline
  BY <1>31, SMTT(40) DEF PlatformTypeOK, Placed, Paused, UnbindOffline, Offline,
     Tasks, Clients, Memories
<1>32. CASE UnbindBit
  BY <1>32, SMTT(40) DEF PlatformTypeOK, Placed, Paused, UnbindBit, Tasks, Clients,
     Memories
<1>33. CASE Retry
  BY <1>33, SMTT(40) DEF PlatformTypeOK, Placed, Paused, Retry, Budget, Tasks,
     Clients, Memories
<1>34. CASE Crash
  BY <1>34, SMTT(40) DEF PlatformTypeOK, Placed, Paused, Crash, AtStart, NoClient,
     Told, Budget, Tasks, Clients, Memories
<1>35. QED
  BY <1>1, <1>2, <1>3, <1>4, <1>5, <1>6, <1>7, <1>8, <1>9, <1>10, <1>11, <1>12, <1>13,
     <1>14, <1>15, <1>16, <1>17, <1>18, <1>19, <1>20, <1>21, <1>22, <1>23, <1>24, <1>25,
     <1>26, <1>27, <1>28, <1>29, <1>30, <1>31, <1>32, <1>33, <1>34 DEF PlatformNext,
     TurnNext, LoginNext, RequestNext, ServiceNext

\* Requests are of the identity that the epoch they carry belongs to.
LEMMA FreshStep ==
    ASSUME PlatformTypeOK, PlatformTypeOK', Placed, Fresh, PlatformNext
    PROVE  Fresh'
<1>1. CASE Load
  BY <1>1, FreshKept, GoesDoes, SeenParts DEF PlatformTypeOK, Load, Goes, At, Placed,
     Stages, NoClient
<1>2. CASE ReadBits
  BY <1>2, SMTT(40) DEF PlatformTypeOK, Placed, Fresh, ReadBits, At, Tasks, Clients,
     Memories, Onlines, Requests, Callers, Current, Good
<1>3. CASE Unbound
  <2>1. task'.at \in {"http", "answer"} => /\ task.at \in {"http", "answer"}
                                           /\ task'.request = task.request
    BY <1>3, StopStepsDo
  <2>2. seen'.gap = seen.gap /\ seen'.mixed = seen.mixed
    BY <1>3, StopStepsDo
  <2>3. \/ online' = online
        \/ ~online'.is /\ (online.is => online'.epoch = online.epoch + 1)
                       /\ (~online.is => online' = online)
    BY <1>3, StopStepsDo, StopDoes DEF PlatformTypeOK
  <2>4. identity' = identity /\ UNCHANGED <<caller, requests>>
    BY <1>3, StopStepsDo
  <2>5. QED
    BY <2>1, <2>2, <2>3, <2>4, FreshKept
<1>4. CASE Refresh
  <2>1. task'.at \in {"http", "answer"} => /\ task.at \in {"http", "answer"}
                                           /\ task'.request = task.request
    BY <1>4, StopStepsDo
  <2>2. seen'.gap = seen.gap /\ seen'.mixed = seen.mixed
    BY <1>4, StopStepsDo
  <2>3. \/ online' = online
        \/ ~online'.is /\ (online.is => online'.epoch = online.epoch + 1)
                       /\ (~online.is => online' = online)
    BY <1>4, StopStepsDo, StopDoes DEF PlatformTypeOK
  <2>4. identity' = identity /\ UNCHANGED <<caller, requests>>
    BY <1>4, StopStepsDo
  <2>5. QED
    BY <2>1, <2>2, <2>3, <2>4, FreshKept
<1>5. CASE NoRefresh
  BY <1>5, SMTT(40) DEF PlatformTypeOK, Placed, Fresh, NoRefresh, Goes, At, GoesTo,
     Tasks, Clients, Memories, Onlines, Requests, Callers, Current, Good
<1>6. CASE Startup
  BY <1>6, SMTT(40) DEF PlatformTypeOK, Placed, Fresh, Startup, At, GoesTo, Pause,
     Fault, Budget, Tasks, Clients, Memories, Onlines, Requests, Callers, Current, Good
<1>7. CASE Announce
  <2>1. task'.at \in {"http", "answer"} => /\ task.at \in {"http", "answer"}
                                           /\ task'.request = task.request
    BY <1>7, AnnounceDoes
  <2>2. seen'.gap = seen.gap /\ seen'.mixed = seen.mixed
    BY <1>7 DEF Announce
  <2>3. \/ online' = online
        \/ ~online'.is /\ (online.is => online'.epoch = online.epoch + 1)
                       /\ (~online.is => online' = online)
    BY <1>7 DEF Announce
  <2>4. identity' = identity /\ UNCHANGED <<caller, requests>>
    BY <1>7 DEF Announce
  <2>5. QED
    BY <2>1, <2>2, <2>3, <2>4, FreshKept
<1>8. CASE GoOnline
  BY <1>8, SMTT(40) DEF PlatformTypeOK, Placed, Fresh, GoOnline, Goes, At, GoesTo,
     Tasks, Clients, Memories, Onlines, Requests, Callers, Current, Good
<1>9. CASE TellOnline
  BY <1>9, SMTT(40) DEF PlatformTypeOK, Placed, Fresh, TellOnline, At, Told, Tasks,
     Clients, Memories, Onlines, Requests, Callers, Current, Good
<1>10. CASE Login
  <2>1. task'.at \in {"http", "answer"} => /\ task.at \in {"http", "answer"}
                                           /\ task'.request = task.request
    BY <1>10, LoginDoes
  <2>2. seen'.gap = seen.gap /\ seen'.mixed = seen.mixed
    BY <1>10, LoginDoes
  <2>3. \/ online' = online
        \/ ~online'.is /\ (online.is => online'.epoch = online.epoch + 1)
                       /\ (~online.is => online' = online)
    BY <1>10 DEF Login
  <2>4. identity' = identity /\ UNCHANGED <<caller, requests>>
    BY <1>10 DEF Login
  <2>5. QED
    BY <2>1, <2>2, <2>3, <2>4, FreshKept
<1>11. CASE Report
  BY <1>11, SMTT(40) DEF PlatformTypeOK, Placed, Fresh, Report, At, GoesTo, MqttStart,
     StartFails, Pause, Fault, Budget, Tasks, Clients, Memories, Onlines, Requests,
     Callers, Current, Good
<1>12. CASE AwaitReady
  BY <1>12, SMTT(40) DEF PlatformTypeOK, Placed, Fresh, AwaitReady, Await, At, GoesTo,
     StopAndPause, MqttStop, Offline, NoClient, StoppedBits, Pause, Fault, Budget, Tasks,
     Clients, Memories, Onlines, Requests, Callers, Current, Good
<1>13. CASE AwaitGrant
  BY <1>13, SMTT(40) DEF PlatformTypeOK, Placed, Fresh, AwaitGrant, Await, At, GoesTo,
     StopAndPause, MqttStop, Offline, NoClient, StoppedBits, Pause, Fault, Budget, Tasks,
     Clients, Memories, Onlines, Requests, Callers, Current, Good
<1>14. CASE Save
  <2>1. task'.at \in {"http", "answer"} => /\ task.at \in {"http", "answer"}
                                           /\ task'.request = task.request
    BY <1>14, PauseDoes, GoesDoes DEF Save, StopAndPause, Stages, PlatformTypeOK
  <2>2. seen'.gap = seen.gap /\ seen'.mixed = seen.mixed
    BY <1>14, PauseDoes DEF Save, StopAndPause, PlatformTypeOK
  <2>3. \/ online' = online
        \/ ~online'.is /\ (online.is => online'.epoch = online.epoch + 1)
                       /\ (~online.is => online' = online)
    BY <1>14, StopDoes DEF Save, StopAndPause, PlatformTypeOK
  <2>4. identity' = identity /\ UNCHANGED <<caller, requests>>
    BY <1>14 DEF Save
  <2>5. QED
    BY <2>1, <2>2, <2>3, <2>4, FreshKept
<1>15. CASE Update
  BY <1>15, SMTT(40) DEF PlatformTypeOK, Placed, Fresh, Update, Goes, At, GoesTo,
     Tasks, Clients, Memories, Onlines, Requests, Callers, Current, Good
<1>16. CASE AwaitAck
  BY <1>16, SMTT(40) DEF PlatformTypeOK, Placed, Fresh, AwaitAck, At, GoesTo,
     MqttStop, Offline, NoClient, StoppedBits, Pause, Fault, Budget, Tasks, Clients,
     Memories, Onlines, Requests, Callers, Current, Good
<1>17. CASE Token
  <2>1. task'.at \in {"http", "answer"} => /\ task.at \in {"http", "answer"}
                                           /\ task'.request = task.request
    BY <1>17, StartupStepsDo
  <2>2. seen'.gap = seen.gap /\ seen'.mixed = seen.mixed
    BY <1>17, StartupStepsDo
  <2>3. \/ online' = online
        \/ ~online'.is /\ (online.is => online'.epoch = online.epoch + 1)
                       /\ (~online.is => online' = online)
    BY <1>17 DEF Token
  <2>4. identity' = identity /\ UNCHANGED <<caller, requests>>
    BY <1>17 DEF Token
  <2>5. QED
    BY <2>1, <2>2, <2>3, <2>4, FreshKept
<1>18. CASE Ask
  BY <1>18, SMTT(40) DEF PlatformTypeOK, Placed, Fresh, Ask, Budget, Tasks, Clients,
     Memories, Onlines, Requests, Callers, Current, Good
<1>19. CASE Enqueue
  BY <1>19, FreshEnqueue
<1>20. CASE Receive
  BY <1>20, FreshReceive
<1>21. CASE Http
  <2>1. task'.at \in {"http", "answer"} => /\ task.at \in {"http", "answer"}
                                           /\ task'.request = task.request
    BY <1>21, GoesDoes DEF Http, Goes, At, Stages, PlatformTypeOK
  <2>2. seen'.gap = seen.gap /\ seen'.mixed = seen.mixed
    BY <1>21 DEF Http
  <2>3. \/ online' = online
        \/ ~online'.is /\ (online.is => online'.epoch = online.epoch + 1)
                       /\ (~online.is => online' = online)
    BY <1>21, OfflineTyped DEF Http, PlatformTypeOK
  <2>4. identity' = identity /\ UNCHANGED <<caller, requests>>
    BY <1>21 DEF Http
  <2>5. QED
    BY <2>1, <2>2, <2>3, <2>4, FreshKept
<1>22. CASE AnswerRequest
  BY <1>22, SMTT(40) DEF PlatformTypeOK, Placed, Fresh, AnswerRequest, Goes, At,
     GoesTo, Tasks, Clients, Memories, Onlines, Requests, Callers, Current, Good
<1>23. CASE Subscribe
  BY <1>23, SMTT(40) DEF PlatformTypeOK, Placed, Fresh, Subscribe, Tasks, Clients,
     Memories, Onlines, Requests, Callers, Current, Good
<1>24. CASE Refuse
  BY <1>24, SMTT(40) DEF PlatformTypeOK, Placed, Fresh, Refuse, Budget, Tasks,
     Clients, Memories, Onlines, Requests, Callers, Current, Good
<1>25. CASE Lose
  BY <1>25, SMTT(40) DEF PlatformTypeOK, Placed, Fresh, Lose, Budget, Tasks, Clients,
     Memories, Onlines, Requests, Callers, Current, Good
<1>26. CASE LostOffline
  BY <1>26, FreshKept, OfflineTyped DEF PlatformTypeOK, LostOffline
<1>27. CASE LostTell
  BY <1>27, SMTT(40) DEF PlatformTypeOK, Placed, Fresh, LostTell, Told, Tasks,
     Clients, Memories, Onlines, Requests, Callers, Current, Good
<1>28. CASE Grant
  BY <1>28, SMTT(40) DEF PlatformTypeOK, Placed, Fresh, Grant, Tasks, Clients,
     Memories, Onlines, Requests, Callers, Current, Good
<1>29. CASE Acknowledged
  BY <1>29, SMTT(40) DEF PlatformTypeOK, Placed, Fresh, Acknowledged, Tasks, Clients,
     Memories, Onlines, Requests, Callers, Current, Good
<1>30. CASE Unbind
  BY <1>30, SMTT(40) DEF PlatformTypeOK, Placed, Fresh, Unbind, Budget, Tasks,
     Clients, Memories, Onlines, Requests, Callers, Current, Good
<1>31. CASE UnbindOffline
  BY <1>31, FreshKept, OfflineTyped DEF PlatformTypeOK, UnbindOffline
<1>32. CASE UnbindBit
  BY <1>32, SMTT(40) DEF PlatformTypeOK, Placed, Fresh, UnbindBit, Tasks, Clients,
     Memories, Onlines, Requests, Callers, Current, Good
<1>33. CASE Retry
  BY <1>33, SMTT(40) DEF PlatformTypeOK, Placed, Fresh, Retry, Budget, Tasks, Clients,
     Memories, Onlines, Requests, Callers, Current, Good
<1>34. CASE Crash
  BY <1>34, SMTT(40) DEF PlatformTypeOK, Placed, Fresh, Crash, AtStart, NoClient,
     Told, Budget, Tasks, Clients, Memories, Onlines, Requests, Callers, Current, Good
<1>35. QED
  BY <1>1, <1>2, <1>3, <1>4, <1>5, <1>6, <1>7, <1>8, <1>9, <1>10, <1>11, <1>12, <1>13,
     <1>14, <1>15, <1>16, <1>17, <1>18, <1>19, <1>20, <1>21, <1>22, <1>23, <1>24, <1>25,
     <1>26, <1>27, <1>28, <1>29, <1>30, <1>31, <1>32, <1>33, <1>34 DEF PlatformNext,
     TurnNext, LoginNext, RequestNext, ServiceNext

-----------------------------------------------------------------------------
\* What the task has told, against what the bits, the client and the callbacks say.

Telling ==
    /\ "ready" \in bits => client.link
    /\ client = NoClient => callback = "none"
    /\ callback \in {"lost", "lost-offline"} => ~client.link
    /\ client.kind # "own" => ~online.is /\ seen.told # "online"
    /\ task.at \in {"go-online", "tell"} => client.link \/ seen.raced
    /\ online.is /\ ~client.link => seen.raced \/ callback = "lost"
    /\ task.at = "tell" =>
           seen.raced \/ online.is \/ callback = "unbind-offline" \/ "unbound" \in bits
    /\ seen.told = "online" =>
           \/ seen.raced \/ online.is
           \/ callback \in {"lost", "lost-offline", "unbind-offline"}
           \/ "unbound" \in bits
    /\ task.announced /\ client.link => seen.told = "online" \/ seen.blinked
    /\ online.is /\ seen.told # "online" => seen.raced \/ seen.blinked \/ task.at = "tell"

\* The parts of the records that Telling is about.
LEMMA TaskTells ==
    ASSUME NEW t \in Tasks, NEW stage \in Stages, NEW b, NEW c \in BOOLEAN
    PROVE  /\ [t EXCEPT !.at = stage].at = stage
           /\ [t EXCEPT !.at = stage].announced <=> t.announced
           /\ [t EXCEPT !.at = stage, !.bits = b].at = stage
           /\ [t EXCEPT !.at = stage, !.bits = b].announced <=> t.announced
           /\ [t EXCEPT !.at = stage, !.then = b].announced <=> t.announced
           /\ [t EXCEPT !.request = b, !.at = stage].announced <=> t.announced
           /\ [t EXCEPT !.at = stage, !.announced = c].announced <=> c
BY DEF Tasks

LEMMA SeenTells ==
    ASSUME NEW s \in Memories, NEW what, NEW b
    PROVE  /\ Told(s, what).told = what
           /\ Told(s, what).raced <=> s.raced
           /\ Told(s, what).blinked <=> s.blinked
           /\ [s EXCEPT !.cause = b].told = s.told
           /\ [s EXCEPT !.cause = b].raced <=> s.raced
           /\ [s EXCEPT !.cause = b].blinked <=> s.blinked
           /\ [Told(s, what) EXCEPT !.cause = b].told = what
           /\ [Told(s, what) EXCEPT !.cause = b].raced <=> s.raced
           /\ [Told(s, what) EXCEPT !.cause = b].blinked <=> s.blinked
BY DEF Memories, Told

\* mqtt_stop(), with nothing more told of being online
LEMMA TellingStopped ==
    ASSUME PlatformTypeOK, MqttStop, bits' \subseteq bits \ {"ready"},
           task'.at \notin {"go-online", "tell"}, seen'.told # "online",
           callback' = callback
    PROVE  Telling'
<1>1. client' = NoClient /\ ~online'.is /\ callback = "none"
  BY StopDoes DEF PlatformTypeOK, MqttStop
<1>2. ~client'.link /\ client'.kind # "own"
  BY <1>1 DEF NoClient
<1>3. QED
  BY <1>1, <1>2 DEF Telling

\* A startup, of which a client may come that is not connected yet
LEMMA TellingStarted ==
    ASSUME PlatformTypeOK, Placed, Telling, client = NoClient,
           client' = client \/ (~client'.link /\ client' # NoClient),
           bits' \in {bits, {}},
           task'.at \notin {"go-online", "tell"}, seen'.told # "online",
           callback' = callback, online' = online
    PROVE  Telling'
<1>1. ~client.link /\ client.kind # "own"
  BY DEF NoClient
<1>2. ~online.is /\ callback = "none" /\ "ready" \notin bits
  BY <1>1 DEF Telling
<1>3. ~client'.link
  BY <1>1
<1>4. QED
  BY <1>1, <1>2, <1>3 DEF Telling

\* A step that leaves alone all that Telling is about but the place of the task
LEMMA TellingKept ==
    ASSUME PlatformTypeOK, PlatformTypeOK', Telling,
           UNCHANGED <<client, bits, online, callback>>,
           seen'.told = seen.told, seen.raced => seen'.raced,
           seen.blinked => seen'.blinked,
           task'.announced => task.announced,
           task.at # "tell", task'.at \notin {"go-online", "tell"}
    PROVE  Telling'
BY DEF Telling

\* Every step keeps it.
LEMMA TellingStep ==
    ASSUME PlatformTypeOK, PlatformTypeOK', Placed, Telling, PlatformNext
    PROVE  Telling'
<1>1. CASE Load
  BY <1>1, TaskTells, SeenTells, TellingKept, SMTT(40) DEF PlatformTypeOK, Placed,
     Telling, Load, Goes, At, GoesTo, Tasks, Clients, Memories, Onlines, Stages
<1>2. CASE ReadBits
  BY <1>2, TaskTells, SeenTells, TellingKept, SMTT(40) DEF PlatformTypeOK, Placed,
     Telling, ReadBits, At, Tasks, Clients, Memories, Onlines, Stages
<1>3. CASE Unbound
  <2>1. CASE "unbound" \in task.bits
    <3>1. MqttStop /\ bits' \subseteq bits \ {"ready"} /\ callback' = callback
      BY <1>3, <2>1 DEF Unbound, StoppedBits
    <3>2. /\ task' = [task EXCEPT !.at = "refresh?", !.announced = FALSE]
          /\ seen' = [Told(seen, "unbound") EXCEPT !.cause = FALSE]
      BY <1>3, <2>1 DEF Unbound
    <3>3. task'.at = "refresh?"
      BY <3>2 DEF PlatformTypeOK, Tasks
    <3>4. seen'.told = "unbound"
      BY <3>2, SeenTells DEF PlatformTypeOK
    <3>5. QED
      BY <3>1, <3>3, <3>4, TellingStopped
  <2>2. CASE "unbound" \notin task.bits
    <3>1. GoesTo("refresh?") /\ UNCHANGED <<client, online, cloud, bits, retry, seen, callback>>
      BY <1>3, <2>2 DEF Unbound
    <3>2. task'.at = "refresh?" /\ (task'.announced <=> task.announced)
      BY <3>1, TaskTells DEF GoesTo, PlatformTypeOK, Stages
    <3>3. task.at # "tell"
      BY <1>3 DEF Unbound, At
    <3>4. QED
      BY <3>1, <3>2, <3>3, TellingKept
  <2>3. QED
    BY <2>1, <2>2
<1>4. CASE Refresh
  BY <1>4, TaskTells, SeenTells, TellingStopped, TellingKept, SMTT(40) DEF
     PlatformTypeOK, Placed, Telling, Refresh, At, StoppedBits, Tasks, Clients,
     Memories, Onlines, Stages
<1>5. CASE NoRefresh
  BY <1>5, TaskTells, SeenTells, TellingKept, SMTT(40) DEF PlatformTypeOK, Placed,
     Telling, NoRefresh, Goes, At, GoesTo, Tasks, Clients, Memories, Onlines, Stages
<1>6. CASE Startup
  BY <1>6, TaskTells, SeenTells, TellingKept, SMTT(40) DEF PlatformTypeOK, Placed,
     Telling, Startup, At, GoesTo, Pause, Tasks, Clients, Memories, Onlines, Stages
<1>7. CASE Announce
  <2>1. UNCHANGED <<client, bits, online, callback, seen>> /\ task.at = "announce"
    BY <1>7 DEF Announce, At
  <2>2. CASE client.kind = "own" /\ "ready" \in bits /\ GoesTo("go-online")
    <3>1. task'.at = "go-online" /\ (task'.announced <=> task.announced)
      BY <2>2, TaskTells DEF GoesTo, PlatformTypeOK, Stages
    <3>2. QED
      BY <2>1, <2>2, <3>1 DEF Telling
  <2>3. CASE task' = [task EXCEPT !.at = "receive", !.announced = FALSE]
    <3>1. task'.at = "receive" /\ ~task'.announced
      BY <2>3, TaskTells, AnnounceDoes, <1>7 DEF PlatformTypeOK, Tasks
    <3>2. QED
      BY <2>1, <3>1, TellingKept
  <2>4. QED
    BY <1>7, <2>2, <2>3 DEF Announce
<1>8. CASE GoOnline
  BY <1>8, TaskTells, SeenTells, SMTT(40) DEF PlatformTypeOK, Placed, Telling, GoOnline,
     Goes, At, GoesTo, Tasks, Clients, Memories, Onlines, Stages
<1>9. CASE TellOnline
  BY <1>9, TaskTells, SeenTells, SMTT(40) DEF PlatformTypeOK, Placed, Telling,
     TellOnline, At, Told, Tasks, Clients, Memories, Onlines, Stages
<1>10. CASE Login
  <2>1. client = NoClient /\ callback' = callback /\ online' = online
    BY <1>10, LoginDoes DEF Login, Placed
  <2>2. seen.told # "online"
    BY <2>1 DEF Telling, NoClient
  <2>3. seen'.told # "online"
    <3>1. \/ seen' = seen
          \/ seen' = Told(seen, "unbound")
          \/ seen' = [seen EXCEPT !.cause = TRUE]
      BY <1>10 DEF Login, Pause
    <3>2. seen \in Memories
      BY DEF PlatformTypeOK
    <3>3. [seen EXCEPT !.cause = TRUE].told = seen.told /\ Told(seen, "unbound").told = "unbound"
      BY <3>2, SeenTells
    <3>4. QED
      BY <2>2, <3>1, <3>3
  <2>4. client' = client \/ (~client'.link /\ client' # NoClient)
    BY <1>10, LoginDoes DEF NoClient
  <2>5. bits' \in {bits, {}} /\ task'.at \notin {"go-online", "tell"}
    BY <1>10, LoginDoes
  <2>6. QED
    BY <2>1, <2>3, <2>4, <2>5, TellingStarted
<1>11. CASE Report
  <2>1. client = NoClient /\ callback' = callback /\ online' = online
    BY <1>11, StartupStepsDo DEF Report, Placed
  <2>2. seen.told # "online"
    BY <2>1 DEF Telling, NoClient
  <2>3. seen'.told # "online"
    <3>1. seen' = seen \/ seen' = [seen EXCEPT !.cause = TRUE]
      BY <1>11 DEF Report, Pause
    <3>2. seen \in Memories
      BY DEF PlatformTypeOK
    <3>3. [seen EXCEPT !.cause = TRUE].told = seen.told /\ Told(seen, "unbound").told = "unbound"
      BY <3>2, SeenTells
    <3>4. QED
      BY <2>2, <3>1, <3>3
  <2>4. client' = client \/ (~client'.link /\ client' # NoClient)
    BY <1>11, StartupStepsDo DEF NoClient
  <2>5. bits' \in {bits, {}} /\ task'.at \notin {"go-online", "tell"}
    BY <1>11, StartupStepsDo
  <2>6. QED
    BY <2>1, <2>3, <2>4, <2>5, TellingStarted
<1>12. CASE AwaitReady
  BY <1>12, TaskTells, SeenTells, TellingStopped, TellingKept, SMTT(40) DEF
     PlatformTypeOK, Placed, Telling, AwaitReady, Await, At, GoesTo, StopAndPause,
     StoppedBits, Pause, Tasks, Clients, Memories, Onlines, Stages
<1>13. CASE AwaitGrant
  BY <1>13, TaskTells, SeenTells, TellingStopped, TellingKept, SMTT(40) DEF
     PlatformTypeOK, Placed, Telling, AwaitGrant, Await, At, GoesTo, StopAndPause,
     StoppedBits, Pause, Tasks, Clients, Memories, Onlines, Stages
<1>14. CASE Save
  BY <1>14, TaskTells, SeenTells, TellingStopped, TellingKept, SMTT(40) DEF
     PlatformTypeOK, Placed, Telling, Save, At, GoesTo, StopAndPause, StoppedBits,
     Pause, Tasks, Clients, Memories, Onlines, Stages
<1>15. CASE Update
  BY <1>15, TaskTells, SeenTells, TellingKept, SMTT(40) DEF PlatformTypeOK, Placed,
     Telling, Update, Goes, At, GoesTo, Tasks, Clients, Memories, Onlines, Stages
<1>16. CASE AwaitAck
  BY <1>16, TaskTells, SeenTells, TellingStopped, TellingKept, SMTT(40) DEF
     PlatformTypeOK, Placed, Telling, AwaitAck, At, GoesTo, StoppedBits, Pause, Tasks,
     Clients, Memories, Onlines, Stages
<1>17. CASE Token
  <2>1. client = NoClient /\ callback' = callback /\ online' = online
    BY <1>17, StartupStepsDo DEF Token, Placed
  <2>2. seen.told # "online"
    BY <2>1 DEF Telling, NoClient
  <2>3. seen'.told # "online"
    <3>1. seen' = seen \/ seen' = [seen EXCEPT !.cause = TRUE]
      BY <1>17 DEF Token, Pause
    <3>2. seen \in Memories
      BY DEF PlatformTypeOK
    <3>3. [seen EXCEPT !.cause = TRUE].told = seen.told /\ Told(seen, "unbound").told = "unbound"
      BY <3>2, SeenTells
    <3>4. QED
      BY <2>2, <3>1, <3>3
  <2>4. client' = client \/ (~client'.link /\ client' # NoClient)
    BY <1>17, StartupStepsDo DEF NoClient
  <2>5. bits' \in {bits, {}} /\ task'.at \notin {"go-online", "tell"}
    BY <1>17, StartupStepsDo
  <2>6. QED
    BY <2>1, <2>3, <2>4, <2>5, TellingStarted
<1>18. CASE Ask
  BY <1>18, TaskTells, SeenTells, SMTT(40) DEF PlatformTypeOK, Placed, Telling, Ask,
     Tasks, Clients, Memories, Onlines, Stages
<1>19. CASE Enqueue
  BY <1>19, TaskTells, SeenTells, SMTT(40) DEF PlatformTypeOK, Placed, Telling, Enqueue,
     Tasks, Clients, Memories, Onlines, Stages
<1>20. CASE Receive
  <2>1. UNCHANGED <<client, bits, online, callback, seen>> /\ task.at = "receive"
    BY <1>20 DEF Receive, At
  <2>2. task'.at \in {"http", "top"}
    BY <1>20, ReceiveDoes
  <2>3. task'.announced <=> task.announced
    <3>1. \/ task' = [task EXCEPT !.at = "top"]
          \/ \E stage \in {"http", "top"} :
                 task' = [task EXCEPT !.request = Head(requests), !.at = stage]
      BY <1>20 DEF Receive, GoesTo
    <3>2. {"http", "top"} \subseteq Stages /\ task \in Tasks
      BY DEF Stages, PlatformTypeOK
    <3>3. [task EXCEPT !.at = "top"].announced <=> task.announced
      BY <3>2, TaskTells
    <3>4. ASSUME NEW stage \in {"http", "top"}
          PROVE  [task EXCEPT !.request = Head(requests), !.at = stage].announced
                     <=> task.announced
      BY <3>2, TaskTells
    <3>5. QED
      BY <3>1, <3>3, <3>4
  <2>4. QED
    BY <2>1, <2>2, <2>3, TellingKept
<1>21. CASE Http
  BY <1>21, TaskTells, SeenTells, SMTT(40) DEF PlatformTypeOK, Placed, Telling, Http,
     Goes, At, GoesTo, Offline, Tasks, Clients, Memories, Onlines, Stages
<1>22. CASE AnswerRequest
  BY <1>22, TaskTells, SeenTells, TellingKept, SMTT(40) DEF PlatformTypeOK, Placed,
     Telling, AnswerRequest, Goes, At, GoesTo, Tasks, Clients, Memories, Onlines, Stages
<1>23. CASE Subscribe
  BY <1>23, TaskTells, SeenTells, SMTT(40) DEF PlatformTypeOK, Placed, Telling,
     Subscribe, Tasks, Clients, Memories, Onlines, Stages
<1>24. CASE Refuse
  BY <1>24, TaskTells, SeenTells, SMTT(40) DEF PlatformTypeOK, Placed, Telling, Refuse,
     Tasks, Clients, Memories, Onlines, Stages
<1>25. CASE Lose
  <2>1. /\ client.link /\ callback = "none" /\ callback' = "lost"
        /\ bits' = bits \ {"ready"} /\ UNCHANGED <<online, task>>
    BY <1>25 DEF Lose
  <2>2. ~client'.link /\ client'.kind = client.kind /\ client' # NoClient
    BY <1>25, LinkDoes DEF Lose, PlatformTypeOK, Placed, Clients, NoClient
  <2>3. /\ seen'.told = seen.told /\ (seen'.blinked <=> seen.blinked)
        /\ seen'.raced <=> seen.raced \/ task.at \in {"go-online", "tell"}
    BY <1>25 DEF Lose, PlatformTypeOK, Memories
  <2>4. QED
    BY <2>1, <2>2, <2>3 DEF Telling
<1>26. CASE LostOffline
  BY <1>26, TaskTells, SeenTells, SMTT(40) DEF PlatformTypeOK, Placed, Telling,
     LostOffline, Offline, Tasks, Clients, Memories, Onlines, Stages
<1>27. CASE LostTell
  BY <1>27, TaskTells, SeenTells, SMTT(40) DEF PlatformTypeOK, Placed, Telling,
     LostTell, Told, Tasks, Clients, Memories, Onlines, Stages
<1>28. CASE Grant
  BY <1>28, TaskTells, SeenTells, SMTT(40) DEF PlatformTypeOK, Placed, Telling, Grant,
     Tasks, Clients, Memories, Onlines, Stages
<1>29. CASE Acknowledged
  BY <1>29, TaskTells, SeenTells, SMTT(40) DEF PlatformTypeOK, Placed, Telling,
     Acknowledged, Tasks, Clients, Memories, Onlines, Stages
<1>30. CASE Unbind
  <2>1. UNCHANGED <<client, bits, online, task, seen>>
    BY <1>30 DEF Unbind
  <2>2. \/ UNCHANGED callback
        \/ client.link /\ callback = "none" /\ callback' = "unbind"
    BY <1>30 DEF Unbind
  <2>3. CASE UNCHANGED callback
    BY <2>1, <2>3 DEF Telling
  <2>4. CASE client.link /\ callback = "none" /\ callback' = "unbind"
    BY <2>1, <2>4 DEF Telling, NoClient
  <2>5. QED
    BY <2>2, <2>3, <2>4
<1>31. CASE UnbindOffline
  BY <1>31, TaskTells, SeenTells, SMTT(40) DEF PlatformTypeOK, Placed, Telling,
     UnbindOffline, Offline, Tasks, Clients, Memories, Onlines, Stages
<1>32. CASE UnbindBit
  BY <1>32, TaskTells, SeenTells, SMTT(40) DEF PlatformTypeOK, Placed, Telling,
     UnbindBit, Tasks, Clients, Memories, Onlines, Stages
<1>33. CASE Retry
  BY <1>33, TaskTells, SeenTells, SMTT(40) DEF PlatformTypeOK, Placed, Telling, Retry,
     Tasks, Clients, Memories, Onlines, Stages
<1>34. CASE Crash
  BY <1>34, TaskTells, SeenTells, SMTT(40) DEF PlatformTypeOK, Placed, Telling, Crash,
     AtStart, NoClient, Tasks, Clients, Memories, Onlines, Stages
<1>35. QED
  BY <1>1, <1>2, <1>3, <1>4, <1>5, <1>6, <1>7, <1>8, <1>9, <1>10, <1>11, <1>12, <1>13,
     <1>14, <1>15, <1>16, <1>17, <1>18, <1>19, <1>20, <1>21, <1>22, <1>23, <1>24, <1>25,
     <1>26, <1>27, <1>28, <1>29, <1>30, <1>31, <1>32, <1>33, <1>34 DEF PlatformNext,
     TurnNext, LoginNext, RequestNext, ServiceNext

-----------------------------------------------------------------------------

PlatformInv == PlatformTypeOK /\ Placed /\ Stored /\ Paused /\ Fresh /\ Telling

LEMMA InitInv ==
    ASSUME PlatformAssumption, PlatformInit
    PROVE  PlatformInv
<1>1. 0 \in Identities
  BY DEF PlatformAssumption, Identities
<1>2. client \in Clients /\ online \in Onlines /\ caller \in Callers
  BY <1>1 DEF PlatformInit, NoClient, Clients, Onlines, Callers
<1>3. task \in Tasks
  BY <1>1 DEF PlatformInit, AtStart, Tasks, Stages, Bits, Requests
<1>4. cloud \in Clouds
  BY <1>1 DEF PlatformInit, Clouds
<1>5. seen \in Memories
  BY DEF PlatformInit, Memories
<1>6. may \in SurroundingKinds
  BY DEF PlatformInit, PlatformAssumption
<1>7. requests \in Seq(Requests) /\ Len(requests) <= QueueSize
  BY DEF PlatformInit, PlatformAssumption
<1>8. PlatformTypeOK
  BY <1>1, <1>2, <1>3, <1>4, <1>5, <1>6, <1>7 DEF PlatformInit, PlatformTypeOK
<1>9. Placed
  BY DEF PlatformInit, Placed, AtStart
<1>10. Stored
  BY DEF PlatformInit, Stored, AtStart
<1>11. Paused
  BY DEF PlatformInit, Paused, AtStart
<1>12. Fresh
  BY DEF PlatformInit, Fresh, AtStart
<1>13. Telling
  BY DEF PlatformInit, Telling, AtStart, NoClient
<1>14. QED
  BY <1>8, <1>9, <1>10, <1>11, <1>12, <1>13 DEF PlatformInv

LEMMA StepInv ==
    ASSUME PlatformAssumption, PlatformInv, [PlatformNext]_platformVars
    PROVE  PlatformInv'
<1>1. CASE PlatformNext
  <2>1. PlatformTypeOK'
    BY <1>1, TypeStep DEF PlatformInv
  <2>2. Placed'
    BY <1>1, PlacedStep DEF PlatformInv
  <2>3. Stored'
    BY <1>1, StoredStep DEF PlatformInv
  <2>4. Paused'
    BY <1>1, PausedStep DEF PlatformInv
  <2>5. Fresh'
    BY <1>1, <2>1, FreshStep DEF PlatformInv
  <2>6. Telling'
    BY <1>1, <2>1, TellingStep DEF PlatformInv
  <2>7. QED
    BY <2>1, <2>2, <2>3, <2>4, <2>5, <2>6 DEF PlatformInv
<1>2. CASE UNCHANGED platformVars
  BY <1>2 DEF platformVars, PlatformInv, PlatformTypeOK, Placed, Stored, Paused,
     Fresh, Good, Telling
<1>3. QED
  BY <1>1, <1>2

LEMMA AlwaysInv == PlatformSpec => []PlatformInv
<1>1. PlatformInit => PlatformInv
  BY InitInv, PlatformAssumption
<1>2. PlatformInv /\ [PlatformNext]_platformVars => PlatformInv'
  BY StepInv, PlatformAssumption
<1>3. QED
  BY <1>1, <1>2, PTL DEF PlatformSpec

\* The variables of the platform task, its callbacks and its callers hold what their
\* types allow, and no more than QueueSize requests wait.
THEOREM PlatformTypes == PlatformSpec => []PlatformTypeOK
<1>1. PlatformInv => PlatformTypeOK
  BY DEF PlatformInv
<1>2. QED
  BY <1>1, AlwaysInv, PTL

\* Whatever restarts, losses and failures come between the write to flash and the
\* acknowledgement, no grant is taken for accepted that flash does not hold.
THEOREM AcknowledgedIsStored == PlatformSpec => []AckedIsStored
<1>1. PlatformInv => AckedIsStored
  BY DEF PlatformInv, Stored, AckedIsStored
<1>2. QED
  BY <1>1, AlwaysInv, PTL

\* A device without a client that nobody is to start has had a startup fail, or its token
\* refreshed too soon.
THEOREM NoPauseWithoutCause == PlatformSpec => []PausedForCause
<1>1. PlatformInv => PausedForCause
  BY DEF PlatformInv, Paused, PausedForCause, At
<1>2. QED
  BY <1>1, AlwaysInv, PTL

\* As long as no outage has come between the two looks of platform_request(), a request
\* is answered as one of the identity it was made with, or with an error.
THEOREM RequestsKeepIdentity == PlatformSpec => []AnsweredAsItself
<1>1. PlatformInv => AnsweredAsItself
  BY DEF PlatformInv, Fresh, AnsweredAsItself
<1>2. QED
  BY <1>1, AlwaysInv, PTL

\* Between two turns the device is online only with its client connected, and the
\* control task has been told so, unless the connection was lost between the task's
\* look at the bits and its effect, or lost and found again within one turn.
THEOREM OnlineAsTold == PlatformSpec => []OnlineIsTold
<1>1. PlatformInv => OnlineIsTold
  BY DEF PlatformInv, Telling, OnlineIsTold, At
<1>2. QED
  BY <1>1, AlwaysInv, PTL
=============================================================================
