----------------------------- MODULE C3Platform -----------------------------
(***************************************************************************)
(* The platform connection of the ESP32-C3 example:                        *)
(*   components/demo_platform/platform.c, and of platform_network.c the    *)
(*   identity kept in flash                                                *)
(*                                                                         *)
(* One task binds the device, logs it in, keeps it online and makes its    *)
(* requests.  The MQTT client's task calls back in the middle of that, and *)
(* the control task hands in requests: the three meet in event bits,       *)
(* atomic variables and a queue, so that every access to one of those is a *)
(* step.  Only flash survives a restart.                                   *)
(*                                                                         *)
(* An identity is the number of the grant that brought it.                 *)
(***************************************************************************)
EXTENDS Integers, Sequences

CONSTANTS
    MaxGrants,      \* identities the service grants in a behaviour
    QueueSize,      \* length of s_requests (2)
    Surroundings    \* what the environment of one behaviour may do, and how often

SurroundingKinds ==
    [crashes : Nat,         \* restarts
     losses : Nat,          \* of the broker's connection
     refusals : Nat,        \* of a token, by broker or service
     unbinds : Nat,         \* of the device, by its user
     requests : Nat,        \* platform_request()
     retries : Nat,         \* platform_retry()
     faults : Nat]          \* failures of flash, clock, HTTP or memory

ASSUME PlatformAssumption ==
    /\ MaxGrants \in Nat
    /\ QueueSize \in Nat \ {0}
    /\ Surroundings \subseteq SurroundingKinds

VARIABLES
    flash,      \* the identity in NVS, 0 for none
    identity,   \* s_identity
    granted,    \* s_granted
    client,     \* s_mqtt, s_temp and what the broker knows of it
    bits,       \* s_events
    online,     \* s_online and s_epoch
    retry,      \* s_retry
    task,       \* platform_task(): its place and what it has read
    callback,   \* mqtt_event(): what it has still to do
    caller,     \* platform_request(): what it has still to do
    requests,   \* s_requests
    cloud,      \* the service
    may,        \* what the environment may still do
    seen        \* what the properties remember

platformVars == <<flash, identity, granted, client, bits, online, retry, task,
                  callback, caller, requests, cloud, may, seen>>

Identities == 0 .. MaxGrants
Bits       == {"ready", "grant", "unbound", "auth"}

NoClient == [kind |-> "none", link |-> FALSE]
Requests == [epoch : Nat, identity : Identities]

Stages == {"load", "top", "unbound?", "refresh?", "login?", "login", "report",
           "await-ready", "await-grant", "save", "update", "await-ack", "token",
           "announce", "go-online", "tell", "receive", "http", "answer"}

Clients  == [kind : {"none", "temporary", "own"}, link : BOOLEAN]
Onlines  == [is : BOOLEAN, epoch : Nat]
Callers  == [at : {"rest", "epoch"}, identity : Identities, epoch : Nat]
Tasks    == [at : Stages, bits : SUBSET Bits, announced : BOOLEAN,
             then : {"login", "token"}, request : Requests]
Clouds   == [granted : Identities,      \* the last grant
             bound   : BOOLEAN,         \* there has been no unbinding since
             ack     : Identities,      \* an acknowledgement on its way
             acked   : Identities]      \* the last grant acknowledged
Memories == [told    : {"none", "online", "offline", "unbound"},
             raced   : BOOLEAN,     \* lost between a look at the bits and its effect
             blinked : BOOLEAN,     \* lost and found again within one turn
             cause   : BOOLEAN,     \* a reason to wait for platform_retry()
             gap     : BOOLEAN,     \* offline between is_online() and the epoch
             mixed   : BOOLEAN]     \* a request answered as another identity's

PlatformTypeOK ==
    /\ flash \in Identities /\ identity \in Identities /\ granted \in Identities
    /\ client \in Clients /\ bits \subseteq Bits
    /\ online \in Onlines /\ retry \in BOOLEAN
    /\ task \in Tasks
    /\ callback \in {"none", "lost", "lost-offline", "unbind", "unbind-offline"}
    /\ caller \in Callers
    /\ requests \in Seq(Requests) /\ Len(requests) <= QueueSize
    /\ cloud \in Clouds /\ may \in SurroundingKinds /\ seen \in Memories

Budget(kind) == may[kind] > 0 /\ may' = [may EXCEPT ![kind] = @ - 1]
Fault        == Budget("faults")

------------------------------------------------------------------------------
(* What the tasks share                                                    *)

\* Mutant: requests made before the device went offline stay good.
OfflineSameEpoch(o) == [o EXCEPT !.is = FALSE]

\* offline()
Offline(o) == IF o.is THEN [is |-> FALSE, epoch |-> o.epoch + 1] ELSE o

\* emit() of PLATFORM_ONLINE, PLATFORM_OFFLINE and PLATFORM_UNBOUND
Told(s, what) == [s EXCEPT !.told = what]

\* mqtt_stop(), which waits for the callback to return; an acknowledgement that has not
\* left is lost with the client.
MqttStop ==
    /\ callback = "none"
    /\ client' = NoClient
    /\ online' = Offline(online)
    /\ cloud' = [cloud EXCEPT !.ack = 0]

StoppedBits == bits \ {"ready", "auth"}

\* mqtt_start()
MqttStart(kind) ==
    /\ client' = [kind |-> kind, link |-> FALSE]
    /\ bits' = {}

\* It fails before it has cleared the bits or after, if it is reached at all.
StartFails ==
    /\ bits' \in {bits, {}}
    /\ UNCHANGED client

At(stage)        == task.at = stage
GoesTo(stage)    == task' = [task EXCEPT !.at = stage]
Goes(from, to)   == At(from) /\ GoesTo(to)

\* The startup ends without a connection, until someone calls platform_retry().
Pause == GoesTo("announce") /\ seen' = [seen EXCEPT !.cause = TRUE]

------------------------------------------------------------------------------
(* platform_task(): the turn                                               *)

Load ==
    /\ Goes("load", "top")
    /\ identity' = flash
    /\ retry' = TRUE
    /\ seen' = [seen EXCEPT !.cause = FALSE]
    /\ UNCHANGED <<flash, granted, client, bits, online, callback, caller, requests,
                   cloud, may>>

ReadBits ==
    /\ At("top")
    /\ task' = [task EXCEPT !.at = "unbound?", !.bits = bits]
    /\ UNCHANGED <<flash, identity, granted, client, bits, online, retry, callback,
                   caller, requests, cloud, may, seen>>

\* Mutant: a device that was unbound waits to be told to bind again.
UnboundWaits ==
    /\ Goes("unbound?", "refresh?")
    /\ IF "unbound" \in task.bits
       THEN /\ MqttStop
            /\ bits' = StoppedBits \ {"unbound"}
            /\ seen' = [Told(seen, "unbound") EXCEPT !.cause = FALSE]
       ELSE UNCHANGED <<client, online, cloud, bits, seen>>
    /\ UNCHANGED <<flash, identity, granted, retry, callback, caller, requests, may>>

\* The acknowledgement of the unbinding has been given its time.
Unbound ==
    /\ At("unbound?")
    /\ IF "unbound" \in task.bits
       THEN /\ MqttStop
            /\ bits' = StoppedBits \ {"unbound"}
            /\ retry' = TRUE
            /\ seen' = [Told(seen, "unbound") EXCEPT !.cause = FALSE]
            /\ task' = [task EXCEPT !.at = "refresh?", !.announced = FALSE]
       ELSE GoesTo("refresh?") /\ UNCHANGED <<client, online, cloud, bits, retry, seen>>
    /\ UNCHANGED <<flash, identity, granted, callback, caller, requests, may>>

\* A token that was refused, or is about to expire: there is no new attempt if the last
\* refresh, or the start of the device, was less than five seconds ago.
Refresh ==
    /\ At("refresh?")
    /\ client # NoClient
    /\ \/ "auth" \in task.bits /\ UNCHANGED may
       \/ Budget("refusals")
    /\ MqttStop
    /\ bits' = StoppedBits
    /\ \E recent \in BOOLEAN :
           /\ retry' = (retry \/ ~recent)
           /\ seen' = [Told(seen, "offline") EXCEPT !.cause = recent]
    /\ task' = [task EXCEPT !.at = "login?", !.announced = FALSE]
    /\ UNCHANGED <<flash, identity, granted, callback, caller, requests>>

NoRefresh ==
    /\ Goes("refresh?", "login?")
    /\ client = NoClient \/ "auth" \notin task.bits
    /\ UNCHANGED <<flash, identity, granted, client, bits, online, retry, callback,
                   caller, requests, cloud, may, seen>>

\* The clock is set and the services are known, or the startup pauses.
Startup ==
    /\ At("login?")
    /\ IF client = NoClient /\ retry
       THEN /\ retry' = FALSE
            /\ \/ GoesTo("login") /\ UNCHANGED <<may, seen>>
               \/ Fault /\ Pause
       ELSE GoesTo("announce") /\ UNCHANGED <<retry, may, seen>>
    /\ UNCHANGED <<flash, identity, granted, client, bits, online, callback, caller,
                   requests, cloud>>

\* s_online follows what was read of the bits, which may have changed since.
Announce ==
    /\ At("announce")
    /\ IF client.kind = "own" /\ "ready" \in bits /\ bits \cap {"unbound", "auth"} = {}
       THEN GoesTo("go-online")
       ELSE task' = [task EXCEPT !.at = "receive", !.announced = FALSE]
    /\ UNCHANGED <<flash, identity, granted, client, bits, online, retry, callback,
                   caller, requests, cloud, may, seen>>

GoOnline ==
    /\ Goes("go-online", IF task.announced THEN "receive" ELSE "tell")
    /\ online' = [online EXCEPT !.is = TRUE]
    /\ UNCHANGED <<flash, identity, granted, client, bits, retry, callback, caller,
                   requests, cloud, may, seen>>

TellOnline ==
    /\ At("tell")
    /\ task' = [task EXCEPT !.at = "receive", !.announced = TRUE]
    /\ seen' = Told(seen, "online")
    /\ UNCHANGED <<flash, identity, granted, client, bits, online, retry, callback,
                   caller, requests, cloud, may>>

------------------------------------------------------------------------------
(* login() and provision()                                                 *)

\* The service knows the identity as long as its user has not unbound it.
Known == identity = cloud.granted /\ cloud.bound

Provision(then) == task' = [task EXCEPT !.at = "report", !.then = then]

\* authenticate(false), of a device that has an identity: it is logged in, refused for
\* good, or something else goes wrong.
Login ==
    /\ At("login")
    /\ \/ identity = 0 /\ Provision("login")
          /\ UNCHANGED <<client, bits, may, seen>>
       \/ identity # 0 /\ Known /\ MqttStart("own") /\ GoesTo("announce")
          /\ UNCHANGED <<may, seen>>
       \/ identity # 0 /\ ~Known /\ Provision("token") /\ seen' = Told(seen, "unbound")
          /\ UNCHANGED <<client, bits, may>>
       \/ identity # 0 /\ Fault /\ Pause /\ StartFails
    /\ UNCHANGED <<flash, identity, granted, online, retry, callback, caller, requests,
                   cloud>>

\* authenticate(true), and a client with the temporary identity it has got
Report ==
    /\ At("report")
    /\ \/ MqttStart("temporary") /\ GoesTo("await-ready") /\ UNCHANGED <<may, seen>>
       \/ Fault /\ Pause /\ StartFails
    /\ UNCHANGED <<flash, identity, granted, online, retry, callback, caller, requests,
                   cloud>>

StopAndPause ==
    /\ MqttStop /\ bits' = StoppedBits
    /\ Pause

\* Twenty seconds for the subscription, and some minutes for the user to bind
Await(from, bit, to) ==
    /\ At(from)
    /\ \/ bit \in bits /\ GoesTo(to) /\ UNCHANGED <<client, online, cloud, bits, seen, may>>
       \/ bit \notin bits /\ "auth" \in bits /\ StopAndPause /\ UNCHANGED may
       \/ bit \notin bits /\ Fault /\ StopAndPause
    /\ UNCHANGED <<flash, identity, granted, retry, callback, caller, requests>>

AwaitReady == Await("await-ready", "ready", "await-grant")
AwaitGrant == Await("await-grant", "grant", "save")

\* Mutant: the grant is acknowledged before it is stored.
SaveLater ==
    /\ Goes("save", "update")
    /\ cloud' = [cloud EXCEPT !.ack = granted]
    /\ UNCHANGED <<flash, identity, granted, client, bits, online, retry, callback,
                   caller, requests, may, seen>>

\* platform_identity_save(): a failure may have written or not.
Save ==
    /\ At("save")
    /\ \/ /\ flash' = granted /\ GoesTo("update")
          /\ UNCHANGED <<granted, client, online, cloud, bits, may, seen>>
       \/ /\ flash' \in {flash, granted} /\ granted' = 0
          /\ Fault /\ StopAndPause
    /\ UNCHANGED <<identity, retry, callback, caller, requests>>

\* identity_update() and publish_ack()
Update ==
    /\ Goes("update", "await-ack")
    /\ identity' = granted
    /\ cloud' = [cloud EXCEPT !.ack = granted]
    /\ UNCHANGED <<flash, granted, client, bits, online, retry, callback, caller,
                   requests, may, seen>>

\* wait_ack(): when five seconds have passed, what is on its way is lost with the client,
\* be it the acknowledgement or the PUBACK of one that arrived.
AwaitAck ==
    /\ At("await-ack")
    /\ MqttStop /\ bits' = StoppedBits
    /\ \/ cloud.ack = 0 /\ GoesTo(task.then) /\ UNCHANGED <<may, seen>>
       \/ Fault /\ Pause
    /\ granted' = 0
    /\ UNCHANGED <<flash, identity, retry, callback, caller, requests>>

\* authenticate(false) once more, for a device that was bound again
Token ==
    /\ At("token")
    /\ \/ Known /\ MqttStart("own") /\ GoesTo("announce") /\ UNCHANGED <<may, seen>>
       \/ ~Known /\ Pause /\ UNCHANGED <<client, bits, may>>
       \/ Fault /\ Pause /\ StartFails
    /\ UNCHANGED <<flash, identity, granted, online, retry, callback, caller, requests,
                   cloud>>

------------------------------------------------------------------------------
(* Requests                                                                *)

\* platform_request(): the device is online ...
Ask ==
    /\ caller.at = "rest" /\ online.is
    /\ Budget("requests")
    /\ caller' = [at |-> "epoch", identity |-> identity, epoch |-> online.epoch]
    /\ UNCHANGED <<flash, identity, granted, client, bits, online, retry, task,
                   callback, requests, cloud, seen>>

\* ... and the epoch is that of now.
Enqueue ==
    /\ caller.at = "epoch"
    /\ caller' = [caller EXCEPT !.at = "rest"]
    /\ requests' = IF Len(requests) = QueueSize THEN requests
                   ELSE Append(requests, [epoch |-> online.epoch,
                                          identity |-> caller.identity])
    /\ seen' = [seen EXCEPT !.gap = @ \/ online.epoch # caller.epoch]
    /\ UNCHANGED <<flash, identity, granted, client, bits, online, retry, task,
                   callback, cloud, may>>

Current(r) == online.is /\ r.epoch = online.epoch

\* The queue is waited on for a tenth of a second; a stale request is answered at once.
Receive ==
    /\ At("receive")
    /\ \/ requests = <<>> /\ GoesTo("top") /\ UNCHANGED requests
       \/ /\ requests # <<>>
          /\ requests' = Tail(requests)
          /\ task' = [task EXCEPT !.request = Head(requests),
                                  !.at = IF Current(Head(requests)) THEN "http" ELSE "top"]
    /\ UNCHANGED <<flash, identity, granted, client, bits, online, retry, callback,
                   caller, cloud, may, seen>>

\* process_request(): the service may refuse the token, or know that the device has been
\* unbound.
Http ==
    /\ Goes("http", "answer")
    /\ \/ UNCHANGED <<bits, online, may>>
       \/ Budget("refusals") /\ bits' = bits \cup {"auth"} /\ UNCHANGED online
       \/ ~Known /\ bits' = bits \cup {"unbound"} /\ online' = Offline(online)
          /\ UNCHANGED may
    /\ UNCHANGED <<flash, identity, granted, client, retry, callback, caller, requests,
                   cloud, seen>>

\* A request made before the device was offline is answered with an error.
AnswerRequest ==
    /\ Goes("answer", "top")
    /\ seen' = [seen EXCEPT !.mixed =
                   @ \/ (Current(task.request) /\ task.request.identity # identity)]
    /\ UNCHANGED <<flash, identity, granted, client, bits, online, retry, callback,
                   caller, requests, cloud, may>>

------------------------------------------------------------------------------
(* The MQTT client and the service                                         *)

\* CONNECTED and every SUBSCRIBED after it
Subscribe ==
    /\ client # NoClient /\ ~client.link /\ callback = "none"
    /\ client' = [client EXCEPT !.link = TRUE]
    /\ bits' = bits \cup {"ready"}
    /\ seen' = [seen EXCEPT !.blinked = @ \/ task.announced]
    /\ UNCHANGED <<flash, identity, granted, online, retry, task, callback, caller,
                   requests, cloud, may>>

\* A token or a subscription is refused.
Refuse ==
    /\ client # NoClient /\ callback = "none"
    /\ Budget("refusals")
    /\ bits' = bits \cup {"auth"}
    /\ UNCHANGED <<flash, identity, granted, client, online, retry, task, callback,
                   caller, requests, cloud, seen>>

\* DISCONNECTED clears MQTT_READY, ...
Lose ==
    /\ client.link /\ callback = "none"
    /\ Budget("losses")
    /\ client' = [client EXCEPT !.link = FALSE]
    /\ bits' = bits \ {"ready"}
    /\ callback' = "lost"
    /\ seen' = [seen EXCEPT !.raced = @ \/ task.at \in {"go-online", "tell"}]
    /\ UNCHANGED <<flash, identity, granted, online, retry, task, caller, requests, cloud>>

\* Mutant: a lost connection is told, but leaves the device online.
LostKeepsOnline ==
    /\ callback = "lost" /\ callback' = "lost-offline"
    /\ UNCHANGED <<flash, identity, granted, client, bits, online, retry, task, caller,
                   requests, cloud, may, seen>>

\* ... takes the device offline ...
LostOffline ==
    /\ callback = "lost" /\ callback' = "lost-offline"
    /\ online' = Offline(online)
    /\ UNCHANGED <<flash, identity, granted, client, bits, retry, task, caller,
                   requests, cloud, may, seen>>

\* ... and tells, unless the client is a temporary one.
LostTell ==
    /\ callback = "lost-offline" /\ callback' = "none"
    /\ seen' = IF client.kind = "own" THEN Told(seen, "offline") ELSE seen
    /\ UNCHANGED <<flash, identity, granted, client, bits, online, retry, task, caller,
                   requests, cloud, may>>

\* The user binds the device: complete_message() of an auth_grant.  Only the first counts;
\* one without an identity confirms the device's own.
Grant ==
    /\ client = [kind |-> "temporary", link |-> TRUE] /\ callback = "none"
    /\ \/ cloud.granted < MaxGrants
          /\ cloud' = [cloud EXCEPT !.granted = @ + 1, !.bound = TRUE]
       \/ cloud.granted # 0 /\ identity = cloud.granted
          /\ cloud' = [cloud EXCEPT !.bound = TRUE]
    /\ IF "grant" \in bits THEN UNCHANGED <<granted, bits>>
       ELSE granted' = cloud'.granted /\ bits' = bits \cup {"grant"}
    /\ UNCHANGED <<flash, identity, client, online, retry, task, callback, caller,
                   requests, may, seen>>

\* The acknowledgement of a grant reaches the service, and PUBLISHED the device.
Acknowledged ==
    /\ cloud.ack # 0 /\ client.link
    /\ cloud' = [cloud EXCEPT !.ack = 0, !.acked = cloud.ack]
    /\ UNCHANGED <<flash, identity, granted, client, bits, online, retry, task,
                   callback, caller, requests, may, seen>>

\* The user unbinds the device, which may hear of it.
Unbind ==
    /\ cloud.bound /\ cloud.granted # 0
    /\ Budget("unbinds")
    /\ cloud' = [cloud EXCEPT !.bound = FALSE]
    /\ \/ client = [kind |-> "own", link |-> TRUE] /\ callback = "none"
          /\ "unbound" \notin bits /\ callback' = "unbind"
       \/ UNCHANGED callback
    /\ UNCHANGED <<flash, identity, granted, client, bits, online, retry, task, caller,
                   requests, seen>>

\* complete_message() of an unbind: offline() and, the acknowledgement sent, the bit
UnbindOffline ==
    /\ callback = "unbind" /\ callback' = "unbind-offline"
    /\ online' = Offline(online)
    /\ UNCHANGED <<flash, identity, granted, client, bits, retry, task, caller,
                   requests, cloud, may, seen>>

UnbindBit ==
    /\ callback = "unbind-offline" /\ callback' = "none"
    /\ bits' = bits \cup {"unbound"}
    /\ UNCHANGED <<flash, identity, granted, client, online, retry, task, caller,
                   requests, cloud, may, seen>>

\* platform_retry()
Retry ==
    /\ Budget("retries")
    /\ retry' = TRUE
    /\ seen' = [seen EXCEPT !.cause = FALSE]
    /\ UNCHANGED <<flash, identity, granted, client, bits, online, task, callback,
                   caller, requests, cloud>>

AtStart == [at |-> "load", bits |-> {}, announced |-> FALSE,
            then |-> "login", request |-> [epoch |-> 0, identity |-> 0]]

\* A restart keeps what is in flash, and what is in the service.
Crash ==
    /\ Budget("crashes")
    /\ identity' = 0 /\ granted' = 0
    /\ client' = NoClient
    /\ bits' = {}
    /\ online' = [is |-> FALSE, epoch |-> 0]
    /\ retry' = FALSE
    /\ task' = AtStart
    /\ callback' = "none"
    /\ caller' = [at |-> "rest", identity |-> 0, epoch |-> 0]
    /\ requests' = <<>>
    /\ cloud' = [cloud EXCEPT !.ack = 0]
    /\ seen' = [Told(seen, "none") EXCEPT !.cause = FALSE]
    /\ UNCHANGED flash

------------------------------------------------------------------------------

PlatformInit ==
    /\ flash = 0 /\ identity = 0 /\ granted = 0
    /\ client = NoClient
    /\ bits = {}
    /\ online = [is |-> FALSE, epoch |-> 0]
    /\ retry = FALSE
    /\ task = AtStart
    /\ callback = "none"
    /\ caller = [at |-> "rest", identity |-> 0, epoch |-> 0]
    /\ requests = <<>>
    /\ cloud = [granted |-> 0, bound |-> FALSE, ack |-> 0, acked |-> 0]
    /\ may \in Surroundings
    /\ seen = [told |-> "none", raced |-> FALSE, blinked |-> FALSE, cause |-> FALSE,
               gap |-> FALSE, mixed |-> FALSE]

TurnNext ==
    \/ Load \/ ReadBits \/ Unbound \/ Refresh \/ NoRefresh \/ Startup
    \/ Announce \/ GoOnline \/ TellOnline

LoginNext ==
    \/ Login \/ Report \/ AwaitReady \/ AwaitGrant \/ Save \/ Update \/ AwaitAck
    \/ Token

RequestNext == Ask \/ Enqueue \/ Receive \/ Http \/ AnswerRequest

ServiceNext ==
    \/ Subscribe \/ Refuse \/ Lose \/ LostOffline \/ LostTell
    \/ Grant \/ Acknowledged \/ Unbind \/ UnbindOffline \/ UnbindBit

PlatformNext ==
    TurnNext \/ LoginNext \/ RequestNext \/ ServiceNext \/ Retry \/ Crash

PlatformSpec == PlatformInit /\ [][PlatformNext]_platformVars

------------------------------------------------------------------------------
(* Properties                                                              *)

\* A grant that the service takes for accepted is in flash, or a later one is: wherever
\* the device restarts, it comes back as the device it said it is.
AckedIsStored == cloud.acked <= flash

\* Between two turns the device is online only while its client is connected, and the
\* control task has last been told what is so, unless the connection was lost between
\* the task's look at the bits and what it did of it, or was lost and back in one turn.
OnlineIsTold ==
    /\ online.is /\ ~client.link => seen.raced \/ callback = "lost"
    /\ At("top") /\ callback = "none" /\ bits \cap {"unbound", "auth"} = {} =>
           /\ online.is /\ seen.told # "online" => seen.blinked \/ seen.raced
           /\ ~online.is /\ seen.told = "online" => seen.raced

\* The device is left without a client and without anybody to start one only after a
\* startup that failed or a token refreshed soon after the last or after the start.
PausedForCause ==
    At("top") /\ client = NoClient /\ ~retry => seen.cause

\* A request is never answered as one of another identity than it was made with, unless
\* the device went offline between the two looks of platform_request().
AnsweredAsItself == seen.mixed => seen.gap
=============================================================================
