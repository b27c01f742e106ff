------------------------ MODULE S3Signalling_proofs ------------------------
(***************************************************************************)
(* The signalling of the ESP32-S3 example, for any number of requests,     *)
(* calls, presses and losses:                                              *)
(*                                                                         *)
(* S3ActiveCall.  Owned follows a request's number from the record to the  *)
(* task that began it, to the worker and to the service; Paid is an        *)
(* account of the presses, each of which is still in the key's task's      *)
(* hands, remembered, in main()'s hands, or spent on a call.               *)
(*                                                                         *)
(* S3Lookup.  The worker connects to its own answer or to the cached one,  *)
(* whatever callbacks come late.                                           *)
(*                                                                         *)
(* S3Socket.  The buffer has what was sent of one message, from its first  *)
(* unit on, and the cache has what was said of one user.                   *)
(***************************************************************************)
EXTENDS S3ActiveCall, S3Lookup, S3Socket, FiniteSetTheorems, SequenceTheorems, TLAPS

\* A request on its way from the record to the worker was begun, what the worker
\* writes it has seen wanted to the last, and one dropped before that is an old one.
Owned ==
    /\ notified # 0 => notified \in past.begun
    /\ \A t \in Starters : doing[t].at = "notify" => doing[t].seq \in past.begun
    /\ worker.at # "rest" => worker.seq \in past.begun
    /\ worker.at \in {"posting", "reply"} => worker.seq \in past.checked
    /\ past.posted \subseteq past.begun /\ past.posted \subseteq past.checked
    /\ \A q \in past.early : q < call.seq /\ q \notin past.checked
    /\ call.state = "waiting" => call.seq \in past.accepted

\* Where a task is on its way to a call of its own.
Trying == {"connected?", "ready?", "connected again?", "ready again?", "begin"}

\* A press that the key's task has not done with, and one that main() has, in its hands
\* or remembered.  What main() finds remembered when it has begun a call it will clear.
KeyTries  == Trying \cup {"answer?", "closing?", "idle?", "busy?"}
MainTries == Trying \cup {"free?"}

KeyOwes  == IF doing["boot"].at \in KeyTries THEN 1 ELSE 0
MainOwes ==
    IF doing["main"].at \in MainTries \/ (doing["main"].at = "rest" /\ pending)
    THEN 1 ELSE 0

MainPlaces == Trying \cup {"rest", "free?", "notify", "clear"}

\* What was begun and what is owed has been pressed.
Paid ==
    /\ IsFiniteSet(past.begun)
    /\ doing["main"].at \in MainPlaces
    /\ Cardinality(past.begun) + KeyOwes + MainOwes <= past.pressed

CallInv == CallTypeOK /\ Owned /\ Paid

------------------------------------------------------------------------------
(* What the helpers make of the records.                                   *)

LEMMA CallTurns ==
    ASSUME NEW c \in Calls, NEW state \in {"idle", "requesting", "waiting"},
           NEW d \in {"none", "running", "passed"}
    PROVE  /\ [c EXCEPT !.state = state, !.deadline = d] \in Calls
           /\ [c EXCEPT !.state = state, !.deadline = d].state = state
           /\ [c EXCEPT !.state = state, !.deadline = d].seq = c.seq
<1>1. [c EXCEPT !.state = state, !.deadline = d] \in Calls
  BY ZenonT(60) DEF Calls
<1>2. QED
  BY <1>1 DEF Calls

LEMMA CallExpires ==
    ASSUME NEW c \in Calls, NEW d \in {"none", "running", "passed"}
    PROVE  /\ [c EXCEPT !.deadline = d] \in Calls
           /\ [c EXCEPT !.deadline = d].state = c.state
           /\ [c EXCEPT !.deadline = d].seq = c.seq
<1>1. [c EXCEPT !.deadline = d] \in Calls
  BY ZenonT(60) DEF Calls
<1>2. QED
  BY <1>1 DEF Calls

LEMMA CallCounts ==
    ASSUME NEW c \in Calls, NEW n \in Nat
    PROVE  [c EXCEPT !.seq = n] \in Calls /\ [c EXCEPT !.seq = n].seq = n
<1>1. [c EXCEPT !.seq = n] \in Calls
  BY ZenonT(60) DEF Calls
<1>2. QED
  BY <1>1 DEF Calls

LEMMA SetIdleDoes ==
    ASSUME NEW c \in Calls
    PROVE  SetIdle(c) \in Calls /\ SetIdle(c).state = "idle" /\ SetIdle(c).seq = c.seq
BY CallTurns DEF SetIdle

LEMMA DropDoes ==
    ASSUME NEW c \in Calls
    PROVE  /\ Drop(c) \in Calls /\ Drop(c).state = "idle"
           /\ c.state = "idle" => Drop(c) = c
           /\ c.state # "idle" => Drop(c).seq = c.seq + 1
<1>1. c.seq + 1 \in Nat
  BY DEF Calls
<1>2. [c EXCEPT !.seq = @ + 1] \in Calls /\ [c EXCEPT !.seq = @ + 1].seq = c.seq + 1
  BY <1>1, CallCounts
<1>3. QED
  BY <1>2, SetIdleDoes DEF Drop

LEMMA ResetDoes ==
    ASSUME NEW c \in Calls
    PROVE  /\ ResetIfExpired(c) \in Calls
           /\ \/ ResetIfExpired(c) = c
              \/ /\ c.state # "idle" /\ ResetIfExpired(c).state = "idle"
                 /\ ResetIfExpired(c).seq = c.seq + 1
BY DropDoes DEF ResetIfExpired

LEMMA FinishDoes ==
    ASSUME NEW c \in Calls, NEW q, NEW ok \in BOOLEAN
    PROVE  /\ Finish(c, q, ok) \in Calls /\ Finish(c, q, ok).seq = c.seq
           /\ Finish(c, q, ok).state = "waiting" => c.state = "waiting" \/ (ok /\ q = c.seq)
<1>1. "waiting" \in {"idle", "requesting", "waiting"}
  OBVIOUS
<1>2. /\ [c EXCEPT !.state = "waiting", !.deadline = "running"] \in Calls
      /\ [c EXCEPT !.state = "waiting", !.deadline = "running"].seq = c.seq
  BY <1>1, CallTurns
<1>3. QED
  BY <1>2, SetIdleDoes DEF Finish

LEMMA RememberingDoes ==
    ASSUME past \in Pasts, call \in Calls, NEW c
    PROVE  /\ Remembering(c) \in Pasts
           /\ Remembering(c).pressed = past.pressed /\ Remembering(c).begun = past.begun
           /\ Remembering(c).checked = past.checked /\ Remembering(c).posted = past.posted
           /\ Remembering(c).accepted = past.accepted
           /\ \/ Remembering(c).early = past.early
              \/ /\ Remembering(c).early = past.early \cup {call.seq}
                 /\ call.seq # c.seq /\ call.seq \notin past.checked
<1>1. past.early \cup {call.seq} \in SUBSET Nat
  BY DEF Pasts, Calls
<1>2. /\ [past EXCEPT !.early = @ \cup {call.seq}] \in Pasts
      /\ [past EXCEPT !.early = @ \cup {call.seq}].pressed = past.pressed
      /\ [past EXCEPT !.early = @ \cup {call.seq}].begun = past.begun
      /\ [past EXCEPT !.early = @ \cup {call.seq}].checked = past.checked
      /\ [past EXCEPT !.early = @ \cup {call.seq}].posted = past.posted
      /\ [past EXCEPT !.early = @ \cup {call.seq}].accepted = past.accepted
      /\ [past EXCEPT !.early = @ \cup {call.seq}].early = past.early \cup {call.seq}
  BY <1>1 DEF Pasts
<1>3. QED
  BY <1>2 DEF Remembering

\* A field of past that grows
LEMMA PastGrows ==
    ASSUME NEW p \in Pasts, NEW q \in Nat
    PROVE  /\ [p EXCEPT !.begun = @ \cup {q}] \in Pasts
           /\ [p EXCEPT !.checked = @ \cup {q}] \in Pasts
           /\ [p EXCEPT !.posted = @ \cup {q}] \in Pasts
           /\ [p EXCEPT !.accepted = @ \cup {q}] \in Pasts
           /\ [p EXCEPT !.pressed = @ + 1] \in Pasts
<1>1. \A s \in SUBSET Nat : /\ [p EXCEPT !.begun = s] \in Pasts
                            /\ [p EXCEPT !.checked = s] \in Pasts
                            /\ [p EXCEPT !.posted = s] \in Pasts
                            /\ [p EXCEPT !.accepted = s] \in Pasts
  BY ZenonT(60) DEF Pasts
<1>2. \A n \in Nat : [p EXCEPT !.pressed = n] \in Pasts
  BY ZenonT(60) DEF Pasts
<1>3. /\ p.begun \cup {q} \in SUBSET Nat /\ p.checked \cup {q} \in SUBSET Nat
      /\ p.posted \cup {q} \in SUBSET Nat /\ p.accepted \cup {q} \in SUBSET Nat
      /\ p.pressed + 1 \in Nat
  BY DEF Pasts
<1>4. QED
  BY <1>1, <1>2, <1>3

\* A task goes from one place to another, and the other stays where it is.
LEMMA ErrandMoves ==
    ASSUME doing \in [Starters -> Errands], NEW t \in Starters, NEW to \in Stages,
           NEW from, Goes(t, from, to)
    PROVE  /\ doing' \in [Starters -> Errands]
           /\ doing[t].at = from /\ doing'[t].at = to /\ doing'[t].seq = doing[t].seq
           /\ \A u \in Starters \ {t} : doing'[u] = doing[u]
<1>1. [doing[t] EXCEPT !.at = to] \in Errands
  BY ZenonT(60) DEF Errands
<1>2. /\ [doing[t] EXCEPT !.at = to].at = to
      /\ [doing[t] EXCEPT !.at = to].seq = doing[t].seq
  BY DEF Errands
<1>3. doing' = [doing EXCEPT ![t] = [doing[t] EXCEPT !.at = to]]
  BY DEF Goes
<1>4. QED
  BY <1>1, <1>2, <1>3 DEF Goes

LEMMA ClearingGoes ==
    ASSUME NEW t, ClearPending(t)
    PROVE  \/ Goes(t, "clear", "rest") \/ Goes(t, "clear, hang up", "hang up")
           \/ Goes(t, "clear, cancel", "cancel") \/ Goes(t, "clear, reject", "reject?")
<1>1. PICK next \in {<<"clear", "rest">>, <<"clear, hang up", "hang up">>,
                     <<"clear, cancel", "cancel">>, <<"clear, reject", "reject?">>} :
          Goes(t, next[1], next[2])
  BY DEF ClearPending
<1>2. CASE next = <<"clear", "rest">>
  BY <1>1, <1>2
<1>3. CASE next = <<"clear, hang up", "hang up">>
  BY <1>1, <1>3
<1>4. CASE next = <<"clear, cancel", "cancel">>
  BY <1>1, <1>4
<1>5. CASE next = <<"clear, reject", "reject?">>
  BY <1>1, <1>5
<1>6. QED
  BY <1>2, <1>3, <1>4, <1>5

LEMMA BudgetShrinks ==
    ASSUME NEW l \in ScenarioKinds, NEW n \in Nat, NEW s \in SUBSET Strangers
    PROVE  /\ [l EXCEPT !.short = n] \in ScenarioKinds
           /\ [l EXCEPT !.long = n] \in ScenarioKinds
           /\ [l EXCEPT !.drops = n] \in ScenarioKinds
           /\ [l EXCEPT !.strangers = s] \in ScenarioKinds
BY ZenonT(60) DEF ScenarioKinds

LEMMA SessionTurns ==
    ASSUME NEW s \in Sessions, NEW state \in {"idle", "ringing", "busy", "closing"}
    PROVE  [s EXCEPT !.state = state] \in Sessions
BY ZenonT(60) DEF Sessions

------------------------------------------------------------------------------
(* Every step keeps the types.                                             *)

LEMMA ActiveTypeStep ==
    ASSUME CallTypeOK, CallNext
    PROVE  CallTypeOK'
<1> USE DEF CallTypeOK
<1>1. CASE ShortPress
  <2>1. left.short - 1 \in Nat
    BY <1>1 DEF ShortPress, ScenarioKinds
  <2>2. left' \in ScenarioKinds
    BY <1>1, <2>1, BudgetShrinks DEF ShortPress
  <2>3. past' \in Pasts
    BY <1>1, RememberingDoes, PastGrows DEF ShortPress
  <2>4. doing' \in [Starters -> Errands]
    BY <1>1, ErrandMoves DEF ShortPress, Stages, Starters
  <2>5. call' \in Calls
    BY <1>1, ResetDoes DEF ShortPress
  <2>6. QED
    BY <1>1, <2>2, <2>3, <2>4, <2>5 DEF ShortPress
<1>2. CASE LongPress
  <2>1. left.long - 1 \in Nat
    <3>1. left.long \in Nat
      BY DEF ScenarioKinds
    <3>2. left.long > 0
      BY <1>2 DEF LongPress
    <3>3. QED
      BY <3>1, <3>2
  <2>2. left' \in ScenarioKinds
    BY <1>2, <2>1, BudgetShrinks DEF LongPress
  <2>3. past' \in Pasts
    BY <1>2, RememberingDoes DEF LongPress, Becomes
  <2>4. doing' \in [Starters -> Errands]
    BY <1>2, ErrandMoves DEF LongPress, Stages, Starters
  <2>5. call' \in Calls
    BY <1>2, ResetDoes DEF LongPress, Becomes
  <2>6. QED
    BY <1>2, <2>2, <2>3, <2>4, <2>5 DEF LongPress
<1>3. CASE Answer
  <2>1. doing' \in [Starters -> Errands]
    BY <1>3, ErrandMoves DEF Answer, AskSession, Stages, Starters
  <2>2. session' \in Sessions
    BY <1>3, SessionTurns DEF Answer, SessionIs
  <2>3. QED
    BY <1>3, <2>1, <2>2 DEF Answer, AskSession
<1>4. CASE AwaitClose
  <2>1. doing' \in [Starters -> Errands]
    BY <1>4, ErrandMoves DEF AwaitClose, Stages, Starters
  <2>2. QED
    BY <1>4, <2>1 DEF AwaitClose
<1>5. CASE AskIdle
  <2>1. doing' \in [Starters -> Errands]
    BY <1>5, ErrandMoves DEF AskIdle, AskSession, Stages, Starters
  <2>2. QED
    BY <1>5, <2>1 DEF AskIdle, AskSession
<1>6. CASE HangUp
  <2>1. doing' \in [Starters -> Errands]
    BY <1>6, ErrandMoves DEF HangUp, AskSession, Stages, Starters
  <2>2. session' \in Sessions
    BY <1>6, SessionTurns DEF HangUp, SessionIs
  <2>3. QED
    BY <1>6, <2>1, <2>2 DEF HangUp, AskSession
<1>7. CASE AskBusy
  <2>1. doing' \in [Starters -> Errands]
    BY <1>7, ErrandMoves DEF AskBusy, Stages, Starters
  <2>2. call' \in Calls /\ past' \in Pasts
    BY <1>7, ResetDoes, DropDoes, RememberingDoes DEF AskBusy, Becomes
  <2>3. QED
    BY <1>7, <2>1, <2>2 DEF AskBusy
<1>8. CASE CancelRequest
  <2>1. doing' \in [Starters -> Errands]
    BY <1>8, ErrandMoves DEF CancelRequest, Stages, Starters
  <2>2. call' \in Calls /\ past' \in Pasts
    BY <1>8, ResetDoes, DropDoes, RememberingDoes DEF CancelRequest, Becomes
  <2>3. QED
    BY <1>8, <2>1, <2>2 DEF CancelRequest
<1>9. CASE Reject
  <2>1. doing' \in [Starters -> Errands]
    BY <1>9, ErrandMoves DEF Reject, AskSession, Stages, Starters
  <2>2. session' \in Sessions
    BY <1>9, SessionTurns DEF Reject, SessionIs
  <2>3. QED
    BY <1>9, <2>1, <2>2 DEF Reject, AskSession
<1>10. ASSUME NEW t \in Starters, TestConditions(t)
      PROVE  CallTypeOK'
  <2>1. doing' \in [Starters -> Errands]
    BY <1>10, ErrandMoves DEF TestConditions, Test, Stages
  <2>2. QED
    BY <1>10, <2>1 DEF TestConditions, Test
<1>11. ASSUME NEW t \in Starters, BeginRequest(t)
      PROVE  CallTypeOK'
  <2> DEFINE c == ResetIfExpired(call)
  <2>1. c \in Calls /\ c.seq + 1 \in Nat
    BY ResetDoes DEF Calls
  <2>2. CASE c.state # "idle"
    <3>1. [doing[t] EXCEPT !.at = "rest"] \in Errands
      BY ZenonT(60) DEF Errands, Stages
    <3>2. doing' \in [Starters -> Errands]
      BY <1>11, <2>2, <3>1 DEF BeginRequest
    <3>3. QED
      BY <1>11, <2>2, <3>2 DEF BeginRequest
  <2>3. CASE c.state = "idle"
    <3>1. [at |-> "notify", seq |-> c.seq + 1] \in Errands
      BY <2>1 DEF Errands, Stages
    <3>2. doing' \in [Starters -> Errands]
      BY <1>11, <2>3, <3>1 DEF BeginRequest
    <3>3. call' \in Calls
      BY <1>11, <2>1, <2>3 DEF BeginRequest, Begin, Calls
    <3>4. past' \in Pasts
      <4>1. Remembering(c) \in Pasts
        BY RememberingDoes
      <4>2. [Remembering(c) EXCEPT !.begun = @ \cup {c.seq + 1}] \in Pasts
        BY <4>1, <2>1, PastGrows
      <4>3. QED
        BY <1>11, <2>3, <4>2 DEF BeginRequest
    <3>5. QED
      BY <1>11, <2>3, <3>2, <3>3, <3>4 DEF BeginRequest
  <2>4. QED
    BY <2>2, <2>3
<1>12. ASSUME NEW t \in Starters, Notify(t)
      PROVE  CallTypeOK'
  <2>1. doing' \in [Starters -> Errands]
    BY <1>12, ErrandMoves DEF Notify, Stages
  <2>2. doing[t].seq \in Nat
    BY DEF Errands
  <2>3. QED
    BY <1>12, <2>1, <2>2 DEF Notify, Notified
<1>13. ASSUME NEW t \in Starters, ClearPending(t)
      PROVE  CallTypeOK'
  <2>1. doing' \in [Starters -> Errands]
    <3>1. \/ Goes(t, "clear", "rest") \/ Goes(t, "clear, hang up", "hang up")
          \/ Goes(t, "clear, cancel", "cancel") \/ Goes(t, "clear, reject", "reject?")
      BY <1>13, ClearingGoes
    <3>2. {"rest", "hang up", "cancel", "reject?"} \subseteq Stages
      BY DEF Stages
    <3>3. QED
      BY <3>1, <3>2, ErrandMoves
  <2>2. QED
    BY <1>13, <2>1 DEF ClearPending
<1>14. CASE Maintain
  <2>1. doing' \in [Starters -> Errands]
    BY <1>14, ErrandMoves DEF Maintain, Stages, Starters
  <2>2. call' \in Calls /\ past' \in Pasts
    BY <1>14, ResetDoes, DropDoes, RememberingDoes DEF Maintain, Becomes
  <2>3. QED
    BY <1>14, <2>1, <2>2 DEF Maintain
<1>15. CASE ProcessPending
  <2>1. doing' \in [Starters -> Errands]
    BY <1>15, ErrandMoves DEF ProcessPending, Stages, Starters
  <2>2. call' \in Calls /\ past' \in Pasts
    BY <1>15, ResetDoes, DropDoes, RememberingDoes DEF ProcessPending, Becomes
  <2>3. QED
    BY <1>15, <2>1, <2>2 DEF ProcessPending
<1>16. CASE TakeNotified
  <2>1. worker' \in Workers
    BY <1>16 DEF TakeNotified, WorkerGoes, Workers, Checks
  <2>2. QED
    BY <1>16, <2>1 DEF TakeNotified
<1>17. CASE CheckRequest
  <2>1. worker.seq \in Nat /\ NextStage[worker.at] \in Checks \cup {"posting"}
    BY <1>17 DEF CheckRequest, Workers, Checks, NextStage
  <2>2. worker' \in Workers
    <3>1. [at |-> NextStage[worker.at], seq |-> worker.seq] \in Workers
      BY <2>1 DEF Workers
    <3>2. [at |-> "rest", seq |-> 0] \in Workers
      BY DEF Workers
    <3>3. QED
      BY <1>17, <3>1, <3>2 DEF CheckRequest, Finishes, WorkerGoes
  <2>3. call' \in Calls
    BY <1>17, FinishDoes DEF CheckRequest, Finishes
  <2>4. past' \in Pasts
    BY <1>17, <2>1, PastGrows DEF CheckRequest
  <2>5. QED
    BY <1>17, <2>2, <2>3, <2>4 DEF CheckRequest
<1>18. CASE RequestFails
  <2>1. worker' \in Workers /\ call' \in Calls
    BY <1>18, FinishDoes DEF RequestFails, Finishes, WorkerGoes, Workers
  <2>2. QED
    BY <1>18, <2>1 DEF RequestFails
<1>19. CASE Deliver
  <2>1. worker.seq \in Nat
    BY DEF Workers
  <2>2. worker' \in Workers
    BY <1>19, <2>1 DEF Deliver, WorkerGoes, Workers
  <2>3. past' \in Pasts
    BY <1>19, <2>1, PastGrows DEF Deliver
  <2>4. QED
    BY <1>19, <2>1, <2>2, <2>3 DEF Deliver
<1>20. CASE RequestSucceeds
  <2>1. worker.seq \in Nat
    BY DEF Workers
  <2>2. worker' \in Workers /\ call' \in Calls
    BY <1>20, FinishDoes DEF RequestSucceeds, Finishes, WorkerGoes, Workers
  <2>3. past' \in Pasts
    BY <1>20, <2>1, PastGrows DEF RequestSucceeds
  <2>4. QED
    BY <1>20, <2>2, <2>3 DEF RequestSucceeds
<1>21. CASE TakeJoin
  <2>1. Head(mail) \in Messages /\ mail' \in Seq(Messages)
    BY <1>21 DEF TakeJoin
  <2>2. message' \in Inbox
    BY <1>21, <2>1 DEF TakeJoin, Invited, Inbox, Messages
  <2>3. call' \in Calls /\ past' \in Pasts
    BY <1>21, ResetDoes, SetIdleDoes, RememberingDoes DEF TakeJoin, Becomes
  <2>4. QED
    BY <1>21, <2>1, <2>2, <2>3 DEF TakeJoin
<1>22. CASE JoinRoom
  <2>1. message.of \in Int
    BY <1>22 DEF JoinRoom, Inbox, NoMessage
  <2>2. session' \in Sessions
    BY <1>22, <2>1 DEF JoinRoom, Sessions
  <2>3. QED
    BY <1>22, <2>2 DEF JoinRoom, Inbox
<1>23. CASE TakeCancel
  <2>1. Head(mail) \in Messages /\ mail' \in Seq(Messages)
    BY <1>23 DEF TakeCancel
  <2>2. Head(mail) \in [kind : {"cancel"}, of : Int]
    BY <1>23, <2>1 DEF TakeCancel, Messages
  <2>3. message' \in Inbox
    BY <1>23, <2>2 DEF TakeCancel, Inbox
  <2>4. session' \in Sessions
    BY <1>23, SessionTurns DEF TakeCancel
  <2>5. QED
    BY <1>23, <2>1, <2>3, <2>4 DEF TakeCancel
<1>24. CASE CancelOther
  <2>1. call' \in Calls /\ past' \in Pasts
    BY <1>24, DropDoes, RememberingDoes DEF CancelOther, Becomes
  <2>2. QED
    BY <1>24, <2>1 DEF CancelOther, Inbox
<1>25. CASE DeadlinePasses
  <2>1. call' \in Calls
    BY <1>25, CallExpires DEF DeadlinePasses
  <2>2. QED
    BY <1>25, <2>1 DEF DeadlinePasses
<1>26. CASE Disconnected
  <2>1. left.drops - 1 \in Nat
    BY <1>26 DEF Disconnected, ScenarioKinds
  <2>2. left' \in ScenarioKinds
    BY <1>26, <2>1, BudgetShrinks DEF Disconnected
  <2>3. call' \in Calls /\ past' \in Pasts
    BY <1>26, DropDoes, RememberingDoes DEF Disconnected, Becomes
  <2>4. QED
    BY <1>26, <2>2, <2>3 DEF Disconnected
<1>27. CASE Connected
  BY <1>27 DEF Connected
<1>28. CASE UserAnswers
  <2>1. PICK q \in rung, kind \in {"join", "cancel"} :
            rung' = rung \ {q} /\ Heard(kind, q)
    BY <1>28 DEF UserAnswers
  <2>2. [kind |-> kind, of |-> q] \in Messages
    BY DEF Messages
  <2>3. mail' \in Seq(Messages)
    BY <2>1, <2>2 DEF Heard
  <2>4. QED
    BY <1>28, <2>1, <2>3 DEF UserAnswers
<1>29. CASE StrangerCalls
  <2>1. PICK n \in left.strangers, kind \in {"join", "cancel"} :
            left' = [left EXCEPT !.strangers = @ \ {n}] /\ Heard(kind, n)
    BY <1>29 DEF StrangerCalls
  <2>2. left.strangers \in SUBSET Strangers /\ Strangers \subseteq Int
    BY ActiveCallAssumption DEF ScenarioKinds, Strangers
  <2>3. left.strangers \ {n} \in SUBSET Strangers /\ n \in Int
    BY <2>2
  <2>4. left' \in ScenarioKinds
    BY <2>1, <2>3, BudgetShrinks
  <2>5. [kind |-> kind, of |-> n] \in Messages
    BY <2>3 DEF Messages
  <2>6. mail' \in Seq(Messages)
    BY <2>1, <2>5 DEF Heard
  <2>7. QED
    BY <1>29, <2>4, <2>6 DEF StrangerCalls
<1>30. CASE SessionMoves
  <2>1. session' \in Sessions
    BY <1>30, SessionTurns DEF SessionMoves, SessionIs
  <2>2. QED
    BY <1>30, <2>1 DEF SessionMoves
<1>31. QED
  BY <1>1, <1>2, <1>3, <1>4, <1>5, <1>6, <1>7, <1>8, <1>9, <1>10, <1>11, <1>12,
     <1>13, <1>14, <1>15, <1>16, <1>17, <1>18, <1>19, <1>20, <1>21, <1>22, <1>23, <1>24,
     <1>25, <1>26, <1>27, <1>28, <1>29, <1>30 DEF CallNext, KeyNext, StarterNext,
     MainNext, WorkerNext, MessageNext, EnvironmentNext

------------------------------------------------------------------------------
(* Every step keeps what the request, its number and its task say of each  *)
(* other.                                                                  *)

\* No errand begins by telling the worker.
NoneNotifies ==
    \A u \in Starters : doing'[u].at = "notify" =>
                            doing[u].at = "notify" /\ doing'[u].seq = doing[u].seq

LEMMA ErrandIsQuiet ==
    ASSUME doing \in [Starters -> Errands], NEW t \in Starters, NEW to \in Stages,
           NEW from, Goes(t, from, to), to # "notify"
    PROVE  NoneNotifies
BY ErrandMoves DEF NoneNotifies

\* A step of an errand that leaves the record alone
LEMMA OwnedErrand ==
    ASSUME Owned, UNCHANGED <<call, past, notified, worker>>, NoneNotifies
    PROVE  Owned'
BY DEF Owned, NoneNotifies

\* A step that drops the request or leaves it
LEMMA OwnedTurn ==
    ASSUME CallTypeOK, Owned, NEW c \in Calls, call' = c,
           \/ c = call
           \/ c.state = "idle" /\ c.seq = call.seq
           \/ c.state = "idle" /\ call.state # "idle" /\ c.seq = call.seq + 1,
           past'.begun = past.begun, past'.checked = past.checked,
           past'.posted = past.posted, past'.accepted = past.accepted,
           past'.early = Remembering(c).early,
           notified' = notified, worker' = worker, NoneNotifies
    PROVE  Owned'
<1>1. call.seq \in Nat /\ c.seq \in Nat /\ call.seq <= c.seq
  BY DEF CallTypeOK, Calls
<1>2. past.early \subseteq Nat
  BY DEF CallTypeOK, Pasts
<1>3. \A q \in past'.early : q < call'.seq /\ q \notin past'.checked
  <2>1. CASE past'.early = past.early
    BY <1>1, <1>2, <2>1 DEF Owned
  <2>2. CASE /\ past'.early = past.early \cup {call.seq}
             /\ call.seq # c.seq /\ call.seq \notin past.checked
    BY <1>1, <1>2, <2>2 DEF Owned
  <2>3. QED
    BY <2>1, <2>2, RememberingDoes DEF CallTypeOK
<1>4. call'.state = "waiting" => call'.seq \in past'.accepted
  BY DEF Owned
<1>5. QED
  BY <1>3, <1>4 DEF Owned, NoneNotifies

\* Becomes(), of what the record may become
LEMMA OwnedBecomes ==
    ASSUME CallTypeOK, Owned, NEW c \in Calls, Becomes(c),
           \/ c = call
           \/ c.state = "idle" /\ c.seq = call.seq
           \/ c.state = "idle" /\ call.state # "idle" /\ c.seq = call.seq + 1,
           notified' = notified, worker' = worker, NoneNotifies
    PROVE  Owned'
BY OwnedTurn, RememberingDoes DEF Becomes, CallTypeOK

LEMMA OwnedStep ==
    ASSUME CallTypeOK, Owned, CallNext
    PROVE  Owned'
<1>1. CASE ShortPress
  <2> DEFINE c == ResetIfExpired(call)
  <2>1. NoneNotifies
    BY <1>1, ErrandIsQuiet DEF CallTypeOK, ShortPress, Stages, Starters
  <2>2. c \in Calls /\ Remembering(c) \in Pasts
    BY ResetDoes, RememberingDoes DEF CallTypeOK
  <2>3. /\ past'.begun = past.begun /\ past'.checked = past.checked
        /\ past'.posted = past.posted /\ past'.accepted = past.accepted
        /\ past'.early = Remembering(c).early
    <3>1. past' = [Remembering(c) EXCEPT !.pressed = @ + 1]
      BY <1>1 DEF ShortPress
    <3>2. QED
      BY <2>2, <3>1, RememberingDoes DEF CallTypeOK, Pasts
  <2>4. call' = c /\ notified' = notified /\ worker' = worker
    BY <1>1 DEF ShortPress
  <2>5. QED
    BY <2>1, <2>2, <2>3, <2>4, OwnedTurn, ResetDoes DEF CallTypeOK
<1>2. CASE LongPress
  <2>1. NoneNotifies
    BY <1>2, ErrandIsQuiet DEF CallTypeOK, LongPress, Stages, Starters
  <2>2. QED
    BY <1>2, <2>1, OwnedBecomes, ResetDoes DEF LongPress, CallTypeOK
<1>3. CASE Answer
  <2>1. NoneNotifies
    BY <1>3, ErrandIsQuiet DEF CallTypeOK, Answer, AskSession, Stages, Starters
  <2>2. QED
    BY <1>3, <2>1, OwnedErrand DEF Answer, AskSession
<1>4. CASE AwaitClose
  <2>1. NoneNotifies
    BY <1>4, ErrandIsQuiet DEF CallTypeOK, AwaitClose, Stages, Starters
  <2>2. QED
    BY <1>4, <2>1, OwnedErrand DEF AwaitClose
<1>5. CASE AskIdle
  <2>1. NoneNotifies
    BY <1>5, ErrandIsQuiet DEF CallTypeOK, AskIdle, AskSession, Stages, Starters
  <2>2. QED
    BY <1>5, <2>1, OwnedErrand DEF AskIdle, AskSession
<1>6. CASE HangUp
  <2>1. NoneNotifies
    BY <1>6, ErrandIsQuiet DEF CallTypeOK, HangUp, AskSession, Stages, Starters
  <2>2. QED
    BY <1>6, <2>1, OwnedErrand DEF HangUp, AskSession
<1>7. CASE AskBusy
  <2>1. NoneNotifies
    BY <1>7, ErrandIsQuiet DEF CallTypeOK, AskBusy, Stages, Starters
  <2>2. QED
    BY <1>7, <2>1, OwnedBecomes, ResetDoes DEF AskBusy, CallTypeOK
<1>8. CASE CancelRequest
  <2>1. NoneNotifies
    BY <1>8, ErrandIsQuiet DEF CallTypeOK, CancelRequest, Stages, Starters
  <2>2. QED
    BY <1>8, <2>1, OwnedBecomes, DropDoes DEF CancelRequest, CallTypeOK
<1>9. CASE Reject
  <2>1. NoneNotifies
    BY <1>9, ErrandIsQuiet DEF CallTypeOK, Reject, AskSession, Stages, Starters
  <2>2. QED
    BY <1>9, <2>1, OwnedErrand DEF Reject, AskSession
<1>10. ASSUME NEW t \in Starters, TestConditions(t)
      PROVE  Owned'
  <2>1. NoneNotifies
    BY <1>10, ErrandIsQuiet DEF CallTypeOK, TestConditions, Test, Stages, Starters
  <2>2. QED
    BY <1>10, <2>1, OwnedErrand DEF TestConditions, Test
<1>11. ASSUME NEW t \in Starters, BeginRequest(t)
      PROVE  Owned'
  <2> DEFINE c == ResetIfExpired(call)
  <2>1. c \in Calls /\ c.seq + 1 \in Nat /\ c.seq \in Nat /\ call.seq \in Nat
    BY ResetDoes DEF Calls, CallTypeOK
  <2>2. CASE c.state # "idle"
    <3>1. Goes(t, "begin", "rest") /\ UNCHANGED <<call, past, notified, worker>>
      BY <1>11, <2>2 DEF BeginRequest, Goes
    <3>2. "rest" \in Stages
      BY DEF Stages
    <3>3. QED
      BY <3>1, <3>2, ErrandIsQuiet, OwnedErrand DEF CallTypeOK
  <2>3. CASE c.state = "idle"
    <3>1. call' = Begin(c) /\ notified' = notified /\ worker' = worker
      BY <1>11, <2>3 DEF BeginRequest
    <3>2. call'.state = "requesting" /\ call'.seq = c.seq + 1
      BY <3>1 DEF Begin
    <3>3. /\ past'.begun = past.begun \cup {c.seq + 1} /\ past'.checked = past.checked
          /\ past'.posted = past.posted /\ past'.accepted = past.accepted
          /\ past'.early = Remembering(c).early
      <4>1. Remembering(c) \in Pasts
        BY RememberingDoes DEF CallTypeOK
      <4>2. past' = [Remembering(c) EXCEPT !.begun = @ \cup {c.seq + 1}]
        BY <1>11, <2>3 DEF BeginRequest
      <4>3. QED
        BY <4>1, <4>2, RememberingDoes DEF CallTypeOK, Pasts
    <3>4. call.seq <= c.seq
      BY <2>1, ResetDoes DEF CallTypeOK
    <3>5. past.early \subseteq Nat
      BY DEF CallTypeOK, Pasts
    <3>6. \A q \in past.early : q < call'.seq /\ q \notin past'.checked
      BY <2>1, <3>2, <3>3, <3>4, <3>5 DEF Owned
    <3>7. \A q \in past'.early : q < call'.seq /\ q \notin past'.checked
      <4>1. CASE past'.early = past.early
        BY <3>6, <4>1
      <4>2. CASE past'.early = past.early \cup {call.seq} /\ call.seq \notin past.checked
        BY <2>1, <3>2, <3>3, <3>4, <3>6, <4>2
      <4>3. QED
        BY <3>3, <4>1, <4>2, RememberingDoes DEF CallTypeOK
    <3>8. doing' = [doing EXCEPT ![t] = [at |-> "notify", seq |-> c.seq + 1]]
      BY <1>11, <2>3 DEF BeginRequest
    <3>9. \A u \in Starters : doing'[u].at = "notify" => doing'[u].seq \in past'.begun
      BY <3>3, <3>8 DEF Owned, CallTypeOK
    <3>10. QED
      BY <3>1, <3>2, <3>3, <3>7, <3>9 DEF Owned
  <2>4. QED
    BY <2>2, <2>3
<1>12. ASSUME NEW t \in Starters, Notify(t)
      PROVE  Owned'
  <2>1. doing[t].at = "notify" /\ Notified(t)
    BY <1>12 DEF Notify, Goes
  <2>2. NoneNotifies
    BY <1>12, ErrandIsQuiet DEF CallTypeOK, Notify, Stages
  <2>3. notified' \in past.begun /\ UNCHANGED <<call, worker, past>>
    BY <2>1 DEF Notified, Owned
  <2>4. QED
    BY <2>2, <2>3 DEF Owned, NoneNotifies
<1>13. ASSUME NEW t \in Starters, ClearPending(t)
      PROVE  Owned'
  <2>1. {"rest", "hang up", "cancel", "reject?"} \subseteq Stages
    BY DEF Stages
  <2>2. NoneNotifies
    BY <1>13, <2>1, ClearingGoes, ErrandIsQuiet DEF CallTypeOK
  <2>3. QED
    BY <1>13, <2>2, OwnedErrand DEF ClearPending
<1>14. CASE Maintain
  <2>1. NoneNotifies
    BY <1>14, ErrandIsQuiet DEF CallTypeOK, Maintain, Stages, Starters
  <2>2. QED
    BY <1>14, <2>1, OwnedBecomes, ResetDoes DEF Maintain, CallTypeOK
<1>15. CASE ProcessPending
  <2>1. NoneNotifies
    BY <1>15, ErrandIsQuiet DEF CallTypeOK, ProcessPending, Stages, Starters
  <2>2. QED
    BY <1>15, <2>1, OwnedBecomes, ResetDoes DEF ProcessPending, CallTypeOK
<1>16. CASE TakeNotified
  BY <1>16 DEF TakeNotified, WorkerGoes, Owned
<1>17. CASE CheckRequest
  <2>1. worker.at \in Checks /\ UNCHANGED <<notified, doing>>
    BY <1>17 DEF CheckRequest
  <2>2. CASE IsCurrentRequest(worker.seq)
    <3>1. /\ worker'.seq = worker.seq /\ worker'.at = NextStage[worker.at]
          /\ call' = call
      BY <1>17, <2>2 DEF CheckRequest, WorkerGoes
    <3>2. worker.seq = call.seq /\ worker.seq \in past.begun
      BY <2>1, <2>2 DEF IsCurrentRequest, Owned, Checks
    <3>3. CASE worker.at = "post"
      <4>1. past' = [past EXCEPT !.checked = @ \cup {worker.seq}]
        BY <1>17, <2>2, <3>3 DEF CheckRequest
      <4>2. /\ past'.checked = past.checked \cup {worker.seq} /\ past'.begun = past.begun
            /\ past'.posted = past.posted /\ past'.early = past.early
            /\ past'.accepted = past.accepted
        BY <4>1 DEF CallTypeOK, Pasts
      <4>3. \A q \in past.early : q # worker.seq
        <5>1. call.seq \in Nat /\ past.early \subseteq Nat
          BY DEF CallTypeOK, Calls, Pasts
        <5>2. QED
          BY <3>2, <5>1 DEF Owned
      <4>4. QED
        BY <2>1, <3>1, <3>2, <4>2, <4>3 DEF Owned
    <3>4. CASE worker.at # "post"
      <4>1. worker'.at \notin {"posting", "reply"}
        BY <2>1, <3>1, <3>4 DEF NextStage, Checks
      <4>2. past' = past
        BY <1>17, <2>2, <3>4 DEF CheckRequest
      <4>3. QED
        BY <2>1, <3>1, <3>2, <4>1, <4>2 DEF Owned
    <3>5. QED
      BY <3>3, <3>4
  <2>3. CASE ~IsCurrentRequest(worker.seq)
    <3>1. worker'.at = "rest" /\ call' = Finish(call, worker.seq, FALSE) /\ past' = past
      BY <1>17, <2>3 DEF CheckRequest, Finishes, WorkerGoes
    <3>2. call'.seq = call.seq /\ (call'.state = "waiting" => call.state = "waiting")
      BY <3>1, FinishDoes DEF CallTypeOK
    <3>3. QED
      BY <2>1, <3>1, <3>2 DEF Owned
  <2>4. QED
    BY <2>2, <2>3
<1>18. CASE RequestFails
  <2>1. worker'.at = "rest" /\ call' = Finish(call, worker.seq, FALSE)
    BY <1>18 DEF RequestFails, Finishes, WorkerGoes
  <2>2. call'.seq = call.seq /\ (call'.state = "waiting" => call.state = "waiting")
    BY <2>1, FinishDoes DEF CallTypeOK
  <2>3. QED
    BY <1>18, <2>1, <2>2 DEF RequestFails, Owned
<1>19. CASE Deliver
  <2>1. worker.at = "posting" /\ worker'.at = "reply" /\ worker'.seq = worker.seq
    BY <1>19 DEF Deliver, WorkerGoes
  <2>2. past' = [past EXCEPT !.posted = @ \cup {worker.seq}]
    BY <1>19 DEF Deliver
  <2>3. /\ past'.posted = past.posted \cup {worker.seq} /\ past'.begun = past.begun
        /\ past'.checked = past.checked /\ past'.early = past.early
        /\ past'.accepted = past.accepted
    BY <2>2 DEF CallTypeOK, Pasts
  <2>4. QED
    BY <1>19, <2>1, <2>3 DEF Deliver, Owned
<1>20. CASE RequestSucceeds
  <2>1. worker'.at = "rest" /\ call' = Finish(call, worker.seq, TRUE)
    BY <1>20 DEF RequestSucceeds, Finishes, WorkerGoes
  <2>2. past' = [past EXCEPT !.accepted = @ \cup {worker.seq}]
    BY <1>20 DEF RequestSucceeds
  <2>3. /\ past'.accepted = past.accepted \cup {worker.seq} /\ past'.begun = past.begun
        /\ past'.checked = past.checked /\ past'.early = past.early
        /\ past'.posted = past.posted
    BY <2>2 DEF CallTypeOK, Pasts
  <2>4. /\ call'.seq = call.seq
        /\ call'.state = "waiting" => call.state = "waiting" \/ worker.seq = call.seq
    BY <2>1, FinishDoes DEF CallTypeOK
  <2>5. QED
    BY <1>20, <2>1, <2>3, <2>4 DEF RequestSucceeds, Owned
<1>21. CASE TakeJoin
  <2>1. NoneNotifies
    BY <1>21 DEF TakeJoin, NoneNotifies
  <2> DEFINE r == ResetIfExpired(call)
             c == IF r.state = "waiting" THEN SetIdle(r) ELSE r
  <2>2. r \in Calls /\ c \in Calls
    BY ResetDoes, SetIdleDoes DEF CallTypeOK
  <2>3. \/ c = call
        \/ c.state = "idle" /\ c.seq = call.seq
        \/ c.state = "idle" /\ call.state # "idle" /\ c.seq = call.seq + 1
    BY ResetDoes, SetIdleDoes DEF CallTypeOK
  <2>4. Becomes(c) /\ notified' = notified /\ worker' = worker
    BY <1>21 DEF TakeJoin
  <2>5. QED
    BY <2>1, <2>2, <2>3, <2>4, OwnedBecomes
<1>22. CASE JoinRoom
  BY <1>22 DEF JoinRoom, Owned
<1>23. CASE TakeCancel
  BY <1>23 DEF TakeCancel, Owned
<1>24. CASE CancelOther
  <2>1. NoneNotifies
    BY <1>24 DEF CancelOther, NoneNotifies
  <2>2. QED
    BY <1>24, <2>1, OwnedBecomes, DropDoes DEF CancelOther, CallTypeOK
<1>25. CASE DeadlinePasses
  <2>1. call'.state = call.state /\ call'.seq = call.seq
    BY <1>25, CallExpires DEF DeadlinePasses, CallTypeOK
  <2>2. QED
    BY <1>25, <2>1 DEF DeadlinePasses, Owned
<1>26. CASE Disconnected
  <2>1. NoneNotifies
    BY <1>26 DEF Disconnected, NoneNotifies
  <2>2. QED
    BY <1>26, <2>1, OwnedBecomes, DropDoes DEF Disconnected, CallTypeOK
<1>27. CASE Connected
  BY <1>27 DEF Connected, Owned
<1>28. CASE UserAnswers
  BY <1>28 DEF UserAnswers, Owned
<1>29. CASE StrangerCalls
  BY <1>29 DEF StrangerCalls, Owned
<1>30. CASE SessionMoves
  BY <1>30 DEF SessionMoves, Owned
<1>31. QED
  BY <1>1, <1>2, <1>3, <1>4, <1>5, <1>6, <1>7, <1>8, <1>9, <1>10, <1>11, <1>12,
     <1>13, <1>14, <1>15, <1>16, <1>17, <1>18, <1>19, <1>20, <1>21, <1>22, <1>23, <1>24,
     <1>25, <1>26, <1>27, <1>28, <1>29, <1>30 DEF CallNext, KeyNext, StarterNext,
     MainNext, WorkerNext, MessageNext, EnvironmentNext

------------------------------------------------------------------------------
(* Every step keeps the account of the presses.                            *)

LEMMA StillPaid ==
    ASSUME NEW n \in Nat, NEW p \in Nat, NEW a \in 0 .. 1, NEW b \in 0 .. 1,
           NEW c \in 0 .. 1, NEW d \in 0 .. 1, n + a + b <= p
    PROVE  /\ c + d <= a + b => n + c + d <= p
           /\ \A m \in Nat : m <= n + 1 /\ c + d + 1 <= a + b => m + c + d <= p
OBVIOUS

LEMMA PaidKept ==
    ASSUME CallTypeOK, Paid, past'.begun = past.begun, past'.pressed = past.pressed,
           doing'["main"].at \in MainPlaces,
           KeyOwes' + MainOwes' <= KeyOwes + MainOwes
    PROVE  Paid'
<1>1. /\ KeyOwes \in 0 .. 1 /\ MainOwes \in 0 .. 1
      /\ KeyOwes' \in 0 .. 1 /\ MainOwes' \in 0 .. 1
  BY DEF KeyOwes, MainOwes
<1>2. Cardinality(past.begun) \in Nat /\ past.pressed \in Nat
  BY FS_CardinalityType DEF Paid, CallTypeOK, Pasts
<1>3. Cardinality(past.begun) + KeyOwes + MainOwes <= past.pressed
  BY DEF Paid
<1>4. Cardinality(past.begun) + KeyOwes' + MainOwes' <= past.pressed
  BY <1>1, <1>2, <1>3, StillPaid
<1>5. QED
  <2>1. Cardinality(past.begun)' = Cardinality(past.begun)
    OBVIOUS
  <2>2. QED
    BY <1>4, <2>1 DEF Paid

LEMMA PaidElse ==
    ASSUME CallTypeOK, Paid, past'.begun = past.begun, past'.pressed = past.pressed,
           UNCHANGED <<doing, pending>>
    PROVE  Paid'
<1>1. KeyOwes' = KeyOwes /\ MainOwes' = MainOwes /\ doing'["main"].at \in MainPlaces
  BY DEF KeyOwes, MainOwes, Paid
<1>2. KeyOwes \in 0 .. 1 /\ MainOwes \in 0 .. 1
  BY DEF KeyOwes, MainOwes
<1>3. QED
  BY <1>1, <1>2, PaidKept

\* The key's task goes on with its press, is done with it, or leaves it to main().
LEMMA PaidKeyErrand ==
    ASSUME CallTypeOK, Paid, past'.begun = past.begun, past'.pressed = past.pressed,
           NEW from, NEW to \in Stages, Goes("boot", from, to),
           to \in KeyTries => from \in KeyTries,
           pending' => pending \/ (from \in KeyTries /\ to \notin KeyTries)
    PROVE  Paid'
<1>1. /\ doing["boot"].at = from /\ doing'["boot"].at = to
      /\ doing'["main"] = doing["main"]
  BY ErrandMoves DEF CallTypeOK, Starters
<1>2. KeyOwes' + MainOwes' <= KeyOwes + MainOwes
  BY <1>1 DEF KeyOwes, MainOwes
<1>3. QED
  BY <1>1, <1>2, PaidKept DEF Paid

\* main() goes on with what it found remembered, or leaves it.
LEMMA PaidMainErrand ==
    ASSUME CallTypeOK, Paid, past'.begun = past.begun, past'.pressed = past.pressed,
           NEW from, NEW to \in MainPlaces, Goes("main", from, to),
           to \in MainTries \/ (to = "rest" /\ pending') =>
               from \in MainTries \/ (from = "rest" /\ pending)
    PROVE  Paid'
<1>1. to \in Stages
  BY DEF MainPlaces, Trying, Stages
<1>2. /\ doing["main"].at = from /\ doing'["main"].at = to
      /\ doing'["boot"] = doing["boot"]
  BY <1>1, ErrandMoves DEF CallTypeOK, Starters
<1>3. KeyOwes' + MainOwes' <= KeyOwes + MainOwes
  BY <1>2 DEF KeyOwes, MainOwes
<1>4. QED
  BY <1>2, <1>3, PaidKept

\* Becomes() begins nothing.
LEMMA BecomesBeginsNone ==
    ASSUME CallTypeOK, NEW c, Becomes(c)
    PROVE  past'.begun = past.begun /\ past'.pressed = past.pressed
BY RememberingDoes DEF CallTypeOK, Becomes

LEMMA PaidStep ==
    ASSUME CallTypeOK, Paid, CallNext
    PROVE  Paid'
<1>1. CASE ShortPress
  <2> DEFINE c == ResetIfExpired(call)
  <2>1. Remembering(c) \in Pasts
    BY RememberingDoes DEF CallTypeOK
  <2>2. past' = [Remembering(c) EXCEPT !.pressed = @ + 1] /\ pending' = pending
    BY <1>1 DEF ShortPress
  <2>3. past'.begun = past.begun /\ past'.pressed = past.pressed + 1
    BY <2>1, <2>2, RememberingDoes DEF CallTypeOK, Pasts
  <2>4. /\ doing["boot"].at = "rest" /\ doing'["boot"].at = "answer?"
        /\ doing'["main"] = doing["main"]
    BY <1>1, ErrandMoves DEF ShortPress, CallTypeOK, Starters, Stages
  <2>5. KeyOwes' = 1 /\ KeyOwes = 0 /\ MainOwes' = MainOwes /\ MainOwes \in 0 .. 1
    BY <2>2, <2>4 DEF KeyOwes, MainOwes, KeyTries, Trying
  <2>6. Cardinality(past.begun) \in Nat /\ past.pressed \in Nat
    BY FS_CardinalityType DEF Paid, CallTypeOK, Pasts
  <2>7. Cardinality(past'.begun) + KeyOwes' + MainOwes' <= past'.pressed
    BY <2>3, <2>5, <2>6 DEF Paid
  <2>8. QED
    BY <2>3, <2>4, <2>7 DEF Paid
<1>2. CASE LongPress
  <2>1. past'.begun = past.begun /\ past'.pressed = past.pressed
    BY <1>2, BecomesBeginsNone DEF LongPress
  <2>2. QED
    BY <1>2, <2>1, PaidKeyErrand DEF LongPress, KeyTries, MainTries, MainPlaces, Trying,
       Stages
<1>3. CASE Answer
  <2>1. \E to \in {"clear", "closing?", "rest"} : Goes("boot", "answer?", to)
    BY <1>3 DEF Answer, AskSession
  <2>2. past' = past /\ pending' = pending
    BY <1>3 DEF Answer, AskSession
  <2>3. QED
    BY <2>1, <2>2, PaidKeyErrand DEF KeyTries, MainTries, MainPlaces, Trying, Stages
<1>4. CASE AwaitClose
  BY <1>4, PaidKeyErrand DEF AwaitClose, KeyTries, MainTries, MainPlaces, Trying, Stages
<1>5. CASE AskIdle
  <2>1. \/ \E to \in {"clear, hang up", "busy?"} : Goes("boot", "idle?", to)
        \/ \E to \in {"hang up", "cancel?"} : Goes("boot", "give up?", to)
    BY <1>5 DEF AskIdle, AskSession
  <2>2. past' = past /\ pending' = pending
    BY <1>5 DEF AskIdle, AskSession
  <2>3. QED
    BY <2>1, <2>2, PaidKeyErrand DEF KeyTries, Trying, Stages
<1>6. CASE HangUp
  BY <1>6, PaidKeyErrand DEF HangUp, AskSession, KeyTries, MainTries, MainPlaces,
     Trying, Stages
<1>7. CASE AskBusy
  <2>1. past'.begun = past.begun /\ past'.pressed = past.pressed
    BY <1>7, BecomesBeginsNone DEF AskBusy
  <2>2. QED
    BY <1>7, <2>1, PaidKeyErrand DEF AskBusy, KeyTries, MainTries, MainPlaces, Trying,
       Stages
<1>8. CASE CancelRequest
  <2>1. past'.begun = past.begun /\ past'.pressed = past.pressed
    BY <1>8, BecomesBeginsNone DEF CancelRequest
  <2>2. QED
    BY <1>8, <2>1, PaidKeyErrand DEF CancelRequest, KeyTries, MainTries, MainPlaces,
       Trying, Stages
<1>9. CASE Reject
  BY <1>9, PaidKeyErrand DEF Reject, AskSession, KeyTries, MainTries, MainPlaces,
     Trying, Stages
<1>10. ASSUME NEW t \in Starters, TestConditions(t)
      PROVE  Paid'
  <2>1. PICK from \in Trying \ {"begin"}, to \in Trying, holds \in BOOLEAN :
            /\ Goes(t, from, IF holds THEN to ELSE "rest")
            /\ pending' = (pending \/ ~holds)
    BY <1>10 DEF TestConditions, Test, Trying
  <2>2. past' = past
    BY <1>10 DEF TestConditions, Test
  <2>3. CASE t = "boot"
    BY <2>1, <2>2, <2>3, PaidKeyErrand DEF KeyTries, Trying, Stages
  <2>4. CASE t = "main"
    BY <2>1, <2>2, <2>4, PaidMainErrand DEF MainTries, MainPlaces, Trying
  <2>5. QED
    BY <2>3, <2>4 DEF Starters
<1>11. ASSUME NEW t \in Starters, BeginRequest(t)
      PROVE  Paid'
  <2> DEFINE c == ResetIfExpired(call)
  <2>1. CASE c.state # "idle"
    <3>1. Goes(t, "begin", "rest") /\ pending' = TRUE /\ past' = past
      BY <1>11, <2>1 DEF BeginRequest, Goes
    <3>2. CASE t = "boot"
      BY <3>1, <3>2, PaidKeyErrand DEF KeyTries, Trying, Stages
    <3>3. CASE t = "main"
      BY <3>1, <3>3, PaidMainErrand DEF MainTries, MainPlaces, Trying
    <3>4. QED
      BY <3>2, <3>3 DEF Starters
  <2>2. CASE c.state = "idle"
    <3> DEFINE q == c.seq + 1
    <3>1. /\ past' = [Remembering(c) EXCEPT !.begun = @ \cup {q}] /\ pending' = pending
          /\ doing[t].at = "begin"
          /\ doing' = [doing EXCEPT ![t] = [at |-> "notify", seq |-> q]]
      BY <1>11, <2>2 DEF BeginRequest
    <3>2. Remembering(c) \in Pasts
      BY RememberingDoes DEF CallTypeOK
    <3>3. past'.begun = past.begun \cup {q} /\ past'.pressed = past.pressed
      BY <3>1, <3>2, RememberingDoes DEF CallTypeOK, Pasts
    <3>4. /\ IsFiniteSet(past'.begun)
          /\ Cardinality(past'.begun) <= Cardinality(past.begun) + 1
          /\ Cardinality(past'.begun) \in Nat /\ Cardinality(past.begun) \in Nat
      <4>1. IsFiniteSet(past.begun)
        BY DEF Paid
      <4>2. Cardinality(past.begun) \in Nat
        BY <4>1, FS_CardinalityType
      <4>3. /\ IsFiniteSet(past'.begun)
            /\ \/ Cardinality(past'.begun) = Cardinality(past.begun)
               \/ Cardinality(past'.begun) = Cardinality(past.begun) + 1
        <5> HIDE DEF q, c
        <5>1. /\ IsFiniteSet(past.begun \cup {q})
              /\ Cardinality(past.begun \cup {q})
                    = IF q \in past.begun THEN Cardinality(past.begun)
                      ELSE Cardinality(past.begun) + 1
          BY <4>1, FS_AddElement
        <5>2. QED
          BY <3>3, <5>1
      <4>4. QED
        BY <4>2, <4>3
    <3>5. /\ doing'[t].at = "notify"
          /\ \A u \in Starters \ {t} : doing'[u] = doing[u]
      BY <3>1 DEF CallTypeOK
    <3>6. KeyOwes' + MainOwes' + 1 <= KeyOwes + MainOwes /\ doing'["main"].at \in MainPlaces
      <4>1. CASE t = "boot"
        <5>1. KeyOwes = 1 /\ KeyOwes' = 0
          BY <3>1, <3>5, <4>1 DEF KeyOwes, KeyTries, Trying
        <5>2. doing'["main"] = doing["main"] /\ MainOwes' = MainOwes /\ MainOwes \in 0 .. 1
          BY <3>1, <3>5, <4>1 DEF MainOwes, Starters
        <5>3. QED
          BY <5>1, <5>2 DEF Paid
      <4>2. CASE t = "main"
        <5>1. MainOwes = 1 /\ MainOwes' = 0
          BY <3>1, <3>5, <4>2 DEF MainOwes, MainTries, Trying
        <5>2. doing'["boot"] = doing["boot"] /\ KeyOwes' = KeyOwes /\ KeyOwes \in 0 .. 1
          BY <3>1, <3>5, <4>2 DEF KeyOwes, Starters
        <5>3. QED
          BY <3>5, <4>2, <5>1, <5>2 DEF MainPlaces
      <4>3. QED
        BY <4>1, <4>2 DEF Starters
    <3>7. /\ KeyOwes \in 0 .. 1 /\ MainOwes \in 0 .. 1
          /\ KeyOwes' \in 0 .. 1 /\ MainOwes' \in 0 .. 1
      BY DEF KeyOwes, MainOwes
    <3>8. past.pressed \in Nat /\ Cardinality(past.begun) + KeyOwes + MainOwes <= past.pressed
      BY DEF Paid, CallTypeOK, Pasts
    <3>9. Cardinality(past'.begun) + KeyOwes' + MainOwes' <= past'.pressed
      <4> HIDE DEF q, c
      <4>1. Cardinality(past'.begun) + KeyOwes' + MainOwes' <= past.pressed
        BY <3>4, <3>6, <3>7, <3>8, StillPaid
      <4>2. QED
        BY <3>3, <4>1
    <3>10. QED
      BY <3>4, <3>6, <3>9 DEF Paid
  <2>3. QED
    BY <2>1, <2>2
<1>12. ASSUME NEW t \in Starters, Notify(t)
      PROVE  Paid'
  <2>1. Goes(t, "notify", "clear") /\ past' = past /\ pending' = pending
    BY <1>12 DEF Notify, Notified
  <2>2. CASE t = "boot"
    BY <2>1, <2>2, PaidKeyErrand DEF KeyTries, Trying, Stages
  <2>3. CASE t = "main"
    BY <2>1, <2>3, PaidMainErrand DEF MainTries, MainPlaces, Trying
  <2>4. QED
    BY <2>2, <2>3 DEF Starters
<1>13. ASSUME NEW t \in Starters, ClearPending(t)
      PROVE  Paid'
  <2>1. past' = past /\ pending' = FALSE
    BY <1>13 DEF ClearPending
  <2>2. CASE t = "boot"
    <3>1. {"rest", "hang up", "cancel", "reject?"} \subseteq Stages \ KeyTries
      BY DEF Stages, KeyTries, Trying
    <3>2. QED
      BY <1>13, <2>1, <2>2, <3>1, ClearingGoes, PaidKeyErrand
  <2>3. CASE t = "main"
    <3>1. Goes("main", "clear", "rest")
      BY <1>13, <2>3, ClearingGoes DEF Paid, MainPlaces, Trying, Goes
    <3>2. QED
      BY <2>1, <3>1, PaidMainErrand DEF MainTries, MainPlaces, Trying
  <2>4. QED
    BY <2>2, <2>3 DEF Starters
<1>14. CASE Maintain
  <2>1. past'.begun = past.begun /\ past'.pressed = past.pressed
    BY <1>14, BecomesBeginsNone DEF Maintain
  <2>2. QED
    BY <1>14, <2>1, PaidMainErrand DEF Maintain, KeyTries, MainTries, MainPlaces,
       Trying, Stages
<1>15. CASE ProcessPending
  <2>1. past'.begun = past.begun /\ past'.pressed = past.pressed
    BY <1>15, BecomesBeginsNone DEF ProcessPending
  <2>2. QED
    BY <1>15, <2>1, PaidMainErrand DEF ProcessPending, KeyTries, MainTries, MainPlaces,
       Trying, Stages
<1>16. CASE TakeNotified
  BY <1>16, PaidElse DEF TakeNotified
<1>17. CASE CheckRequest
  <2>1. past' = past \/ past' = [past EXCEPT !.checked = @ \cup {worker.seq}]
    BY <1>17 DEF CheckRequest
  <2>2. past'.begun = past.begun /\ past'.pressed = past.pressed
    BY <2>1 DEF CallTypeOK, Pasts
  <2>3. QED
    BY <1>17, <2>2, PaidElse DEF CheckRequest
<1>18. CASE RequestFails
  BY <1>18, PaidElse DEF RequestFails
<1>19. CASE Deliver
  <2>1. past' = past \/ past' = [past EXCEPT !.posted = @ \cup {worker.seq}]
    BY <1>19 DEF Deliver
  <2>2. past'.begun = past.begun /\ past'.pressed = past.pressed
    BY <2>1 DEF CallTypeOK, Pasts
  <2>3. QED
    BY <1>19, <2>2, PaidElse DEF Deliver
<1>20. CASE RequestSucceeds
  <2>1. past' = past \/ past' = [past EXCEPT !.accepted = @ \cup {worker.seq}]
    BY <1>20 DEF RequestSucceeds
  <2>2. past'.begun = past.begun /\ past'.pressed = past.pressed
    BY <2>1 DEF CallTypeOK, Pasts
  <2>3. QED
    BY <1>20, <2>2, PaidElse DEF RequestSucceeds
<1>21. CASE TakeJoin
  BY <1>21, BecomesBeginsNone, PaidElse DEF TakeJoin
<1>22. CASE JoinRoom
  BY <1>22, PaidElse DEF JoinRoom
<1>23. CASE TakeCancel
  BY <1>23, PaidElse DEF TakeCancel
<1>24. CASE CancelOther
  BY <1>24, BecomesBeginsNone, PaidElse DEF CancelOther
<1>25. CASE DeadlinePasses
  BY <1>25, PaidElse DEF DeadlinePasses
<1>26. CASE Disconnected
  BY <1>26, BecomesBeginsNone, PaidElse DEF Disconnected
<1>27. CASE Connected
  BY <1>27, PaidElse DEF Connected
<1>28. CASE UserAnswers
  BY <1>28, PaidElse DEF UserAnswers
<1>29. CASE StrangerCalls
  BY <1>29, PaidElse DEF StrangerCalls
<1>30. CASE SessionMoves
  BY <1>30, PaidElse DEF SessionMoves
<1>31. QED
  BY <1>1, <1>2, <1>3, <1>4, <1>5, <1>6, <1>7, <1>8, <1>9, <1>10, <1>11, <1>12,
     <1>13, <1>14, <1>15, <1>16, <1>17, <1>18, <1>19, <1>20, <1>21, <1>22, <1>23, <1>24,
     <1>25, <1>26, <1>27, <1>28, <1>29, <1>30 DEF CallNext, KeyNext, StarterNext,
     MainNext, WorkerNext, MessageNext, EnvironmentNext

------------------------------------------------------------------------------

LEMMA ActiveInit == CallInit => CallInv
<1> SUFFICES ASSUME CallInit PROVE CallInv
  OBVIOUS
<1>1. call \in Calls /\ worker \in Workers /\ session \in Sessions /\ past \in Pasts
  BY DEF CallInit, Calls, Workers, Sessions, Pasts
<1>2. doing \in [Starters -> Errands] /\ message \in Inbox /\ mail \in Seq(Messages)
  BY DEF CallInit, Starters, Errands, Stages, Inbox
<1>3. left \in ScenarioKinds
  BY ActiveCallAssumption DEF CallInit
<1>4. CallTypeOK
  BY <1>1, <1>2, <1>3 DEF CallInit, CallTypeOK
<1>5. Owned
  BY DEF CallInit, Owned
<1>6. Paid
  <2>1. past.begun = {} /\ past.pressed = 0 /\ pending = FALSE
    BY DEF CallInit
  <2>2. doing["main"].at = "rest" /\ doing["boot"].at = "rest"
    BY DEF CallInit, Starters
  <2>3. KeyOwes = 0 /\ MainOwes = 0
    BY <2>1, <2>2 DEF KeyOwes, MainOwes, KeyTries, MainTries, Trying
  <2>4. QED
    BY <2>1, <2>2, <2>3, FS_EmptySet DEF Paid, MainPlaces
<1>7. QED
  BY <1>4, <1>5, <1>6 DEF CallInv

LEMMA ActiveStep ==
    ASSUME CallInv, [CallNext]_callVars
    PROVE  CallInv'
<1>1. CASE CallNext
  BY <1>1, ActiveTypeStep, OwnedStep, PaidStep DEF CallInv
<1>2. CASE UNCHANGED callVars
  BY <1>2 DEF callVars, CallInv, CallTypeOK, Owned, Paid, KeyOwes, MainOwes
<1>3. QED
  BY <1>1, <1>2

LEMMA ActiveHolds == CallSpec => []CallInv
BY ActiveInit, ActiveStep, PTL DEF CallSpec

\* The record of the request, the tasks that start calls, their worker and the mailbox
\* hold what their types allow.
THEOREM ActiveCallTypes == CallSpec => []CallTypeOK
BY ActiveHolds, PTL DEF CallInv

\* active_call_finish() and active_call_is_current_request(), whatever was begun,
\* cancelled, expired and begun again while the worker ran: the device waits only on a
\* request that was accepted, and none is posted that was dropped before the worker's
\* last look.
THEOREM RequestsKeepTheirOwn == CallSpec => []RequestsAreOwn
<1>1. CallInv => RequestsAreOwn
  BY DEF CallInv, Owned, RequestsAreOwn
<1>2. QED
  BY <1>1, ActiveHolds, PTL

\* start_wechat_call_now(), by the key's task and by main(), however their tests, their
\* remembering and their forgetting overlap: no more calls are begun than presses made.
THEOREM NoCallUnpressed == CallSpec => []CallsArePressed
<1>1. ASSUME CallInv PROVE CallsArePressed
  <2>1. KeyOwes \in 0 .. 1 /\ MainOwes \in 0 .. 1
    BY DEF KeyOwes, MainOwes
  <2>2. Cardinality(past.begun) \in Nat /\ past.pressed \in Nat
    BY <1>1, FS_CardinalityType DEF CallInv, Paid, CallTypeOK, Pasts
  <2>3. Cardinality(past.begun) + KeyOwes + MainOwes <= past.pressed
    BY <1>1 DEF CallInv, Paid
  <2>4. QED
    BY <2>1, <2>2, <2>3 DEF CallsArePressed
<1>2. QED
  BY <1>1, ActiveHolds, PTL

------------------------------------------------------------------------------
(* S3Lookup                                                                *)

\* The record of the lookup is the worker's last one, as long as it looks something up,
\* and an address in it is the answer to that lookup.
Numbered ==
    /\ asked \subseteq 0 .. lookup.seq
    /\ post.at \in {"query", "await", "expire", "read"} => post.seq = lookup.seq
    /\ lookup.addr # NoAddress => lookup.addr.of = lookup.seq
    /\ lookup.done => lookup.seq \notin asked
    /\ lookup.waiting => post.at \in {"query", "await", "expire", "read"}
    /\ post.at = "query" => lookup.seq \notin asked /\ ~lookup.done

\* As long as no wait has ended before its callback, a callback that has not given the
\* semaphore yet, or has, is that of the wait there is.
Awaited ==
    /\ missed.early => missed.late
    /\ ~missed.late =>
           /\ giving \/ done => post.at = "await" /\ lookup.done
           /\ ~(giving /\ done)
           /\ post.at = "read" => lookup.done
           /\ post.at # "expire"

\* An address fails at most once when it is found and once from the cache.
Tried ==
    /\ missed.tries <= 2
    /\ cache # NoAddress => missed.tries <= 1
    /\ post.at = "connect" =>
           /\ cache # NoAddress
           /\ IF post.cached THEN post.addr = cache
              ELSE post.addr.of = post.seq /\ missed.tries = 0

LookupInv == LookupTypeOK /\ Numbered /\ Awaited /\ Tried

------------------------------------------------------------------------------
(* A record with a field changed is of the same set.                       *)

LEMMA PostAt ==
    ASSUME NEW p \in Posts,
           NEW stage \in PostStages
    PROVE  [p EXCEPT !.at = stage] \in Posts
BY ZenonT(60) DEF Posts

LEMMA PostSeq ==
    ASSUME NEW p \in Posts,
           NEW stage \in PostStages,
           NEW q \in Nat
    PROVE  [p EXCEPT !.at = stage, !.seq = q] \in Posts
BY ZenonT(60) DEF Posts

LEMMA PostNumber ==
    ASSUME NEW p \in Posts,
           NEW stage \in PostStages,
           NEW n \in 0 .. MaxPosts
    PROVE  [p EXCEPT !.at = stage, !.n = n] \in Posts
BY ZenonT(60) DEF Posts

LEMMA PostAddress ==
    ASSUME NEW p \in Posts,
           NEW stage \in PostStages,
           NEW addr \in Addresses \cup {NoAddress}, NEW c \in BOOLEAN
    PROVE  [p EXCEPT !.at = stage, !.addr = addr, !.cached = c] \in Posts
BY ZenonT(60) DEF Posts

LEMMA PostCached ==
    ASSUME NEW p \in Posts,
           NEW stage \in PostStages,
           NEW n \in 0 .. MaxPosts, NEW addr \in Addresses \cup {NoAddress},
              NEW c \in BOOLEAN
    PROVE  [p EXCEPT !.at = stage, !.n = n, !.addr = addr, !.cached = c] \in Posts
BY ZenonT(60) DEF Posts

LEMMA LookupWaiting ==
    ASSUME NEW l \in Lookups, NEW w \in BOOLEAN
    PROVE  [l EXCEPT !.waiting = w] \in Lookups
BY ZenonT(60) DEF Lookups

LEMMA LookupDone ==
    ASSUME NEW l \in Lookups, NEW d \in BOOLEAN, NEW addr \in Addresses \cup {NoAddress}
    PROVE  [l EXCEPT !.done = d, !.addr = addr] \in Lookups
BY ZenonT(60) DEF Lookups

LEMMA MissField ==
    ASSUME NEW m \in Misses, NEW b \in BOOLEAN
    PROVE  /\ [m EXCEPT !.late = b] \in Misses
           /\ [m EXCEPT !.early = b] \in Misses
BY ZenonT(60) DEF Misses

LEMMA MissTries ==
    ASSUME NEW m \in Misses, NEW n \in Nat
    PROVE  [m EXCEPT !.tries = n] \in Misses
BY ZenonT(60) DEF Misses

------------------------------------------------------------------------------
\* The types.
LEMMA LookupTypeStep ==
    ASSUME LookupTypeOK, [LookupNext]_lookupVars
    PROVE  LookupTypeOK'
<1> USE DEF LookupTypeOK
<1>1. CASE StartPost
  <2>1. post.n + 1 \in 0 .. MaxPosts BY <1>1, LookupAssumption DEF Posts, StartPost
  <2>2. post' \in Posts BY <1>1, <2>1, PostNumber, PostCached DEF StartPost, PostStages
  <2> QED BY <1>1, <2>2 DEF StartPost
<1>2. CASE Drain
  <2>1. post' \in Posts BY <1>2, PostAt DEF Drain, PostGoes, PostStages
  <2>2. done' \in BOOLEAN BY <1>2 DEF Drain, PostGoes
  <2> QED BY <1>2, <2>1, <2>2 DEF Drain
<1>3. CASE OpenLookup
  <2>1. lookup.seq + 1 \in Nat BY DEF Lookups
  <2>2. post' \in Posts BY <1>3, <2>1, PostSeq DEF OpenLookup, PostStages
  <2>3. lookup' \in Lookups BY <1>3, <2>1 DEF OpenLookup, Lookups
  <2> QED BY <1>3, <2>2, <2>3 DEF OpenLookup
<1>4. CASE Query
  <2>1. [place |-> place, of |-> post.seq] \in Addresses BY DEF Addresses, Posts
  <2>2. [post EXCEPT !.at = "rest"] \in Posts /\ [post EXCEPT !.at = "await"] \in Posts
    BY PostAt DEF PostStages
  <2>3. [post EXCEPT !.at = "connect", !.addr = [place |-> place, of |-> post.seq], !.cached = FALSE] \in Posts
    BY <2>1, PostAddress DEF PostStages
  <2>4. post' \in Posts
    BY <1>4, <2>2, <2>3 DEF Query, PostGoes, NotWaiting, Save, Connecting
  <2>5. lookup' \in Lookups
    BY <1>4, <2>1, LookupWaiting DEF Query, PostGoes, NotWaiting, Save, Connecting
  <2>6. asked' \subseteq Nat
    BY <1>4 DEF Query, PostGoes, NotWaiting, Save, Connecting, Posts
  <2>7. cache' \in Addresses \cup {NoAddress}
    BY <1>4, <2>1 DEF Query, PostGoes, NotWaiting, Save, Connecting
  <2>8. [missed EXCEPT !.tries = 0] \in Misses BY MissTries
  <2>9. missed' \in Misses
    BY <1>4, <2>8 DEF Query, PostGoes, NotWaiting, Save, Connecting
  <2> QED BY <1>4, <2>4, <2>5, <2>6, <2>7, <2>9 DEF Query
<1>5. CASE Awaken
  <2>1. post' \in Posts BY <1>5, PostAt DEF Awaken, PostGoes, PostStages
  <2>2. done' \in BOOLEAN BY <1>5 DEF Awaken, PostGoes
  <2> QED BY <1>5, <2>1, <2>2 DEF Awaken
<1>6. CASE TimeOut
  <2>1. post' \in Posts BY <1>6, PostAt DEF TimeOut, PostGoes, PostStages
  <2>2. missed' \in Misses BY <1>6, MissField DEF TimeOut, PostGoes
  <2> QED BY <1>6, <2>1, <2>2 DEF TimeOut
<1>7. CASE Expire
  <2>1. post' \in Posts BY <1>7, PostAt DEF Expire, PostGoes, NotWaiting, PostStages
  <2>2. lookup' \in Lookups BY <1>7, LookupWaiting DEF Expire, PostGoes, NotWaiting
  <2> QED BY <1>7, <2>1, <2>2 DEF Expire
<1>8. CASE ReadAnswer
  <2>1. lookup.addr \in Addresses \cup {NoAddress} BY DEF Lookups
  <2>2. [post EXCEPT !.at = "rest"] \in Posts /\ [post EXCEPT !.at = "await"] \in Posts
    BY PostAt DEF PostStages
  <2>3. [post EXCEPT !.at = "connect", !.addr = lookup.addr, !.cached = FALSE] \in Posts
    BY <2>1, PostAddress DEF PostStages
  <2>4. post' \in Posts
    BY <1>8, <2>2, <2>3 DEF ReadAnswer, PostGoes, NotWaiting, Save, Connecting
  <2>5. lookup' \in Lookups
    BY <1>8, <2>1, LookupWaiting DEF ReadAnswer, PostGoes, NotWaiting, Save, Connecting
  <2>6. cache' \in Addresses \cup {NoAddress}
    BY <1>8, <2>1 DEF ReadAnswer, PostGoes, NotWaiting, Save, Connecting
  <2>7. [missed EXCEPT !.tries = 0] \in Misses BY MissTries
  <2>8. [missed EXCEPT !.early = @ \/ ~lookup.done] \in Misses
    BY MissField DEF Misses, Lookups
  <2>9. missed' \in Misses
    BY <1>8, <2>7, <2>8 DEF ReadAnswer, PostGoes, NotWaiting, Save, Connecting
  <2> QED BY <1>8, <2>4, <2>5, <2>6, <2>9 DEF ReadAnswer
<1>9. CASE ConnectServer
  <2>1. missed.tries + 1 \in Nat BY DEF Misses
  <2>2. post' \in Posts
    BY <1>9, <2>1, PostAt DEF ConnectServer, PostGoes, Answers, PostStages
  <2>3. cache' \in Addresses \cup {NoAddress}
    BY <1>9, <2>1 DEF ConnectServer, PostGoes, Answers
  <2>4. missed' \in Misses BY <1>9, <2>1, MissTries DEF ConnectServer, PostGoes, Answers
  <2> QED BY <1>9, <2>2, <2>3, <2>4 DEF ConnectServer
<1>10. ASSUME NEW q \in asked, Found(q) PROVE LookupTypeOK'
  <2>1. [place |-> place, of |-> q] \in Addresses BY DEF Addresses, Posts
  <2>2. asked' \subseteq Nat BY <1>10, <2>1 DEF Found
  <2>3. lookup' \in Lookups BY <1>10, <2>1, LookupDone DEF Found
  <2>4. giving' \in BOOLEAN BY <1>10, <2>1 DEF Found
  <2> QED BY <1>10, <2>2, <2>3, <2>4 DEF Found
<1>11. CASE Give
  <2>1. giving' \in BOOLEAN BY <1>11 DEF Give
  <2>2. done' \in BOOLEAN BY <1>11 DEF Give
  <2> QED BY <1>11, <2>1, <2>2 DEF Give
<1>12. CASE Move
  <2>1. place' \in 1 .. MaxMoves + 1 BY <1>12, LookupAssumption DEF Move
  <2> QED BY <1>12, <2>1 DEF Move
<1>13. CASE UNCHANGED lookupVars
  BY <1>13 DEF lookupVars
<1> QED BY <1>1, <1>2, <1>3, <1>4, <1>5, <1>6, <1>7, <1>8, <1>9, <1>10, <1>11, <1>12,
   <1>13 DEF LookupNext

\* The numbers: a new lookup has a number that was never asked for.
LEMMA NumberedStep ==
    ASSUME LookupTypeOK, Numbered, [LookupNext]_lookupVars
    PROVE  Numbered'
<1> USE DEF LookupTypeOK, Posts, Lookups, Numbered
<1>1. CASE StartPost
  BY <1>1 DEF StartPost
<1>2. CASE Drain
  BY <1>2 DEF Drain, PostGoes
<1>3. CASE OpenLookup
  BY <1>3 DEF OpenLookup
<1>4. CASE Query
  <2> DEFINE found == [place |-> place, of |-> post.seq]
  <2>1. CASE /\ lookup' = [lookup EXCEPT !.waiting = FALSE]
             /\ cache' = found /\ missed' = [missed EXCEPT !.tries = 0]
             /\ post' = [post EXCEPT !.at = "connect", !.addr = found, !.cached = FALSE]
             /\ UNCHANGED asked
    BY <1>4, <2>1 DEF Query, NoAddress, Addresses
  <2>2. CASE /\ asked' = asked \cup {post.seq}
             /\ post' = [post EXCEPT !.at = "await"]
             /\ UNCHANGED <<lookup, cache, missed>>
    BY <1>4, <2>2 DEF Query
  <2>3. CASE /\ lookup' = [lookup EXCEPT !.waiting = FALSE]
             /\ post' = [post EXCEPT !.at = "rest"]
             /\ UNCHANGED <<asked, cache, missed>>
    BY <1>4, <2>3 DEF Query
  <2> QED BY <1>4, <2>1, <2>2, <2>3 DEF Query, PostGoes, NotWaiting, Save, Connecting
<1>5. CASE Awaken
  BY <1>5 DEF Awaken, PostGoes
<1>6. CASE TimeOut
  BY <1>6 DEF TimeOut, PostGoes
<1>7. CASE Expire
  BY <1>7 DEF Expire, PostGoes, NotWaiting
<1>8. CASE ReadAnswer
  <2>1. CASE lookup.done /\ lookup.addr # NoAddress
    <3>1. lookup.addr.of = post.seq
      BY <1>8, <2>1 DEF ReadAnswer
    <3>2. /\ cache' = lookup.addr /\ missed' = [missed EXCEPT !.tries = 0]
          /\ post' = [post EXCEPT !.at = "connect", !.addr = lookup.addr, !.cached = FALSE]
          /\ lookup' = [lookup EXCEPT !.waiting = FALSE]
          /\ UNCHANGED <<done, asked, giving, place>>
      BY <1>8, <2>1 DEF ReadAnswer, NotWaiting, Save, Connecting
    <3>3. post.at = "read"
      BY <1>8 DEF ReadAnswer
    <3> QED BY <2>1, <3>1, <3>2, <3>3
  <2>2. CASE ~(lookup.done /\ lookup.addr # NoAddress)
    BY <1>8, <2>2 DEF ReadAnswer, NotWaiting, PostGoes
  <2> QED BY <2>1, <2>2
<1>9. CASE ConnectServer
  BY <1>9 DEF ConnectServer, PostGoes, Answers
<1>10. ASSUME NEW q \in asked, Found(q) PROVE Numbered'
  <2>1. CASE lookup.waiting /\ lookup.seq = q
    <3>1. PICK addr \in {NoAddress, [place |-> place, of |-> q]} :
             lookup' = [lookup EXCEPT !.done = TRUE, !.addr = addr]
      BY <1>10, <2>1 DEF Found
    <3>2. addr # NoAddress => addr.of = q
      BY <3>1
    <3> QED BY <1>10, <2>1, <3>1, <3>2 DEF Found
  <2>2. CASE ~(lookup.waiting /\ lookup.seq = q)
    BY <1>10, <2>2 DEF Found
  <2> QED BY <2>1, <2>2
<1>11. CASE Give
  BY <1>11 DEF Give
<1>12. CASE Move
  BY <1>12 DEF Move
<1>13. CASE UNCHANGED lookupVars
  BY <1>13 DEF lookupVars
<1> QED BY <1>1, <1>2, <1>3, <1>4, <1>5, <1>6, <1>7, <1>8, <1>9, <1>10, <1>11, <1>12,
   <1>13 DEF LookupNext

\* The semaphore: only the callback of the lookup that waits sets it, unless one is late.
LEMMA AwaitedStep ==
    ASSUME LookupTypeOK, Numbered, Awaited, [LookupNext]_lookupVars
    PROVE  Awaited'
<1> USE DEF LookupTypeOK, Posts, Lookups, Misses, Numbered, Awaited
<1>1. CASE StartPost
  BY <1>1 DEF StartPost
<1>2. CASE Drain
  BY <1>2 DEF Drain, PostGoes
<1>3. CASE OpenLookup
  BY <1>3 DEF OpenLookup
<1>4. CASE Query
  <2> DEFINE found == [place |-> place, of |-> post.seq]
  <2>1. CASE /\ lookup' = [lookup EXCEPT !.waiting = FALSE]
             /\ cache' = found /\ missed' = [missed EXCEPT !.tries = 0]
             /\ post' = [post EXCEPT !.at = "connect", !.addr = found, !.cached = FALSE]
             /\ UNCHANGED asked
    BY <1>4, <2>1 DEF Query, NoAddress, Addresses
  <2>2. CASE /\ asked' = asked \cup {post.seq}
             /\ post' = [post EXCEPT !.at = "await"]
             /\ UNCHANGED <<lookup, cache, missed>>
    BY <1>4, <2>2 DEF Query
  <2>3. CASE /\ lookup' = [lookup EXCEPT !.waiting = FALSE]
             /\ post' = [post EXCEPT !.at = "rest"]
             /\ UNCHANGED <<asked, cache, missed>>
    BY <1>4, <2>3 DEF Query
  <2> QED BY <1>4, <2>1, <2>2, <2>3 DEF Query, PostGoes, NotWaiting, Save, Connecting
<1>5. CASE Awaken
  BY <1>5 DEF Awaken, PostGoes
<1>6. CASE TimeOut
  BY <1>6 DEF TimeOut, PostGoes
<1>7. CASE Expire
  BY <1>7 DEF Expire, PostGoes, NotWaiting
<1>8. CASE ReadAnswer
  <2>1. CASE lookup.done /\ lookup.addr # NoAddress
    <3>1. lookup.addr.of = post.seq
      BY <1>8, <2>1 DEF ReadAnswer
    <3>2. /\ cache' = lookup.addr /\ missed' = [missed EXCEPT !.tries = 0]
          /\ post' = [post EXCEPT !.at = "connect", !.addr = lookup.addr, !.cached = FALSE]
          /\ lookup' = [lookup EXCEPT !.waiting = FALSE]
          /\ UNCHANGED <<done, asked, giving, place>>
      BY <1>8, <2>1 DEF ReadAnswer, NotWaiting, Save, Connecting
    <3>3. post.at = "read"
      BY <1>8 DEF ReadAnswer
    <3> QED BY <2>1, <3>1, <3>2, <3>3
  <2>2. CASE ~(lookup.done /\ lookup.addr # NoAddress)
    BY <1>8, <2>2 DEF ReadAnswer, NotWaiting, PostGoes
  <2> QED BY <2>1, <2>2
<1>9. CASE ConnectServer
  BY <1>9 DEF ConnectServer, PostGoes, Answers
<1>10. ASSUME NEW q \in asked, Found(q) PROVE Awaited'
  <2>1. CASE lookup.waiting /\ lookup.seq = q
    <3>1. PICK addr \in {NoAddress, [place |-> place, of |-> q]} :
             lookup' = [lookup EXCEPT !.done = TRUE, !.addr = addr]
      BY <1>10, <2>1 DEF Found
    <3>2. addr # NoAddress => addr.of = q
      BY <3>1
    <3> QED BY <1>10, <2>1, <3>1, <3>2 DEF Found
  <2>2. CASE ~(lookup.waiting /\ lookup.seq = q)
    BY <1>10, <2>2 DEF Found
  <2> QED BY <2>1, <2>2
<1>11. CASE Give
  BY <1>11 DEF Give
<1>12. CASE Move
  BY <1>12 DEF Move
<1>13. CASE UNCHANGED lookupVars
  BY <1>13 DEF lookupVars
<1> QED BY <1>1, <1>2, <1>3, <1>4, <1>5, <1>6, <1>7, <1>8, <1>9, <1>10, <1>11, <1>12,
   <1>13 DEF LookupNext

\* The failures of an address: it was found anew at none, and forgotten at the second.
LEMMA TriedStep ==
    ASSUME LookupTypeOK, Numbered, Awaited, Tried, [LookupNext]_lookupVars
    PROVE  Tried'
<1> USE DEF LookupTypeOK, Posts, Lookups, Misses, Numbered, Awaited, Tried
<1>1. CASE StartPost
  BY <1>1 DEF StartPost
<1>2. CASE Drain
  BY <1>2 DEF Drain, PostGoes
<1>3. CASE OpenLookup
  BY <1>3 DEF OpenLookup
<1>4. CASE Query
  <2> DEFINE found == [place |-> place, of |-> post.seq]
  <2>1. CASE /\ lookup' = [lookup EXCEPT !.waiting = FALSE]
             /\ cache' = found /\ missed' = [missed EXCEPT !.tries = 0]
             /\ post' = [post EXCEPT !.at = "connect", !.addr = found, !.cached = FALSE]
             /\ UNCHANGED asked
    BY <1>4, <2>1 DEF Query, NoAddress, Addresses
  <2>2. CASE /\ asked' = asked \cup {post.seq}
             /\ post' = [post EXCEPT !.at = "await"]
             /\ UNCHANGED <<lookup, cache, missed>>
    BY <1>4, <2>2 DEF Query
  <2>3. CASE /\ lookup' = [lookup EXCEPT !.waiting = FALSE]
             /\ post' = [post EXCEPT !.at = "rest"]
             /\ UNCHANGED <<asked, cache, missed>>
    BY <1>4, <2>3 DEF Query
  <2> QED BY <1>4, <2>1, <2>2, <2>3 DEF Query, PostGoes, NotWaiting, Save, Connecting
<1>5. CASE Awaken
  BY <1>5 DEF Awaken, PostGoes
<1>6. CASE TimeOut
  BY <1>6 DEF TimeOut, PostGoes
<1>7. CASE Expire
  BY <1>7 DEF Expire, PostGoes, NotWaiting
<1>8. CASE ReadAnswer
  <2>1. CASE lookup.done /\ lookup.addr # NoAddress
    <3>1. lookup.addr.of = post.seq
      BY <1>8, <2>1 DEF ReadAnswer
    <3>2. /\ cache' = lookup.addr /\ missed' = [missed EXCEPT !.tries = 0]
          /\ post' = [post EXCEPT !.at = "connect", !.addr = lookup.addr, !.cached = FALSE]
          /\ lookup' = [lookup EXCEPT !.waiting = FALSE]
          /\ UNCHANGED <<done, asked, giving, place>>
      BY <1>8, <2>1 DEF ReadAnswer, NotWaiting, Save, Connecting
    <3>3. post.at = "read"
      BY <1>8 DEF ReadAnswer
    <3> QED BY <2>1, <3>1, <3>2, <3>3
  <2>2. CASE ~(lookup.done /\ lookup.addr # NoAddress)
    BY <1>8, <2>2 DEF ReadAnswer, NotWaiting, PostGoes
  <2> QED BY <2>1, <2>2
<1>9. CASE ConnectServer
  BY <1>9 DEF ConnectServer, PostGoes, Answers
<1>10. ASSUME NEW q \in asked, Found(q) PROVE Tried'
  <2>1. CASE lookup.waiting /\ lookup.seq = q
    <3>1. PICK addr \in {NoAddress, [place |-> place, of |-> q]} :
             lookup' = [lookup EXCEPT !.done = TRUE, !.addr = addr]
      BY <1>10, <2>1 DEF Found
    <3>2. addr # NoAddress => addr.of = q
      BY <3>1
    <3> QED BY <1>10, <2>1, <3>1, <3>2 DEF Found
  <2>2. CASE ~(lookup.waiting /\ lookup.seq = q)
    BY <1>10, <2>2 DEF Found
  <2> QED BY <2>1, <2>2
<1>11. CASE Give
  BY <1>11 DEF Give
<1>12. CASE Move
  BY <1>12 DEF Move
<1>13. CASE UNCHANGED lookupVars
  BY <1>13 DEF lookupVars
<1> QED BY <1>1, <1>2, <1>3, <1>4, <1>5, <1>6, <1>7, <1>8, <1>9, <1>10, <1>11, <1>12,
   <1>13 DEF LookupNext

------------------------------------------------------------------------------

LEMMA LookupInitInv == LookupInit => LookupInv
<1> SUFFICES ASSUME LookupInit PROVE LookupInv OBVIOUS
<1>1. post \in Posts /\ lookup \in Lookups /\ missed \in Misses
  BY LookupAssumption DEF LookupInit, Posts, Lookups, Misses, PostStages
<1>2. LookupTypeOK
  <2>1. place \in 1 .. MaxMoves + 1
    BY LookupAssumption DEF LookupInit
  <2> QED BY <1>1, <2>1 DEF LookupInit, LookupTypeOK
<1>3. Numbered /\ Awaited /\ Tried
  BY DEF LookupInit, Numbered, Awaited, Tried
<1> QED BY <1>2, <1>3 DEF LookupInv

LEMMA LookupHolds == LookupSpec => []LookupInv
<1>1. LookupInv /\ [LookupNext]_lookupVars => LookupInv'
  BY LookupTypeStep, NumberedStep, AwaitedStep, TriedStep DEF LookupInv
<1> QED BY <1>1, LookupInitInv, PTL DEF LookupSpec

\* Every variable of the lookup holds what its type allows.
THEOREM LookupTypes == LookupSpec => []LookupTypeOK
BY LookupHolds, PTL DEF LookupInv

\* resolve_host_ipv4() and http_post_json_raw(), for any number of requests and moves of the
\* server: the worker connects to the answer to its own lookup, or to what the cache holds;
\* it takes a lookup for failed before its answer is there only after one was late; and it
\* looks up again before it tries an address that has failed it twice.
THEOREM WorkerUsesItsOwn == LookupSpec => []AddressIsOwn
<1>1. LookupInv => AddressIsOwn
  BY DEF LookupInv, Awaited, Tried, AddressIsOwn
<1> QED BY <1>1, LookupHolds, PTL

------------------------------------------------------------------------------
(* S3Socket                                                                *)

Unit == Nat \X Nat

\* The frame that is being sent is one of the last message's, and not all of it is.
Sending ==
    at # Rest =>
        /\ up /\ sent # <<>>
        /\ at.frame \in 1 .. Len(sent[Len(sent)].frames) /\ at.off < Current.len

\* Between messages the buffer of a connection is empty; within one it has units of that
\* message, all there were unless the message is maimed, and none of a binary frame's.
Buffered ==
    up =>
        /\ at = Rest => frag = <<>>
        /\ at # Rest =>
                /\ \A j \in 1 .. Len(frag) : frag[j][1] = Len(sent)
                /\ Current.op = "binary" => frag = <<>>
                /\ Len(sent) \notin told.maimed =>
                        frag = Units(Len(sent), 1, Current.from + at.off)

\* Message q of the queue is of one that was sent, and whole unless that one is maimed.
Fit(q) ==
    /\ q # <<>> /\ q[1][1] \in 1 .. Len(sent)
    /\ \A j \in 1 .. Len(q) : q[j][1] = q[1][1]
    /\ q[1][1] \notin told.maimed => q = Whole(q[1][1])

Queued == \A i \in 1 .. Len(queue) : Fit(queue[i])

\* Every user on its way into the cache was named by the server.
Introduced ==
    /\ \A n \in 1 .. Len(sent) : \A i \in 1 .. Len(sent[n].users) : sent[n].users[i] \in told.users
    /\ \A i \in 1 .. Len(users) : users[i] \in told.users
    /\ UserIsOne

SocketInv == SocketTypeOK /\ Sending /\ Buffered /\ Queued /\ Introduced

\* Units in a row are a sequence,
LEMMA UnitsAre ==
    ASSUME NEW n \in Nat, NEW i \in Nat \ {0}, NEW k \in Nat
    PROVE  /\ Units(n, i, k) \in Seq(Unit) /\ Len(Units(n, i, k)) = k
           /\ \A j \in 1 .. k : Units(n, i, k)[j] = <<n, i + j - 1>>
<1>1. \A j \in 1 .. k : <<n, i + j - 1>> \in Unit
  BY DEF Unit
<1>2. Units(n, i, k) \in [1 .. k -> Unit]
  BY <1>1 DEF Units
<1>3. Units(n, i, k) \in Seq(Unit)
  BY <1>2, SeqDef
<1>4. DOMAIN Units(n, i, k) = 1 .. k /\ DOMAIN Units(n, i, k) = 1 .. Len(Units(n, i, k))
  BY <1>2, <1>3, LenProperties
<1>5. Len(Units(n, i, k)) \in Nat
  BY <1>3, LenProperties
<1>6. Len(Units(n, i, k)) = k
  <2> HIDE DEF Units
  <2>1. \A x, y \in Nat : 1 .. x = 1 .. y => x = y
    OBVIOUS
  <2>2. QED
    BY <1>4, <1>5, <2>1
<1>7. \A j \in 1 .. k : Units(n, i, k)[j] = <<n, i + j - 1>>
  BY DEF Units
<1>8. QED
  BY <1>3, <1>6, <1>7

\* and one row goes on where the other ends.
LEMMA UnitsJoin ==
    ASSUME NEW n \in Nat, NEW a \in Nat, NEW k \in Nat
    PROVE  Units(n, 1, a) \o Units(n, a + 1, k) = Units(n, 1, a + k)
<1> DEFINE p == Units(n, 1, a)
           q == Units(n, a + 1, k)
           r == Units(n, 1, a + k)
<1>1. /\ p \in Seq(Unit) /\ Len(p) = a /\ q \in Seq(Unit) /\ Len(q) = k
      /\ r \in Seq(Unit) /\ Len(r) = a + k
      /\ \A j \in 1 .. a : p[j] = <<n, 1 + j - 1>>
      /\ \A j \in 1 .. k : q[j] = <<n, a + 1 + j - 1>>
      /\ \A j \in 1 .. a + k : r[j] = <<n, 1 + j - 1>>
  <2>1. a + k \in Nat /\ a + 1 \in Nat \ {0} /\ 1 \in Nat \ {0}
    OBVIOUS
  <2>2. p \in Seq(Unit) /\ Len(p) = a /\ \A j \in 1 .. a : p[j] = <<n, 1 + j - 1>>
    <3>1. p \in Seq(Unit) /\ Len(p) = a
      BY <2>1, UnitsAre
    <3>2. \A j \in 1 .. a : p[j] = <<n, 1 + j - 1>>
      BY DEF Units
    <3>3. QED
      BY <3>1, <3>2
  <2>3. q \in Seq(Unit) /\ Len(q) = k /\ \A j \in 1 .. k : q[j] = <<n, a + 1 + j - 1>>
    BY <2>1, UnitsAre
  <2>4. r \in Seq(Unit) /\ Len(r) = a + k /\ \A j \in 1 .. a + k : r[j] = <<n, 1 + j - 1>>
    <3>1. r \in Seq(Unit) /\ Len(r) = a + k
      BY <2>1, UnitsAre
    <3>2. \A j \in 1 .. a + k : r[j] = <<n, 1 + j - 1>>
      BY DEF Units
    <3>3. QED
      BY <3>1, <3>2
  <2>5. QED
    BY <2>2, <2>3, <2>4
<1> HIDE DEF p, q, r
<1>2. p \o q \in Seq(Unit) /\ Len(p \o q) = Len(p) + Len(q)
  BY <1>1, ConcatProperties
<1>3. \A j \in 1 .. Len(p) + Len(q) : (p \o q)[j] = IF j <= Len(p) THEN p[j] ELSE q[j - Len(p)]
  BY <1>1, ConcatProperties
<1>4. Len(p) + Len(q) = a + k
  BY <1>1
<1>5. ASSUME NEW j \in 1 .. a + k PROVE (p \o q)[j] = r[j]
  <2>1. r[j] = <<n, 1 + j - 1>> /\ (p \o q)[j] = IF j <= a THEN p[j] ELSE q[j - a]
    BY <1>1, <1>3, <1>4
  <2>2. CASE j <= a
    <3>1. j \in 1 .. a
      BY <2>2
    <3>2. p[j] = <<n, 1 + j - 1>>
      BY <1>1, <3>1
    <3>3. QED
      BY <2>1, <2>2, <3>2
  <2>3. CASE ~(j <= a)
    <3>1. j - a \in 1 .. k
      BY <2>3
    <3>2. q[j - a] = <<n, a + 1 + (j - a) - 1>>
      BY <1>1, <3>1
    <3>3. a + 1 + (j - a) - 1 = 1 + j - 1
      OBVIOUS
    <3>4. q[j - a] = <<n, 1 + j - 1>>
      BY <3>2, <3>3
    <3>5. QED
      BY <2>1, <2>3, <3>4
  <2>4. QED
    BY <2>2, <2>3
<1>6. Len(p \o q) = Len(r) /\ \A j \in 1 .. Len(p \o q) : (p \o q)[j] = r[j]
  BY <1>1, <1>2, <1>4, <1>5
<1>7. p \o q = r
  BY <1>1, <1>2, <1>6, SeqEqual
<1>8. QED
  BY <1>7 DEF p, q, r

\* The message that is being sent.
LEMMA MessageIs ==
    ASSUME SocketTypeOK, sent # <<>>
    PROVE  LET F == sent[Len(sent)].frames IN
           /\ Len(sent) \in Nat \ {0} /\ sent[Len(sent)] \in Shapes
           /\ F \in Seq(Frames) /\ Len(F) \in Nat \ {0} /\ F[1].from = 0
           /\ \A i \in 1 .. Len(F) :
                 /\ F[i] \in Frames /\ F[i].from \in Nat /\ F[i].len \in Nat \ {0}
                 /\ F[i].op = "more" <=> i > 1
           /\ \A i \in 1 .. Len(F) - 1 : F[i + 1].from = F[i].from + F[i].len
<1>1. sent \in Seq(Shapes) /\ Len(sent) \in Nat \ {0}
  BY DEF SocketTypeOK
<1>2. sent[Len(sent)] \in Shapes
  BY <1>1
<1>3. Cut(sent[Len(sent)].frames)
  BY <1>2, SocketAssumption
<1> DEFINE F == sent[Len(sent)].frames
<1>4. F \in Seq(Frames) /\ F # <<>>
  BY <1>3 DEF Cut
<1>5. Len(F) \in Nat \ {0} /\ \A i \in 1 .. Len(F) : F[i] \in Frames
  BY <1>4
<1>6. QED
  BY <1>1, <1>2, <1>3, <1>4, <1>5 DEF Cut, Frames

\* The state the connection begins in.
LEMMA SocketBegins == ASSUME SocketInit PROVE SocketInv
<1>1. NoUser \in Users /\ Rest \in [frame : Nat, off : Nat]
  BY DEF NoUser, Users, Rest
<1>2. SocketTypeOK
  BY <1>1, SocketAssumption DEF SocketInit, SocketTypeOK
<1>3. Sending /\ Buffered /\ Queued
  BY DEF SocketInit, Sending, Buffered, Queued
<1>4. Introduced
  BY DEF SocketInit, Introduced, UserIsOne, NoUser
<1>5. QED
  BY <1>2, <1>3, <1>4 DEF SocketInv

\* The server starts message Len(sent) + 1, in a buffer that is empty.
LEMMA StartKeeps == ASSUME SocketInv, Start PROVE SocketInv'
<1> DEFINE m == Len(sent) + 1
<1>1. PICK s \in Shapes :
          /\ sent' = Append(sent, s)
          /\ told' = [told EXCEPT !.users = @ \cup {s.users[i] : i \in DOMAIN s.users}]
  BY DEF Start
<1>2. /\ up /\ at = Rest /\ Len(sent) < MaxMessages /\ at' = [frame |-> 1, off |-> 0]
      /\ UNCHANGED <<up, frag, queue, users, auth, losses>>
  BY DEF Start
<1>3. SocketTypeOK /\ Buffered /\ Queued /\ Introduced
  BY DEF SocketInv
<1>4. sent \in Seq(Shapes) /\ Len(sent) \in Nat /\ m \in Nat \ {0} /\ MaxMessages \in Nat
  BY <1>3, SocketAssumption DEF SocketTypeOK
<1>5. /\ sent' \in Seq(Shapes) /\ Len(sent') = m /\ sent'[m] = s
      /\ \A i \in 1 .. Len(sent) : sent'[i] = sent[i]
  BY <1>1, <1>4, AppendProperties
<1>6. Cut(s.frames) /\ s.users \in Seq(Users)
  BY SocketAssumption
<1>7. /\ told'.maimed = told.maimed
      /\ told'.users = told.users \cup {s.users[i] : i \in DOMAIN s.users}
      /\ told' \in [users : SUBSET Users, maimed : SUBSET Nat]
  <2>1. told \in [users : SUBSET Users, maimed : SUBSET Nat]
    BY <1>3 DEF SocketTypeOK
  <2>2. {s.users[i] : i \in DOMAIN s.users} \subseteq Users
    BY <1>6
  <2> DEFINE named == {s.users[i] : i \in DOMAIN s.users}
  <2>3. told' = [told EXCEPT !.users = @ \cup named]
    BY <1>1
  <2> HIDE DEF named
  <2>4. /\ told'.maimed = told.maimed /\ told'.users = told.users \cup named
        /\ told' \in [users : SUBSET Users, maimed : SUBSET Nat]
    BY <2>1, <2>2, <2>3 DEF named
  <2>5. QED
    BY <2>4 DEF named
<1>8. at' # Rest /\ at'.frame = 1 /\ at'.off = 0 /\ at' \in [frame : Nat, off : Nat]
  BY <1>2 DEF Rest
<1>9. SocketTypeOK'
  <2>1. Len(sent') <= MaxMessages
    BY <1>2, <1>4, <1>5
  <2>2. QED
    BY <1>2, <1>3, <1>5, <1>7, <1>8, <2>1 DEF SocketTypeOK
<1>10. /\ s.frames \in Seq(Frames) /\ Len(s.frames) \in Nat \ {0}
       /\ s.frames[1] \in Frames /\ s.frames[1].from = 0 /\ s.frames[1].len \in Nat \ {0}
  <2>1. s.frames \in Seq(Frames) /\ s.frames # <<>> /\ s.frames[1].from = 0
    BY <1>6 DEF Cut
  <2>2. Len(s.frames) \in Nat \ {0}
    BY <2>1
  <2>3. s.frames[1] \in Frames
    BY <2>1, <2>2
  <2>4. QED
    BY <2>1, <2>2, <2>3 DEF Frames
<1>11. Current' = s.frames[1]
  BY <1>5, <1>8 DEF Current
<1>12. Sending'
  <2>1. sent' # <<>>
    BY <1>4, <1>5
  <2>2. 1 \in 1 .. Len(s.frames) /\ 0 < s.frames[1].len
    BY <1>10
  <2>3. QED
    BY <1>2, <1>5, <1>8, <1>11, <2>1, <2>2 DEF Sending
<1>13. frag' = <<>> /\ frag' = Units(m, 1, 0)
  <2>1. frag' = <<>>
    BY <1>2, <1>3 DEF Buffered
  <2>2. Units(m, 1, 0) \in Seq(Unit) /\ Len(Units(m, 1, 0)) = 0
    BY <1>4, UnitsAre
  <2>3. Units(m, 1, 0) = <<>>
    BY <2>2, EmptySeq
  <2>4. QED
    BY <2>1, <2>3
<1>14. Buffered'
  <2>1. \A j \in 1 .. Len(frag') : frag'[j][1] = m
    BY <1>13
  <2>2. Current'.from + at'.off = 0
    BY <1>8, <1>10, <1>11
  <2>3. QED
    BY <1>5, <1>8, <1>13, <2>1, <2>2 DEF Buffered
<1>15. Queued'
  <2>1. ASSUME NEW i \in 1 .. Len(queue) PROVE Fit(queue[i])'
    <3>1. Fit(queue[i])
      BY <1>3 DEF Queued
    <3> DEFINE c == queue[i][1][1]
    <3>2. c \in 1 .. Len(sent) /\ c \in 1 .. Len(sent') /\ sent'[c] = sent[c]
      BY <1>4, <1>5, <3>1 DEF Fit
    <3>3. Whole(c)' = Whole(c)
      BY <1>2, <3>2 DEF Whole
    <3>4. QED
      BY <1>2, <1>7, <3>1, <3>2, <3>3 DEF Fit
  <2>2. QED
    BY <1>2, <2>1 DEF Queued
<1>16. Introduced'
  <2>1. ASSUME NEW i \in 1 .. Len(sent'), NEW j \in 1 .. Len(sent'[i].users)
        PROVE  sent'[i].users[j] \in told'.users
    <3>1. CASE i \in 1 .. Len(sent)
      BY <1>3, <1>5, <1>7, <3>1 DEF Introduced
    <3>2. CASE i = m
      <4>1. DOMAIN s.users = 1 .. Len(s.users)
        BY <1>6
      <4>2. QED
        BY <1>5, <1>7, <3>2, <4>1
    <3>3. QED
      BY <1>4, <1>5, <3>1, <3>2
  <2>2. UserIsOne'
    BY <1>2, <1>3, <1>7 DEF Introduced, UserIsOne
  <2>3. QED
    BY <1>2, <1>3, <1>7, <2>1, <2>2 DEF Introduced
<1>17. QED
  BY <1>9, <1>12, <1>14, <1>15, <1>16 DEF SocketInv

\* A connection that is lost takes the frame being sent with it.
LEMMA LoseKeeps == ASSUME SocketInv, Lose PROVE SocketInv'
<1>1. /\ up' = FALSE /\ losses < MaxLosses /\ losses' = losses + 1
      /\ at' = Rest /\ frag' \in {<<>>, frag}
      /\ UNCHANGED <<sent, queue, users, auth, told>>
  BY DEF Lose
<1>2. SocketTypeOK /\ Queued /\ Introduced
  BY DEF SocketInv
<1>3. SocketTypeOK'
  <2>1. losses' \in 0 .. MaxLosses
    BY <1>1, <1>2, SocketAssumption DEF SocketTypeOK
  <2>2. at' \in [frame : Nat, off : Nat]
    BY <1>1 DEF Rest
  <2>3. frag' \in Seq(Nat \X Nat) /\ Len(frag') < BufSize
    <3>1. CASE frag' = <<>>
      BY <3>1, SocketAssumption
    <3>2. CASE frag' = frag
      BY <1>2, <3>2 DEF SocketTypeOK
    <3>3. QED
      BY <1>1, <3>1, <3>2
  <2>4. QED
    BY <1>1, <1>2, <2>1, <2>2, <2>3 DEF SocketTypeOK
<1>4. Sending' /\ Buffered'
  BY <1>1 DEF Sending, Buffered, Rest
<1>5. Queued'
  BY <1>1, <1>2 DEF Queued, Fit, Whole
<1>6. Introduced'
  BY <1>1, <1>2 DEF Introduced, UserIsOne
<1>7. QED
  BY <1>3, <1>4, <1>5, <1>6 DEF SocketInv

\* A new connection begins with an empty buffer.
LEMMA ReconnectKeeps == ASSUME SocketInv, Reconnect PROVE SocketInv'
<1>1. /\ ~up /\ up' = TRUE /\ frag' = <<>>
      /\ UNCHANGED <<sent, at, queue, users, auth, losses, told>>
  BY DEF Reconnect
<1>2. SocketTypeOK /\ Sending /\ Queued /\ Introduced
  BY DEF SocketInv
<1>3. SocketTypeOK'
  <2>1. frag' \in Seq(Nat \X Nat) /\ Len(frag') < BufSize
    BY <1>1, SocketAssumption
  <2>2. QED
    BY <1>1, <1>2, <2>1 DEF SocketTypeOK
<1>4. at' = Rest
  BY <1>1, <1>2 DEF Sending
<1>5. Sending' /\ Buffered'
  BY <1>1, <1>4 DEF Sending, Buffered, Rest
<1>6. Queued'
  BY <1>1, <1>2 DEF Queued, Fit, Whole
<1>7. Introduced'
  BY <1>1, <1>2 DEF Introduced, UserIsOne
<1>8. QED
  BY <1>3, <1>5, <1>6, <1>7 DEF SocketInv

\* The message that is taken from the queue names the users of one that was sent.
LEMMA HandleKeeps == ASSUME SocketInv, Handle PROVE SocketInv'
<1>1. /\ queue # <<>> /\ queue' = Tail(queue) /\ users' = Named(Head(queue))
      /\ UNCHANGED <<up, sent, at, frag, auth, losses, told>>
  BY DEF Handle
<1>2. SocketTypeOK /\ Sending /\ Buffered /\ Queued /\ Introduced
  BY DEF SocketInv
<1>3. queue \in Seq(Seq(Unit)) /\ Len(queue) <= QueueLen /\ sent \in Seq(Shapes)
  BY <1>2 DEF SocketTypeOK, Unit
<1>4. Len(queue) \in Nat \ {0} /\ Head(queue) = queue[1]
  BY <1>1, <1>3
<1>5. /\ queue' \in Seq(Seq(Unit)) /\ Len(queue') = Len(queue) - 1
      /\ \A i \in 1 .. Len(queue') : queue'[i] = queue[i + 1]
  BY <1>1, <1>3, HeadTailProperties
<1> DEFINE c == queue[1][1][1]
<1>6. c \in 1 .. Len(sent)
  BY <1>2, <1>4 DEF Queued, Fit
<1>7. sent[c] \in Shapes /\ sent[c].users \in Seq(Users)
  BY <1>3, <1>6, SocketAssumption
<1>8. users' = sent[c].users \/ users' = <<>>
  BY <1>1, <1>4 DEF Named
<1>9. SocketTypeOK'
  <2>1. Len(queue') <= QueueLen
    BY <1>3, <1>4, <1>5, SocketAssumption
  <2>2. users' \in Seq(Users)
    <3>1. CASE users' = sent[c].users
      BY <1>7, <3>1
    <3>2. CASE users' = <<>>
      BY <3>2
    <3>3. QED
      BY <1>8, <3>1, <3>2
  <2>3. queue' \in Seq(Seq(Nat \X Nat))
    BY <1>5 DEF Unit
  <2>4. QED
    BY <1>1, <1>2, <2>1, <2>2, <2>3 DEF SocketTypeOK
<1>10. Sending'
  BY <1>1, <1>2 DEF Sending, Current
<1>11. Buffered'
  BY <1>1, <1>2 DEF Buffered, Current, Units
<1>12. Queued'
  <2>1. ASSUME NEW i \in 1 .. Len(queue') PROVE Fit(queue[i])'
    <3>1. i + 1 \in 1 .. Len(queue) /\ queue'[i] = queue[i + 1]
      BY <1>4, <1>5
    <3>2. Fit(queue[i + 1])
      BY <1>2, <3>1 DEF Queued
    <3>3. Fit(queue[i + 1]) => Fit(queue[i])'
      BY <1>1, <3>1 DEF Fit, Whole
    <3>4. QED
      BY <3>2, <3>3
  <2>2. QED
    BY <2>1 DEF Queued
<1>13. Introduced'
  <2>1. UserIsOne'
    BY <1>1, <1>2 DEF Introduced, UserIsOne
  <2>2. \A i \in 1 .. Len(users') : users'[i] \in told.users
    BY <1>2, <1>6, <1>8 DEF Introduced
  <2>3. QED
    BY <1>1, <1>2, <2>1, <2>2 DEF Introduced
<1>14. QED
  BY <1>9, <1>10, <1>11, <1>12, <1>13 DEF SocketInv

\* What the cache keeps of a user is of the same one.
LEMMA RememberKeeps == ASSUME SocketInv, Remember PROVE SocketInv'
<1> DEFINE u == Head(users)
           kept == IF u.openid = auth.openid THEN auth ELSE NoUser
<1>1. /\ users # <<>> /\ users' = Tail(users)
      /\ auth' = IF u.openid = 0 THEN auth
                 ELSE [openid |-> u.openid,
                       model  |-> IF u.model # 0 THEN u.model ELSE kept.model,
                       app    |-> IF u.app # 0 THEN u.app ELSE kept.app]
      /\ UNCHANGED <<up, sent, at, frag, queue, losses, told>>
  BY DEF Remember
<1>2. SocketTypeOK /\ Sending /\ Buffered /\ Queued /\ Introduced
  BY DEF SocketInv
<1>3. users \in Seq(Users) /\ auth \in Users
  BY <1>2 DEF SocketTypeOK
<1>4. Len(users) \in Nat \ {0} /\ u = users[1] /\ u \in Users
  BY <1>1, <1>3
<1>5. /\ users' \in Seq(Users) /\ Len(users') = Len(users) - 1
      /\ \A i \in 1 .. Len(users') : users'[i] = users[i + 1]
  BY <1>1, <1>3, HeadTailProperties
<1>6. u \in told.users
  BY <1>2, <1>4 DEF Introduced
<1> HIDE DEF u
<1>7. kept \in Users
  BY <1>3 DEF Users, NoUser
<1>8. /\ kept.model # 0 => kept = auth /\ u.openid = auth.openid
      /\ kept.app # 0 => kept = auth /\ u.openid = auth.openid
  BY DEF NoUser
<1> HIDE DEF kept
<1>9. auth' \in Users
  BY <1>1, <1>3, <1>4, <1>7 DEF Users
<1>10. SocketTypeOK'
  BY <1>1, <1>2, <1>5, <1>9 DEF SocketTypeOK
<1>11. Sending'
  BY <1>1, <1>2 DEF Sending, Current
<1>12. Buffered'
  BY <1>1, <1>2 DEF Buffered, Current, Units
<1>13. Queued'
  BY <1>1, <1>2 DEF Queued, Fit, Whole
<1>14. UserIsOne'
  <2>1. UserIsOne
    BY <1>2 DEF Introduced
  <2>2. CASE u.openid = 0
    BY <1>1, <2>1, <2>2 DEF UserIsOne
  <2>3. CASE u.openid # 0
    <3>1. /\ auth'.openid = u.openid
          /\ auth'.model = IF u.model # 0 THEN u.model ELSE kept.model
          /\ auth'.app = IF u.app # 0 THEN u.app ELSE kept.app
      BY <1>1, <2>3
    <3>2. auth'.model # 0 =>
              \E w \in told.users : w.openid = auth'.openid /\ w.model = auth'.model
      BY <1>6, <1>8, <2>1, <3>1 DEF UserIsOne
    <3>3. auth'.app # 0 =>
              \E w \in told.users : w.openid = auth'.openid /\ w.app = auth'.app
      BY <1>6, <1>8, <2>1, <3>1 DEF UserIsOne
    <3>4. QED
      BY <1>1, <3>2, <3>3 DEF UserIsOne
  <2>4. QED
    BY <2>2, <2>3
<1>15. Introduced'
  <2>1. \A i \in 1 .. Len(users') : i + 1 \in 1 .. Len(users)
    BY <1>4, <1>5
  <2>2. \A i \in 1 .. Len(users') : users'[i] \in told.users
    BY <1>2, <1>5, <2>1 DEF Introduced
  <2>3. QED
    BY <1>1, <1>2, <1>14, <2>2 DEF Introduced
<1>16. QED
  BY <1>10, <1>11, <1>12, <1>13, <1>15 DEF SocketInv

\* Where the next units of the message that is being sent go.
LEMMA DataGoesOn ==
    ASSUME SocketInv, NEW k \in 1 .. BufSize, at # Rest, Data(k)
    PROVE  LET n == Len(sent)
               F == sent[n].frames
               c == F[at.frame]
           IN /\ n \in Nat \ {0} /\ at.frame \in 1 .. Len(F) /\ at.off \in Nat /\ k \in Nat \ {0}
              /\ c = Current /\ c.from \in Nat /\ c.len \in Nat \ {0} /\ at.off + k <= c.len
              /\ UNCHANGED <<sent, up>> /\ up
              /\ at' \in [frame : Nat, off : Nat]
              /\ \/ /\ at' # Rest /\ at.off + k < c.len
                    /\ at'.frame = at.frame /\ at'.off = at.off + k
                 \/ at' = Rest /\ at.off + k = c.len /\ at.frame = Len(F)
                 \/ /\ at' # Rest /\ at.off + k = c.len /\ at.frame + 1 \in 1 .. Len(F)
                    /\ at'.frame = at.frame + 1 /\ at'.off = 0
<1> DEFINE n == Len(sent)
           F == sent[n].frames
           c == F[at.frame]
<1>1. SocketTypeOK /\ Sending
  BY DEF SocketInv
<1>2. sent # <<>> /\ at.frame \in 1 .. Len(F) /\ at.off < c.len
  BY <1>1 DEF Sending, Current
<1>3. n \in Nat \ {0} /\ Len(F) \in Nat \ {0} /\ c.from \in Nat /\ c.len \in Nat \ {0}
  BY <1>1, <1>2, MessageIs
<1>4. at \in [frame : Nat, off : Nat]
  BY <1>1 DEF SocketTypeOK
<1>5. at.frame \in Nat \ {0} /\ at.off \in Nat
  BY <1>2, <1>3, <1>4
<1>6. up /\ k <= c.len - at.off /\ Advance(k) /\ UNCHANGED <<sent, up>>
  BY DEF Data, Current
<1>7. k \in Nat \ {0} /\ at.off + k <= c.len
  BY <1>3, <1>5, <1>6, SocketAssumption
<1> HIDE DEF c, F, n
<1>8. at' = IF at.off + k < c.len THEN [at EXCEPT !.off = @ + k]
            ELSE IF at.frame = Len(F) THEN Rest
            ELSE [frame |-> at.frame + 1, off |-> 0]
  BY <1>6 DEF Advance, Current, IsLastFrame, c, F, n
<1>9. /\ at' \in [frame : Nat, off : Nat]
      /\ \/ /\ at' # Rest /\ at.off + k < c.len
            /\ at'.frame = at.frame /\ at'.off = at.off + k
         \/ at' = Rest /\ at.off + k = c.len /\ at.frame = Len(F)
         \/ /\ at' # Rest /\ at.off + k = c.len /\ at.frame + 1 \in 1 .. Len(F)
            /\ at'.frame = at.frame + 1 /\ at'.off = 0
  <2>1. CASE at.off + k < c.len
    <3>1. at' = [at EXCEPT !.off = @ + k]
      BY <1>8, <2>1
    <3>2. /\ at' \in [frame : Nat, off : Nat]
          /\ at'.frame = at.frame /\ at'.off = at.off + k
      BY <1>4, <1>5, <1>7, <3>1
    <3>3. at' # Rest
      BY <1>5, <3>2 DEF Rest
    <3>4. QED
      BY <2>1, <3>2, <3>3
  <2>2. CASE ~(at.off + k < c.len) /\ at.frame = Len(F)
    <3>1. at' = Rest
      BY <1>8, <2>2
    <3>2. at.off + k = c.len
      BY <1>3, <1>5, <1>7, <2>2
    <3>3. QED
      BY <2>2, <3>1, <3>2 DEF Rest
  <2>3. CASE ~(at.off + k < c.len) /\ at.frame # Len(F)
    <3>1. at' = [frame |-> at.frame + 1, off |-> 0]
      BY <1>8, <2>3
    <3>2. at.off + k = c.len
      BY <1>3, <1>5, <1>7, <2>3
    <3>3. at.frame + 1 \in 1 .. Len(F)
      BY <1>2, <1>3, <2>3 DEF F, n
    <3>4. at'.frame = at.frame + 1 /\ at'.off = 0 /\ at' \in [frame : Nat, off : Nat] /\ at' # Rest
      BY <1>5, <3>1 DEF Rest
    <3>5. QED
      BY <3>2, <3>3, <3>4
  <2>4. QED
    BY <2>1, <2>2, <2>3
<1>10. c = Current
  BY DEF c, F, n, Current
<1>11. /\ n \in Nat \ {0} /\ at.frame \in 1 .. Len(F) /\ at.off \in Nat /\ k \in Nat \ {0}
       /\ c.from \in Nat /\ c.len \in Nat \ {0} /\ at.off + k <= c.len /\ up
  BY <1>2, <1>3, <1>5, <1>6, <1>7 DEF c, F, n
<1>12. QED
  BY <1>6, <1>9, <1>10, <1>11 DEF c, F, n

\* What the buffer holds with them: units of that message, and all of it up to there
\* unless it was maimed or they do not fit.
LEMMA BufferGrows ==
    ASSUME SocketInv, NEW k \in 1 .. BufSize, at # Rest, Data(k)
    PROVE  LET n == Len(sent)
               got == frag \o Units(n, Place, k)
               fits == Len(frag) + k < BufSize
               kept == IF fits THEN got ELSE frag
           IN /\ kept \in Seq(Unit) /\ Len(kept) < BufSize
              /\ \A j \in 1 .. Len(kept) : kept[j][1] = n
              /\ fits /\ n \notin told.maimed =>
                     kept = Units(n, 1, Current.from + at.off + k)
<1> DEFINE n == Len(sent)
           from == Current.from + at.off
           U == Units(n, from + 1, k)
           got == frag \o U
           fits == Len(frag) + k < BufSize
           kept == IF fits THEN got ELSE frag
<1>1. /\ n \in Nat \ {0} /\ from \in Nat /\ k \in Nat \ {0} /\ up
  <2>1. n \in Nat \ {0} /\ k \in Nat \ {0} /\ up /\ at.off \in Nat /\ Current.from \in Nat
    BY ONLY SocketInv, at # Rest, Data(k), DataGoesOn, k \in 1 .. BufSize
  <2>2. QED
    BY <2>1
<1>2. /\ frag \in Seq(Unit) /\ Len(frag) < BufSize
      /\ \A j \in 1 .. Len(frag) : frag[j][1] = n
      /\ n \notin told.maimed => frag = Units(n, 1, from)
  BY <1>1 DEF SocketInv, SocketTypeOK, Buffered, Unit
<1>3. Place = from + 1
  BY DEF Place
<1> HIDE DEF n, from
<1>4. U \in Seq(Unit) /\ Len(U) = k /\ \A j \in 1 .. k : U[j] = <<n, from + 1 + j - 1>>
  <2>1. n \in Nat /\ from + 1 \in Nat \ {0} /\ k \in Nat
    BY <1>1
  <2>2. U \in Seq(Unit) /\ Len(U) = k
    BY <2>1, UnitsAre
  <2>3. \A j \in 1 .. k : U[j] = <<n, from + 1 + j - 1>>
    BY DEF Units
  <2>4. QED
    BY <2>2, <2>3
<1>5. /\ got \in Seq(Unit) /\ Len(got) = Len(frag) + Len(U)
      /\ \A j \in 1 .. Len(frag) + Len(U) :
            got[j] = IF j <= Len(frag) THEN frag[j] ELSE U[j - Len(frag)]
  <2> HIDE DEF U
  <2>1. QED
    BY <1>2, <1>4, ConcatProperties
<1>6. n \notin told.maimed => got = Units(n, 1, from + k)
  <2>1. Units(n, 1, from) \o U = Units(n, 1, from + k)
    <3>1. n \in Nat /\ k \in Nat
      BY <1>1
    <3>2. QED
      BY <1>1, <3>1, UnitsJoin
  <2>2. QED
    BY <1>2, <2>1
<1> HIDE DEF U, got
<1>7. Len(frag) \in Nat
  BY <1>2
<1>8. \A j \in 1 .. Len(got) : got[j][1] = n
  <2> SUFFICES ASSUME NEW j \in 1 .. Len(got) PROVE got[j][1] = n
    OBVIOUS
  <2>1. CASE j <= Len(frag)
    <3>1. j \in 1 .. Len(frag) /\ got[j] = frag[j]
      BY <1>4, <1>5, <1>7, <2>1
    <3>2. QED
      BY <1>2, <3>1
  <2>2. CASE ~(j <= Len(frag))
    <3>1. j - Len(frag) \in 1 .. k /\ got[j] = U[j - Len(frag)]
      BY <1>1, <1>4, <1>5, <1>7, <2>2
    <3>2. QED
      BY <1>4, <3>1
  <2>3. QED
    BY <2>1, <2>2
<1>9. /\ kept \in Seq(Unit) /\ Len(kept) < BufSize
      /\ \A j \in 1 .. Len(kept) : kept[j][1] = n
      /\ fits /\ n \notin told.maimed => kept = Units(n, 1, from + k)
  <2>1. CASE fits
    BY <1>4, <1>5, <1>6, <1>8, <2>1
  <2>2. CASE ~fits
    BY <1>2, <2>2
  <2>3. QED
    BY <2>1, <2>2
<1>10. QED
  BY <1>3, <1>9 DEF n, from, U, got

\* What the history has of it.
LEMMA DataMaims ==
    ASSUME SocketInv, NEW k \in 1 .. BufSize, Data(k)
    PROVE  LET n == Len(sent)
               fits == Len(frag) + k < BufSize
               lf == at.frame = Len(sent[n].frames)
           IN /\ told' \in [users : SUBSET Users, maimed : SUBSET Nat]
              /\ told'.users = told.users /\ told.maimed \subseteq told'.maimed
              /\ n \notin told'.maimed =>
                     /\ n \notin told.maimed
                     /\ Current.op # "binary" /\ ~(Current.len >= BufSize) /\ fits
                     /\ ~(lf /\ k < Current.len)
<1> DEFINE n == Len(sent)
           fits == Len(frag) + k < BufSize
           lf == at.frame = Len(sent[n].frames)
           spoilt == \/ Current.op = "binary" \/ Current.len >= BufSize \/ ~fits
                     \/ lf /\ k < Current.len
<1>1. told \in [users : SUBSET Users, maimed : SUBSET Nat] /\ n \in Nat
  BY DEF SocketInv, SocketTypeOK
<1>2. told' = IF spoilt THEN [told EXCEPT !.maimed = @ \cup {n}] ELSE told
  BY DEF Data, Maim, IsLastFrame
<1> HIDE DEF n, spoilt
<1>3. CASE spoilt
  <2>1. /\ told' \in [users : SUBSET Users, maimed : SUBSET Nat]
        /\ told'.users = told.users /\ told'.maimed = told.maimed \cup {n}
    BY <1>1, <1>2, <1>3
  <2>2. QED
    BY <2>1 DEF n
<1>4. CASE ~spoilt
  <2>1. told' = told
    BY <1>2, <1>4
  <2>2. Current.op # "binary" /\ ~(Current.len >= BufSize) /\ fits /\ ~(lf /\ k < Current.len)
    BY <1>4 DEF spoilt
  <2>3. QED
    BY <1>1, <2>1, <2>2 DEF n
<1>5. QED
  BY <1>3, <1>4

\* DATA, in the buffer: between messages it is empty again, and within one it goes on
\* where the frames do.
LEMMA DataBuffers ==
    ASSUME SocketInv, NEW k \in 1 .. BufSize, at # Rest, Data(k)
    PROVE  frag' \in Seq(Unit) /\ Len(frag') < BufSize /\ Sending' /\ Buffered'
<1> DEFINE n == Len(sent)
           F == sent[n].frames
           c == Current
           fits == Len(frag) + k < BufSize
           kept == IF fits THEN frag \o Units(n, Place, k) ELSE frag
<1>1. /\ n \in Nat \ {0} /\ at.frame \in 1 .. Len(F) /\ at.off \in Nat /\ k \in Nat \ {0}
      /\ c = F[at.frame] /\ c.from \in Nat /\ c.len \in Nat \ {0} /\ at.off + k <= c.len
      /\ sent' = sent /\ up' = up /\ up
  BY ONLY SocketInv, at # Rest, Data(k), DataGoesOn, k \in 1 .. BufSize
<1>2. \/ /\ at' # Rest /\ at.off + k < c.len
         /\ at'.frame = at.frame /\ at'.off = at.off + k
      \/ at' = Rest /\ at.off + k = c.len /\ at.frame = Len(F)
      \/ /\ at' # Rest /\ at.off + k = c.len /\ at.frame + 1 \in 1 .. Len(F)
         /\ at'.frame = at.frame + 1 /\ at'.off = 0
  BY ONLY <1>1, SocketInv, at # Rest, Data(k), DataGoesOn, k \in 1 .. BufSize
<1>3. /\ kept \in Seq(Unit) /\ Len(kept) < BufSize
      /\ \A j \in 1 .. Len(kept) : kept[j][1] = n
      /\ fits /\ n \notin told.maimed => kept = Units(n, 1, c.from + at.off + k)
  BY ONLY SocketInv, at # Rest, Data(k), BufferGrows, k \in 1 .. BufSize
<1>4. sent # <<>>
  BY DEF SocketInv, Sending
<1>5. /\ c.op \in {"text", "more", "binary"} /\ Len(F) \in Nat \ {0}
      /\ \A i \in 1 .. Len(F) : F[i].len \in Nat \ {0} /\ (F[i].op = "more" <=> i > 1)
      /\ \A i \in 1 .. Len(F) - 1 : F[i + 1].from = F[i].from + F[i].len
  <2>1. SocketTypeOK /\ F[at.frame] \in Frames
    BY <1>1, <1>4, MessageIs DEF SocketInv
  <2>2. c.op \in {"text", "more", "binary"}
    BY <1>1, <2>1 DEF Frames
  <2>3. QED
    BY <1>4, <2>1, <2>2, MessageIs
<1>6. /\ frag \in Seq(Unit) /\ Len(frag) < BufSize
      /\ \A j \in 1 .. Len(frag) : frag[j][1] = n
      /\ c.op = "binary" => frag = <<>>
  BY <1>1 DEF SocketInv, SocketTypeOK, Buffered, Unit
<1>7. frag' = IF c.op \notin {"text", "more"} THEN frag
              ELSE IF c.len >= BufSize \/ at.frame = Len(F) THEN <<>> ELSE kept
  BY DEF Data, IsLastFrame
<1>8. /\ told.maimed \subseteq told'.maimed
      /\ n \notin told'.maimed =>
            /\ n \notin told.maimed
            /\ c.op # "binary" /\ ~(c.len >= BufSize) /\ fits /\ ~(at.frame = Len(F) /\ k < c.len)
  BY DataMaims
<1> HIDE DEF kept, fits, c, F, n
<1>9. frag' \in Seq(Unit) /\ Len(frag') < BufSize /\ \A j \in 1 .. Len(frag') : frag'[j][1] = n
  <2>1. CASE frag' = <<>>
    BY <2>1, SocketAssumption
  <2>2. CASE frag' = frag
    BY <1>6, <2>2
  <2>3. CASE frag' = kept
    BY <1>3, <2>3
  <2>4. QED
    BY <1>7, <2>1, <2>2, <2>3
<1>10. at' = Rest => frag' = <<>>
  BY <1>1, <1>2, <1>5, <1>6, <1>7
<1>11. Current' = F[at'.frame] /\ Len(sent') = n /\ sent'[n].frames = F
  BY <1>1 DEF Current, n, F
<1>12. ASSUME at.off + k < c.len, at'.frame = at.frame, at'.off = at.off + k
       PROVE  /\ at'.frame \in 1 .. Len(F) /\ at'.off < Current'.len
              /\ Current'.op = "binary" => frag' = <<>>
              /\ n \notin told'.maimed => frag' = Units(n, 1, Current'.from + at'.off)
  <2>1. Current' = c
    BY <1>1, <1>11, <1>12
  <2>2. Current'.op = "binary" => frag' = <<>>
    BY <1>6, <1>7, <2>1
  <2>3. n \notin told'.maimed => frag' = kept /\ fits
    <3>1. k < c.len
      BY <1>1, <1>12
    <3>2. QED
      BY <1>1, <1>5, <1>7, <1>8, <3>1, SocketAssumption
  <2>4. Current'.from + at'.off = c.from + at.off + k
    BY <1>1, <1>12, <2>1
  <2>5. n \notin told'.maimed => frag' = Units(n, 1, Current'.from + at'.off)
    BY <1>3, <1>8, <2>3, <2>4
  <2>6. QED
    BY <1>1, <1>12, <2>1, <2>2, <2>5
<1>13. ASSUME at.off + k = c.len, at.frame + 1 \in 1 .. Len(F), at'.frame = at.frame + 1,
              at'.off = 0
       PROVE  /\ at'.frame \in 1 .. Len(F) /\ at'.off < Current'.len
              /\ Current'.op = "binary" => frag' = <<>>
              /\ n \notin told'.maimed => frag' = Units(n, 1, Current'.from + at'.off)
  <2>1. Current' = F[at.frame + 1] /\ Current'.len \in Nat \ {0} /\ Current'.op = "more"
    BY <1>1, <1>5, <1>11, <1>13
  <2>2. at.frame # Len(F) /\ at.frame \in 1 .. Len(F) - 1
    BY <1>1, <1>5, <1>13
  <2>3. n \notin told'.maimed => frag' = kept /\ fits
    BY <1>1, <1>5, <1>7, <1>8, <2>2, SocketAssumption
  <2>4. Current'.from = c.from + c.len
    BY <1>1, <1>5, <2>1, <2>2
  <2>5. Current'.from + at'.off = c.from + at.off + k
    BY <1>1, <1>13, <2>4
  <2>6. n \notin told'.maimed => frag' = Units(n, 1, Current'.from + at'.off)
    BY <1>3, <1>8, <2>3, <2>5
  <2>7. QED
    BY <1>13, <2>1, <2>6
<1>14. at' # Rest =>
           /\ at'.frame \in 1 .. Len(F) /\ at'.off < Current'.len
           /\ Current'.op = "binary" => frag' = <<>>
           /\ n \notin told'.maimed => frag' = Units(n, 1, Current'.from + at'.off)
  BY <1>2, <1>12, <1>13
<1>15. Sending'
  BY <1>1, <1>4, <1>11, <1>14 DEF Sending
<1>16. Buffered'
  BY <1>9, <1>10, <1>11, <1>14 DEF Buffered
<1>17. QED
  BY <1>9, <1>15, <1>16

\* DATA, in the queue: a message that is handed on is of one sender's making, and whole.
LEMMA DataHandsOn ==
    ASSUME SocketInv, NEW k \in 1 .. BufSize, at # Rest, Data(k)
    PROVE  queue' \in Seq(Seq(Unit)) /\ Len(queue') <= QueueLen /\ Queued'
<1> DEFINE n == Len(sent)
           F == sent[n].frames
           c == Current
           fits == Len(frag) + k < BufSize
           kept == IF fits THEN frag \o Units(n, Place, k) ELSE frag
<1>1. /\ n \in Nat \ {0} /\ at.frame \in 1 .. Len(F) /\ at.off \in Nat /\ k \in Nat \ {0}
      /\ c = F[at.frame] /\ c.from \in Nat /\ c.len \in Nat \ {0} /\ at.off + k <= c.len
      /\ sent' = sent
  BY ONLY SocketInv, at # Rest, Data(k), DataGoesOn, k \in 1 .. BufSize
<1>2. /\ kept \in Seq(Unit) /\ Len(kept) < BufSize
      /\ \A j \in 1 .. Len(kept) : kept[j][1] = n
      /\ fits /\ n \notin told.maimed => kept = Units(n, 1, c.from + at.off + k)
  BY ONLY SocketInv, at # Rest, Data(k), BufferGrows, k \in 1 .. BufSize
<1>3. /\ told.maimed \subseteq told'.maimed
      /\ n \notin told'.maimed =>
            /\ n \notin told.maimed
            /\ c.op # "binary" /\ ~(c.len >= BufSize) /\ fits /\ ~(at.frame = Len(F) /\ k < c.len)
  BY DataMaims
<1>4. queue \in Seq(Seq(Unit)) /\ Len(queue) <= QueueLen /\ Queued
  BY DEF SocketInv, SocketTypeOK, Unit
<1>5. \/ queue' = queue
      \/ /\ kept # <<>> /\ Len(queue) < QueueLen /\ queue' = Append(queue, kept)
         /\ at.frame = Len(F)
  BY DEF Data, Enqueue, IsLastFrame
<1>6. ASSUME NEW q, Fit(q) PROVE  /\ q # <<>> /\ q[1][1] \in 1 .. Len(sent)
                                  /\ \A j \in 1 .. Len(q) : q[j][1] = q[1][1]
                                  /\ q[1][1] \notin told'.maimed => q = Whole(q[1][1])
  BY <1>3, <1>6 DEF Fit
<1>7. kept # <<>> /\ at.frame = Len(F) =>
          /\ kept[1][1] = n /\ n \in 1 .. Len(sent)
          /\ \A j \in 1 .. Len(kept) : kept[j][1] = n
          /\ n \notin told'.maimed => kept = Whole(n)
  <2> SUFFICES ASSUME kept # <<>>, at.frame = Len(F)
               PROVE  /\ kept[1][1] = n /\ n \in 1 .. Len(sent)
                      /\ \A j \in 1 .. Len(kept) : kept[j][1] = n
                      /\ n \notin told'.maimed => kept = Whole(n)
    OBVIOUS
  <2> HIDE DEF kept, fits, c
  <2>1. Len(kept) \in Nat \ {0}
    BY <1>2
  <2>2. kept[1][1] = n
    BY <1>2, <2>1
  <2>3. n \notin told'.maimed => k = c.len /\ fits
    BY <1>1, <1>3
  <2>4. n \notin told'.maimed => at.off = 0 /\ c.from + at.off + k = c.from + c.len
    BY <1>1, <2>3
  <2>5. Whole(n) = Units(n, 1, c.from + c.len)
    BY <1>1 DEF Whole, LengthOf
  <2>6. n \notin told'.maimed => kept = Whole(n)
    BY <1>2, <1>3, <2>3, <2>4, <2>5
  <2>7. QED
    BY <1>1, <1>2, <2>2, <2>6
<1> HIDE DEF kept, fits, c, F
<1>8. CASE queue' = queue
  BY <1>1, <1>4, <1>6, <1>8 DEF Queued, Fit, Whole
<1>9. CASE /\ kept # <<>> /\ Len(queue) < QueueLen /\ queue' = Append(queue, kept)
           /\ at.frame = Len(F)
  <2>1. /\ queue' \in Seq(Seq(Unit)) /\ Len(queue') = Len(queue) + 1
        /\ \A i \in 1 .. Len(queue) : queue'[i] = queue[i]
        /\ queue'[Len(queue) + 1] = kept
    BY <1>2, <1>4, <1>9, AppendProperties
  <2>2. Len(queue) \in Nat
    BY <1>4
  <2>3. Len(queue') <= QueueLen
    BY <1>9, <2>1, <2>2, SocketAssumption
  <2>4. ASSUME NEW i \in 1 .. Len(queue'), NEW q, q = queue'[i]
        PROVE  /\ q # <<>> /\ q[1][1] \in 1 .. Len(sent)
               /\ \A j \in 1 .. Len(q) : q[j][1] = q[1][1]
               /\ q[1][1] \notin told'.maimed => q = Whole(q[1][1])
    <3>1. CASE i \in 1 .. Len(queue)
      BY <1>4, <1>6, <2>1, <2>4, <3>1 DEF Queued
    <3>2. CASE i = Len(queue) + 1
      BY <1>7, <1>9, <2>1, <2>4, <3>2
    <3>3. QED
      BY <2>1, <2>2, <3>1, <3>2
  <2>5. Queued'
    BY <1>1, <2>4 DEF Queued, Fit, Whole
  <2>6. QED
    BY <2>1, <2>3, <2>5
<1>10. QED
  BY <1>5, <1>8, <1>9

\* DATA keeps the invariant.
LEMMA DataKeeps ==
    ASSUME SocketInv, NEW k \in 1 .. BufSize, at # Rest, Data(k)
    PROVE  SocketInv'
<1>1. /\ frag' \in Seq(Unit) /\ Len(frag') < BufSize /\ Sending' /\ Buffered'
      /\ queue' \in Seq(Seq(Unit)) /\ Len(queue') <= QueueLen /\ Queued'
  BY DataBuffers, DataHandsOn
<1>2. SocketTypeOK /\ Introduced
  BY DEF SocketInv
<1>3. UNCHANGED <<up, sent, users, auth, losses>>
  BY DEF Data
<1>4. at' \in [frame : Nat, off : Nat]
  BY ONLY SocketInv, at # Rest, Data(k), DataGoesOn, k \in 1 .. BufSize
<1>5. told' \in [users : SUBSET Users, maimed : SUBSET Nat] /\ told'.users = told.users
  BY <1>2, DataMaims DEF SocketTypeOK
<1>6. SocketTypeOK'
  BY <1>1, <1>2, <1>3, <1>4, <1>5 DEF SocketTypeOK, Unit
<1>7. Introduced'
  BY <1>2, <1>3, <1>5 DEF Introduced, UserIsOne
<1>8. QED
  BY <1>1, <1>6, <1>7 DEF SocketInv

\* So does every step of the socket.
LEMMA SocketSteps == ASSUME SocketInv, [SocketNext]_socketVars PROVE SocketInv'
<1>1. CASE Start
  BY <1>1, StartKeeps
<1>2. CASE \E k \in 1 .. BufSize : at # Rest /\ Data(k)
  BY <1>2, DataKeeps
<1>3. CASE Lose
  BY <1>3, LoseKeeps
<1>4. CASE Reconnect
  BY <1>4, ReconnectKeeps
<1>5. CASE Handle
  BY <1>5, HandleKeeps
<1>6. CASE Remember
  BY <1>6, RememberKeeps
<1>7. CASE UNCHANGED socketVars
  <2>1. SocketTypeOK' /\ Sending' /\ Buffered'
    BY <1>7 DEF SocketInv, socketVars, SocketTypeOK, Sending, Buffered, Current, Units
  <2>2. Queued' /\ Introduced'
    BY <1>7 DEF SocketInv, socketVars, Queued, Fit, Whole, Introduced, UserIsOne
  <2>3. QED
    BY <2>1, <2>2 DEF SocketInv
<1>8. QED
  BY <1>1, <1>2, <1>3, <1>4, <1>5, <1>6, <1>7 DEF SocketNext

\* The socket's invariant.
LEMMA SocketHolds == SocketSpec => []SocketInv
<1>1. SocketInit => SocketInv
  BY SocketBegins
<1>2. SocketInv /\ [SocketNext]_socketVars => SocketInv'
  BY SocketSteps
<1>3. QED
  BY <1>1, <1>2, PTL DEF SocketSpec

\* The socket's types.
THEOREM SocketTypes == SocketSpec => []SocketTypeOK
<1>1. SocketInv => SocketTypeOK
  BY DEF SocketInv
<1>2. QED
  BY <1>1, SocketHolds, PTL

\* websocket_event_handler() and handle_envelope(), for any messages, buffer, queue and
\* losses: what reaches the device is one message, whole unless it was maimed, and the
\* authorisation is of one user.
THEOREM NothingMixed == SocketSpec => []NothingIsMixed
<1>1. ASSUME SocketInv PROVE NothingIsMixed
  <2>1. queue \in Seq(Seq(Unit)) /\ DOMAIN queue = 1 .. Len(queue) /\ Queued
    BY <1>1 DEF SocketInv, SocketTypeOK, Unit
  <2>2. ASSUME NEW i \in 1 .. Len(queue)
        PROVE  /\ \A j \in DOMAIN queue[i] : queue[i][j][1] = queue[i][1][1]
               /\ queue[i][1][1] \notin told.maimed => queue[i] = Whole(queue[i][1][1])
    <3>1. Fit(queue[i]) /\ queue[i] \in Seq(Unit)
      BY <2>1 DEF Queued
    <3>2. DOMAIN queue[i] = 1 .. Len(queue[i])
      BY <3>1
    <3>3. QED
      BY <3>1, <3>2 DEF Fit
  <2>3. MessagesWhole
    BY <2>1, <2>2 DEF MessagesWhole
  <2>4. UserIsOne
    BY <1>1 DEF SocketInv, Introduced
  <2>5. QED
    BY <2>3, <2>4 DEF NothingIsMixed
<1>2. QED
  BY <1>1, SocketHolds, PTL
=============================================================================
