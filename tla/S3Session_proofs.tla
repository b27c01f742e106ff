-------------------------- MODULE S3Session_proofs --------------------------
(***************************************************************************)
(* What holds of the call session of the ESP32-S3 example in every state,  *)
(* for any number of invitations, any length of its two queues and any     *)
(* scenarios.                                                              *)
(***************************************************************************)
EXTENDS S3Session, SequenceTheorems, TLAPS

\* The states in which the media of a session may run.
Audible == {"in_call", "closing"}

\* A session by itself: what each state says of its fields.
Solid(x) ==
    /\ x \in Session
    /\ x.state = "idle" => x = Idle
    /\ x.state # "idle" => x.call # 0
    /\ x.state = "ringing" => x.conn = 0
    /\ x.state = "closing" => x.conn # 0

\* The WHIP of call n has not been made, nor is it about to be.
Unasked(n) ==
    /\ sdk[n] = "none"
    /\ AtStep("answer", "whip") => ConnOf("answer") # n

\* The SDK has opened the connection c.
Met(c) == sdk[c] \in {"opened", "open", "leaving", "closed"}

\* The session among the calls and connections there are.
Shaped ==
    /\ Solid(s)
    /\ s.call <= env.calls
    /\ s.state = "ringing" => Unasked(s.call)
    /\ s.conn # 0 => Met(s.conn)
    /\ past.crossed \/ s.conn \in {0, s.call}

\* Calls to come have no connection, and each call has one WHIP.
Numbered ==
    /\ \A c \in Calls : c > env.calls => sdk[c] = "none"
    /\ AtStep("answer", "whip") =>
            ConnOf("answer") <= env.calls /\ sdk[ConnOf("answer")] = "none"

\* Step x of a task releases c, session or no session.
Releases(x, c) == x \in {Post(Disconnect(c, FALSE)), Quiet(c, FALSE), Release(c, FALSE)}

\* Plan p of a task has such a step.
Promises(p, c) == \E i \in 1 .. Len(p) : Releases(p[i], c)

\* The answer task ends with "answered"; what the callback task leaves for later
\* are posts; a disconnect is all the work task has to do; the key's task
\* releases nothing by itself.
Planned ==
    /\ \/ todo["answer"] = <<>>
       \/ /\ answering # 0
          /\ \/ todo["answer"] = <<Just("answered")>>
             \/ /\ todo["answer"] = <<Head(todo["answer"]), Just("answered")>>
                /\ Head(todo["answer"]).do # "answered"
    /\ \A i \in 2 .. Len(todo["callback"]) : todo["callback"][i].do = "post"
    /\ \A i \in 1 .. Len(todo["work"]) :
            todo["work"][i].do = "quiet" => Len(todo["work"]) = 1
    /\ \A c \in Calls : ~Promises(todo["boot"], c)

\* What the SDK has told is of connections it has opened, their end of closed ones.
Told ==
    \A i \in 1 .. Len(inbox) :
        /\ Met(inbox[i].conn)
        /\ inbox[i].kind = "disconnected" => sdk[inbox[i].conn] = "closed"

\* While a confirmation is handled, the session keeps the connection it is for.
Heard ==
    \/ past.crossed
    \/ /\ AtStep("callback", "connected") => s.conn = ConnOf("callback")
       /\ AtStep("callback", "start") =>
                s.conn = ConnOf("callback") /\ s.state \in Audible

\* The media are the session's, or the callback task is about to stop them.
Sounding ==
    \/ past.crossed
    \/ media.conn = 0
    \/ s.conn = media.conn /\ s.state \in Audible
    \/ AtStep("callback", "stop") /\ ConnOf("callback") = media.conn

SessionInv ==
    /\ TypeOK
    /\ Shaped
    /\ Numbered
    /\ Planned
    /\ Told
    /\ Heard
    /\ Sounding
    /\ NoConnectionLeft
    /\ PendingIsServed

------------------------------------------------------------------------------
(* Sequences and steps                                                     *)

LEMMA TailFacts ==
    ASSUME NEW S, NEW p \in Seq(S), p # <<>>
    PROVE  /\ Len(p) \in Nat /\ Len(p) >= 1
           /\ Head(p) = p[1] /\ Head(p) \in S
           /\ Tail(p) \in Seq(S) /\ Len(Tail(p)) = Len(p) - 1
           /\ \A i \in 1 .. Len(p) - 1 : Tail(p)[i] = p[i + 1]
OBVIOUS

LEMMA JoinFacts ==
    ASSUME NEW S, NEW p \in Seq(S), NEW q \in Seq(S)
    PROVE  /\ p \o q \in Seq(S) /\ Len(p \o q) = Len(p) + Len(q)
           /\ \A i \in 1 .. Len(p) : (p \o q)[i] = p[i]
           /\ \A i \in 1 .. Len(q) : (p \o q)[Len(p) + i] = q[i]
OBVIOUS

LEMMA MadeItems ==
    /\ \A c \in Calls, only \in BOOLEAN : Disconnect(c, only) \in Items
    /\ \A c \in Calls : Hangup(c) \in Items
    /\ \A n \in CallOrNone : Reject(n) \in Items
BY DEF Disconnect, Hangup, Reject, Items

LEMMA MadeSteps ==
    /\ \A item \in Items : Post(item) \in Steps
    /\ \A c \in Calls : /\ PostOrStop(Hangup(c)) \in Steps
                        /\ Stop(c) \in Steps /\ Start(c) \in Steps
                        /\ Connected(c) \in Steps /\ HungUp(c) \in Steps
                        /\ Whip(c) \in Steps /\ Tell(c) \in Steps /\ Spawn(c) \in Steps
    /\ \A c \in Calls, only \in BOOLEAN :
            Quiet(c, only) \in Steps /\ Release(c, only) \in Steps
    /\ \A what \in {"ask", "roll back", "closing?", "idle?", "hang up", "reject",
                   "answer", "answered"} : Just(what) \in Steps
BY DEF Post, PostOrStop, Hangup, Stop, Start, Connected, HungUp, Whip, Tell, Spawn,
   Quiet, Release, Just, Steps

LEMMA StepFacts ==
    ASSUME NEW x \in Steps
    PROVE  /\ x.do \in {"post", "post or stop"} => x.item \in Items
           /\ x.do = "post or stop" => x.item.type = "hangup" /\ x.item.conn \in Calls
           /\ x.do \in {"stop", "start", "connected", "hung up", "whip", "tell", "spawn",
                        "quiet", "release"} => x.conn \in Calls
           /\ x.do \in {"quiet", "release"} => x.only \in BOOLEAN
BY DEF Steps, Items

LEMMA ItemFacts ==
    ASSUME NEW x \in Items
    PROVE  /\ x.type \in {"disconnect", "hangup", "reject"}
           /\ x.type \in {"disconnect", "hangup"} => x.conn \in Calls
           /\ x.type = "disconnect" =>
                x.only \in BOOLEAN /\ x = Disconnect(x.conn, x.only)
BY DEF Items, Disconnect

\* Calls are the numbers of invitations.
LEMMA CallNumbers ==
    /\ Calls \subseteq Nat \ {0}
    /\ CallOrNone = {0} \cup Calls
    /\ CallOrNone \subseteq Nat
BY SessionAssumption DEF Calls, CallOrNone

\* A plan of one step, or of two.
LEMMA OneStep ==
    ASSUME NEW x \in Steps
    PROVE  /\ <<x>> \in Seq(Steps) /\ Len(<<x>>) = 1 /\ <<x>>[1] = x
           /\ \A c : Promises(<<x>>, c) <=> Releases(x, c)
BY DEF Promises

LEMMA NoStep ==
    /\ <<>> \in Seq(Steps) /\ Len(<<>>) = 0
    /\ \A c : ~Promises(<<>>, c)
BY DEF Promises

\* Joined plans promise what either does.
LEMMA JoinPromises ==
    ASSUME NEW p \in Seq(Steps), NEW q \in Seq(Steps), NEW c
    PROVE  Promises(p \o q, c) <=> Promises(p, c) \/ Promises(q, c)
<1>1. ASSUME Promises(p \o q, c) PROVE Promises(p, c) \/ Promises(q, c)
  <2>1. PICK i \in 1 .. Len(p \o q) : Releases((p \o q)[i], c)
    BY <1>1 DEF Promises
  <2>2. CASE i <= Len(p)
    BY <2>1, <2>2, JoinFacts DEF Promises
  <2>3. CASE i > Len(p)
    <3>1. i - Len(p) \in 1 .. Len(q) /\ i = Len(p) + (i - Len(p))
      BY <2>1, <2>3, JoinFacts
    <3>2. (p \o q)[i] = q[i - Len(p)]
      BY <3>1, JoinFacts
    <3>3. QED
      BY <2>1, <3>1, <3>2 DEF Promises
  <2>4. QED
    BY <2>2, <2>3
<1>2. ASSUME Promises(p, c) PROVE Promises(p \o q, c)
  <2>1. PICK i \in 1 .. Len(p) : Releases(p[i], c)
    BY <1>2 DEF Promises
  <2>2. i \in 1 .. Len(p \o q) /\ (p \o q)[i] = p[i]
    BY JoinFacts
  <2>3. QED
    BY <2>1, <2>2 DEF Promises
<1>3. ASSUME Promises(q, c) PROVE Promises(p \o q, c)
  <2>1. PICK i \in 1 .. Len(q) : Releases(q[i], c)
    BY <1>3 DEF Promises
  <2>2. Len(p) + i \in 1 .. Len(p \o q) /\ (p \o q)[Len(p) + i] = q[i]
    BY JoinFacts
  <2>3. QED
    BY <2>1, <2>2 DEF Promises
<1>4. QED
  BY <1>1, <1>2, <1>3

\* A plan promises what its head does, or its rest.
LEMMA RestPromises ==
    ASSUME NEW p \in Seq(Steps), p # <<>>, NEW c
    PROVE  Promises(p, c) <=> Releases(Head(p), c) \/ Promises(Tail(p), c)
<1>1. ASSUME Promises(p, c), ~Releases(Head(p), c) PROVE Promises(Tail(p), c)
  <2>1. PICK i \in 1 .. Len(p) : Releases(p[i], c)
    BY <1>1 DEF Promises
  <2>2. i # 1
    BY <1>1, <2>1, TailFacts
  <2>3. i - 1 \in 1 .. Len(Tail(p)) /\ Tail(p)[i - 1] = p[i]
    BY <2>2, TailFacts
  <2>4. QED
    BY <2>1, <2>3 DEF Promises
<1>2. ASSUME Releases(Head(p), c) PROVE Promises(p, c)
  BY <1>2, TailFacts DEF Promises
<1>3. ASSUME Promises(Tail(p), c) PROVE Promises(p, c)
  <2>1. PICK i \in 1 .. Len(Tail(p)) : Releases(Tail(p)[i], c)
    BY <1>3 DEF Promises
  <2>2. i + 1 \in 1 .. Len(p) /\ p[i + 1] = Tail(p)[i]
    BY TailFacts
  <2>3. QED
    BY <2>1, <2>2 DEF Promises
<1>4. QED
  BY <1>1, <1>2, <1>3

------------------------------------------------------------------------------
(* What a locked section makes of the session, and what it leaves to do     *)

\* A plan that releases nothing by itself.
Sober(p) == p \in Seq(Steps) /\ \A c \in Calls : ~Promises(p, c)

\* A session without a connection may be finished; otherwise it stays with its
\* call and its connection, rings no more than before, and goes on to close.
Ebbs(x, y) ==
    \/ y = Idle /\ x.conn = 0
    \/ /\ y.call = x.call /\ y.conn = x.conn
       /\ y.state = "ringing" => x.state = "ringing"
       /\ x.state \in Audible => y.state \in Audible

LEMMA SoberSteps ==
    /\ \A n \in CallOrNone : Sober(<<Post(Reject(n))>>)
    /\ \A c \in Calls : /\ Sober(<<Post(Disconnect(c, TRUE))>>)
                        /\ Sober(<<Post(Hangup(c))>>) /\ Sober(<<PostOrStop(Hangup(c))>>)
                        /\ Sober(<<Stop(c)>>) /\ Sober(<<Spawn(c)>>)
    /\ \A what \in {"ask", "roll back", "closing?", "idle?", "hang up", "reject"} :
            Sober(<<Just(what)>>)
    /\ Sober(<<>>)
<1>1. \A n \in CallOrNone, c \in Calls : ~Releases(Post(Reject(n)), c)
  BY DEF Releases, Post, Reject, Disconnect, Quiet, Release
<1>2. \A d, c \in Calls : /\ ~Releases(Post(Disconnect(d, TRUE)), c)
                          /\ ~Releases(Post(Hangup(d)), c)
  BY DEF Releases, Post, Hangup, Disconnect, Quiet, Release
<1>3. \A d, c \in Calls : /\ ~Releases(PostOrStop(Hangup(d)), c)
                          /\ ~Releases(Stop(d), c) /\ ~Releases(Spawn(d), c)
  BY DEF Releases, Post, PostOrStop, Disconnect, Quiet, Release, Stop, Spawn
<1>4. \A what \in {"ask", "roll back", "closing?", "idle?", "hang up", "reject"},
         c \in Calls : ~Releases(Just(what), c)
  BY DEF Releases, Post, Quiet, Release, Just
<1>5. \A x \in Steps : (\A c \in Calls : ~Releases(x, c)) => Sober(<<x>>)
  BY OneStep DEF Sober
<1>6. Sober(<<>>)
  BY NoStep DEF Sober
<1>7. QED
  BY <1>1, <1>2, <1>3, <1>4, <1>5, <1>6, MadeItems, MadeSteps

LEMMA JoinSober ==
    ASSUME NEW p, NEW q, Sober(p), Sober(q)
    PROVE  Sober(p \o q)
BY JoinFacts, JoinPromises DEF Sober

\* begin_close_locked()
LEMMA CloseFine ==
    ASSUME NEW x, Solid(x), x.conn # 0
    PROVE  Solid(BeginClose(x)) /\ Ebbs(x, BeginClose(x)) /\ ~BeginClose(x).pending
<1> DEFINE y == BeginClose(x)
<1>1. /\ y.state = "closing" /\ y.call = x.call /\ y.conn = x.conn /\ y.pending = FALSE
      /\ y \in Session
  BY DEF Solid, Session, States, BeginClose
<1>2. x.call # 0
  BY DEF Solid, Idle
<1> HIDE DEF y
<1>3. QED
  BY <1>1, <1>2 DEF Solid, Ebbs, Audible, y

LEMMA IdleFine == Solid(Idle) /\ ~Idle.pending
<1>1. Idle \in Session
  BY CallNumbers DEF Idle, Session, States
<1>2. Idle.state = "idle" /\ Idle.pending = FALSE
  BY DEF Idle
<1>3. QED
  BY <1>1, <1>2 DEF Solid

\* wechat_voip_session_handle_join_room()
LEMMA JoinRoomFine ==
    ASSUME NEW x, Solid(x), NEW n \in Calls, NEW auto \in BOOLEAN
    PROVE  LET o == JoinRoom(x, n, auto) IN
           /\ Solid(o.session) /\ Sober(o.then)
           /\ \/ x.state # "idle" /\ o.session = x
              \/ x = Idle /\ o.session = Ringing(n)
           /\ o.session.pending => x.pending
<1>1. CASE x.state # "idle"
  BY <1>1, SoberSteps, CallNumbers DEF JoinRoom, Outcome, RejectLater
<1>2. CASE x.state = "idle"
  <2>1. Solid(Ringing(n)) /\ ~Ringing(n).pending
    BY CallNumbers DEF Solid, Ringing, Idle, Session, States
  <2>2. QED
    BY <1>2, <2>1, SoberSteps DEF JoinRoom, Outcome, Solid
<1>3. QED
  BY <1>1, <1>2

\* wechat_voip_session_cancel_by_room()
LEMMA CancelFine ==
    ASSUME NEW x, Solid(x), NEW n \in Calls
    PROVE  LET o == CancelByRoom(x, n) IN
           /\ Solid(o.session) /\ Sober(o.then) /\ Ebbs(x, o.session)
           /\ o.session.pending => x.pending
<1>1. CASE x.state = "idle" \/ x.call # n
  BY <1>1, SoberSteps DEF CancelByRoom, Outcome, Ebbs
<1>2. CASE ~(x.state = "idle" \/ x.call # n) /\ x.conn # 0
  <2>1. x.conn \in Calls
    BY <1>2, CallNumbers DEF Solid, Session
  <2>2. Sober(<<Stop(x.conn)>> \o <<Post(Disconnect(x.conn, TRUE))>>)
    BY <2>1, SoberSteps, JoinSober
  <2>3. QED
    BY <1>2, <2>2, CloseFine DEF CancelByRoom, Outcome, DisconnectLater
<1>3. CASE ~(x.state = "idle" \/ x.call # n) /\ x.conn = 0
  BY <1>3, IdleFine, SoberSteps DEF CancelByRoom, Outcome, Finished, Ebbs
<1>4. QED
  BY <1>1, <1>2, <1>3

\* wechat_voip_session_hangup()
LEMMA HangupFine ==
    ASSUME NEW x, Solid(x)
    PROVE  LET o == HangupSession(x) IN
           /\ Solid(o.session) /\ Sober(o.then) /\ Ebbs(x, o.session)
           /\ o.session.pending => x.pending
<1>1. CASE x.state \in {"idle", "closing"}
  BY <1>1, SoberSteps DEF HangupSession, Outcome, Ebbs
<1>2. CASE x.state \notin {"idle", "closing"} /\ x.conn # 0
  <2>1. x.conn \in Calls
    BY <1>2, CallNumbers DEF Solid, Session
  <2>2. HangupSession(x) = Outcome(BeginClose(x), <<PostOrStop(Hangup(x.conn))>>)
    BY <1>2 DEF HangupSession
  <2>3. /\ HangupSession(x).session = BeginClose(x)
        /\ HangupSession(x).then = <<PostOrStop(Hangup(x.conn))>>
    BY <2>2 DEF Outcome
  <2>4. QED
    BY <1>2, <2>1, <2>3, CloseFine, SoberSteps
<1>3. CASE x.state \notin {"idle", "closing"} /\ x.conn = 0
  <2>1. x.call \in CallOrNone
    BY DEF Solid, Session
  <2>2. HangupSession(x) = Outcome(Finished(x), RejectLater(x.call))
    BY <1>3 DEF HangupSession
  <2>3. /\ HangupSession(x).session = Idle
        /\ HangupSession(x).then = <<Post(Reject(x.call))>>
    BY <2>2 DEF Outcome, Finished, RejectLater
  <2>4. QED
    BY <1>3, <2>1, <2>3, IdleFine, SoberSteps DEF Ebbs
<1>4. QED
  BY <1>1, <1>2, <1>3

\* wechat_voip_session_maintenance()
LEMMA MaintainedFine ==
    ASSUME NEW x, Solid(x), x.armed
    PROVE  LET o == Maintained(x) IN
           /\ Solid(o.session) /\ Sober(o.then) /\ Ebbs(x, o.session)
           /\ o.session.pending => x.pending
<1>1. x.state # "idle" /\ x.conn \in CallOrNone /\ x.call \in CallOrNone
  BY DEF Solid, Idle, Session
<1>2. CASE x.state = "closing"
  <2>1. x.conn \in Calls
    BY <1>1, <1>2, CallNumbers DEF Solid
  <2>2. Sober(<<Stop(x.conn)>> \o <<Post(Disconnect(x.conn, TRUE))>>)
    BY <2>1, SoberSteps, JoinSober
  <2>3. QED
    BY <1>2, <2>2 DEF Maintained, Outcome, DisconnectLater, Ebbs
<1>3. CASE x.state # "closing" /\ x.conn = 0
  BY <1>1, <1>3, IdleFine, SoberSteps DEF Maintained, Outcome, Finished, RejectLater, Ebbs
<1>4. CASE x.state # "closing" /\ x.conn # 0
  <2>1. x.conn \in Calls
    BY <1>1, <1>4, CallNumbers
  <2>2. QED
    BY <1>4, <2>1, CloseFine, SoberSteps DEF Maintained, Outcome
<1>5. QED
  BY <1>2, <1>3, <1>4

\* start_answer_task(), its first section
LEMMA StartAnswerFine ==
    ASSUME NEW x, Solid(x), NEW t
    PROVE  LET o == StartAnswer(x, t) IN
           /\ Solid(o.session) /\ Sober(o.then) /\ Ebbs(x, o.session)
           /\ o.session.pending => x.pending \/ o.then = <<Spawn(x.call)>>
<1>1. CASE x.state # "ringing"
  BY <1>1, SoberSteps DEF StartAnswer, NotAnswered, Outcome, Ebbs
<1>2. CASE x.state = "ringing" /\ x.pending
  BY <1>2, SoberSteps DEF StartAnswer, Outcome, Ebbs
<1>3. CASE x.state = "ringing" /\ ~x.pending
  <2>1. x.call \in Calls
    BY <1>3, CallNumbers DEF Solid, Session
  <2>2. Solid([x EXCEPT !.pending = TRUE]) /\ Ebbs(x, [x EXCEPT !.pending = TRUE])
    BY <1>3 DEF Solid, Session, Idle, Ebbs
  <2>3. QED
    BY <1>3, <2>1, <2>2, SoberSteps DEF StartAnswer, Outcome
<1>4. QED
  BY <1>1, <1>2, <1>3

\* The request is taken back, or has been served.
LEMMA UnpendingFine ==
    ASSUME NEW x, Solid(x)
    PROVE  /\ Solid([x EXCEPT !.pending = FALSE])
           /\ Ebbs(x, [x EXCEPT !.pending = FALSE])
           /\ ~[x EXCEPT !.pending = FALSE].pending
<1> DEFINE y == [x EXCEPT !.pending = FALSE]
<1>1. /\ y.state = x.state /\ y.call = x.call /\ y.conn = x.conn /\ y.pending = FALSE
      /\ y \in Session
  BY DEF Solid, Session
<1>2. x = Idle => y = Idle
  <2>1. x \in Session /\ (x.pending = FALSE => y = x)
    BY DEF Solid, Session
  <2>2. QED
    BY <2>1 DEF Idle
<1> HIDE DEF y
<1>3. QED
  BY <1>1, <1>2 DEF Solid, Ebbs, y

------------------------------------------------------------------------------
(* What a step leaves alone                                                *)

\* While it has a connection, the session keeps it, and its media may run.
Holds(x, y) ==
    x.conn # 0 =>
        y.conn = x.conn /\ (x.state \in Audible => y.state \in Audible)

LEMMA EbbHolds ==
    ASSUME NEW x, NEW y, Ebbs(x, y) PROVE Holds(x, y)
BY DEF Ebbs, Holds

\* One task has a new plan, the others go on with theirs.
LEMMA NewPlan ==
    ASSUME todo \in [Tasks -> Seq(Steps)], NEW t \in Tasks, NEW p \in Seq(Steps),
           todo' = [todo EXCEPT ![t] = p]
    PROVE  /\ todo' \in [Tasks -> Seq(Steps)]
           /\ todo'[t] = p
           /\ \A u \in Tasks \ {t} : todo'[u] = todo[u]
OBVIOUS

\* Where a task stands depends on its own plan.
LEMMA SamePlan ==
    ASSUME NEW t, todo'[t] = todo[t], NEW what
    PROVE  /\ AtStep(t, what)' <=> AtStep(t, what)
           /\ ConnOf(t)' = ConnOf(t)
BY DEF AtStep, Idling, ConnOf

\* A task goes on after a step that releases nothing, with q before its rest.
LEMMA GoesOn ==
    ASSUME todo \in [Tasks -> Seq(Steps)], NEW t \in Tasks, ~Idling(t), NEW q, Sober(q),
           \A c \in Calls : ~Releases(Head(todo[t]), c)
    PROVE  /\ q \o Rest(t) \in Seq(Steps)
           /\ \A c \in Calls : Promises(todo[t], c) <=> Promises(q \o Rest(t), c)
<1>1. todo[t] \in Seq(Steps) /\ todo[t] # <<>> /\ Rest(t) = Tail(todo[t])
  BY DEF Idling, Rest
<1>2. Rest(t) \in Seq(Steps)
  BY <1>1, TailFacts
<1>3. \A c \in Calls : Promises(todo[t], c) <=> Promises(Rest(t), c)
  BY <1>1, RestPromises
<1>4. QED
  BY <1>2, <1>3, JoinFacts, JoinPromises DEF Sober

\* A step of these kinds releases nothing.
Sobering == {"post or stop", "stop", "start", "connected", "hung up", "whip", "tell", "spawn",
             "ask", "roll back", "closing?", "idle?", "hang up", "reject", "answer", "answered"}

LEMMA SoberHead ==
    ASSUME NEW x, x.do \in Sobering, NEW c
    PROVE  ~Releases(x, c)
<1>1. /\ Post(Disconnect(c, FALSE)).do = "post"
      /\ Quiet(c, FALSE).do = "quiet" /\ Release(c, FALSE).do = "release"
  BY DEF Post, Quiet, Release
<1>2. QED
  BY <1>1 DEF Releases, Sobering

LEMMA NothingJoined ==
    ASSUME NEW p \in Seq(Steps)
    PROVE  <<>> \o p = p /\ p \o <<>> = p
OBVIOUS

LEMMA WillReleaseIs ==
    ASSUME NEW c
    PROVE  WillRelease(c) <=> \/ \E i \in 1 .. Len(work) : work[i] = Disconnect(c, FALSE)
                              \/ \E t \in Tasks : Promises(todo[t], c)
BY DEF WillRelease, Promises, Releases

\* What the invariant says of a session.
LEMMA SessionFacts ==
    ASSUME SessionInv
    PROVE  /\ Solid(s) /\ s \in Session /\ env \in Env /\ env.calls \in CallOrNone
           /\ todo \in [Tasks -> Seq(Steps)]
           /\ \A t \in Tasks : todo[t] \in Seq(Steps)
           /\ \A c \in Calls : ~Promises(todo["boot"], c)
BY DEF SessionInv, TypeOK, Shaped, Solid, Planned, Env

\* A connection goes its way, and does not come back.
Onward ==
    \A d \in Calls : /\ Met(d) => Met(d)'
                     /\ sdk[d] = "none" => sdk'[d] = "none"
                     /\ sdk[d] = "closed" => sdk'[d] = "closed"

LEMMA SameOnward == sdk' = sdk => Onward
BY DEF Onward, Met

\* The session ebbs: it has what it had, or less.
LEMMA EbbShaped ==
    ASSUME SessionInv, Solid(s'), Ebbs(s, s'),
           Onward, env'.calls = env.calls, past.crossed => past'.crossed,
           AtStep("answer", "whip")' => AtStep("answer", "whip"),
           AtStep("answer", "whip")' => ConnOf("answer")' = ConnOf("answer")
    PROVE  Shaped' /\ Numbered'
<1>1. Shaped /\ Numbered
  BY DEF SessionInv
<1>2. Numbered'
  <2>1. AtStep("answer", "whip") => ConnOf("answer") \in Calls
    BY SessionFacts, TailFacts, StepFacts DEF AtStep, Idling, ConnOf, Tasks
  <2>2. QED
    BY <1>1, <2>1 DEF Numbered, Onward
<1>3. CASE s' = Idle
  <2>1. s'.call = 0 /\ s'.conn = 0 /\ s'.state = "idle"
    BY <1>3 DEF Idle
  <2>2. env.calls \in Nat
    BY SessionFacts, CallNumbers
  <2>3. QED
    BY <1>2, <2>1, <2>2 DEF Shaped
<1>4. CASE s'.call = s.call /\ s'.conn = s.conn /\ (s'.state = "ringing" => s.state = "ringing")
  <2>1. s.conn # 0 => s.conn \in Calls
    BY SessionFacts, CallNumbers DEF Session
  <2>2. s'.conn # 0 => sdk'[s'.conn] \in {"opened", "open", "leaving", "closed"}
    <3>1. s'.conn # 0 => Met(s.conn)
      BY <1>1, <1>4 DEF Shaped
    <3>2. \A d \in Calls : Met(d) => sdk'[d] \in {"opened", "open", "leaving", "closed"}
      BY DEF Onward, Met
    <3>3. QED
      BY <1>4, <2>1, <3>1, <3>2
  <2>3. s'.state = "ringing" => sdk[s.call] = "none" /\ s.call \in Calls
    BY <1>1, <1>4, SessionFacts, CallNumbers DEF Shaped, Unasked, Solid, Session
  <2>4. s'.state = "ringing" => sdk'[s.call] = "none"
    BY <2>3 DEF Onward
  <2>5. s'.state = "ringing" =>
            /\ sdk'[s'.call] = "none"
            /\ AtStep("answer", "whip")' => ConnOf("answer")' # s'.call
    <3>1. s'.state = "ringing" =>
            (AtStep("answer", "whip") => ConnOf("answer") # s.call)
      BY <1>1, <1>4 DEF Shaped, Unasked
    <3>2. QED
      BY <1>4, <2>4, <3>1
  <2>6. past'.crossed \/ s'.conn \in {0, s'.call}
    BY <1>1, <1>4 DEF Shaped
  <2>7. s'.call <= env'.calls
    BY <1>1, <1>4 DEF Shaped
  <2>8. s'.conn # 0 => Met(s.conn)'
    BY <2>2 DEF Met
  <2>9. s'.state = "ringing" => Unasked(s.call)'
    BY <2>5 DEF Unasked
  <2>10. QED
    BY <1>2, <2>6, <2>7, <2>8, <2>9 DEF Shaped
<1>5. QED
  BY <1>3, <1>4 DEF Ebbs

\* The callback task rests, and the session keeps what it has.
LEMMA Holding ==
    ASSUME SessionInv, Holds(s, s') \/ past'.crossed, past.crossed => past'.crossed,
           todo'["callback"] = todo["callback"], media'.conn \in {media.conn, 0}
    PROVE  Heard' /\ Sounding'
<1>1. Heard /\ Sounding /\ todo["callback"] \in Seq(Steps)
  BY DEF SessionInv, TypeOK, Tasks
<1>2. \A what : (AtStep("callback", what)' <=> AtStep("callback", what))
  BY SamePlan
<1>3. ConnOf("callback")' = ConnOf("callback")
  BY SamePlan
<1>4. AtStep("callback", "connected") \/ AtStep("callback", "start")
        => ConnOf("callback") \in Calls
  BY <1>1, TailFacts, StepFacts DEF AtStep, Idling, ConnOf
<1>5. 0 \notin Calls
  BY CallNumbers
<1>6. CASE past'.crossed
  BY <1>6 DEF Heard, Sounding
<1>7. CASE ~past'.crossed
  <2>1. Holds(s, s') /\ ~past.crossed
    BY <1>7
  <2>2. Heard'
    BY <1>1, <1>2, <1>3, <1>4, <1>5, <2>1 DEF Heard, Holds
  <2>3. Sounding'
    BY <1>1, <1>2, <1>3, <2>1 DEF Sounding, Holds
  <2>4. QED
    BY <2>2, <2>3
<1>8. QED
  BY <1>6, <1>7

\* Every connection that is open was, and what had it or was to release it still
\* has it or will.
LEMMA Releasing ==
    ASSUME SessionInv, past.crossed => past'.crossed, past.unserved \subseteq past'.unserved,
           \A c \in Calls : sdk'[c] = "open" => sdk[c] = "open",
           \A c \in Calls : sdk'[c] = "open" /\ s.conn = c =>
                s'.conn = c \/ WillRelease(c)' \/ past'.crossed,
           \A c \in Calls : sdk'[c] = "open" /\ WillRelease(c) =>
                WillRelease(c)' \/ c \in past'.unserved
    PROVE  NoConnectionLeft'
<1> SUFFICES ASSUME NEW c \in Calls, sdk'[c] = "open"
             PROVE  s'.conn = c \/ WillRelease(c)' \/ c \in past'.unserved \/ past'.crossed
  BY DEF NoConnectionLeft
<1>1. s.conn = c \/ WillRelease(c) \/ c \in past.unserved \/ past.crossed
  BY DEF SessionInv, NoConnectionLeft
<1>2. QED
  BY <1>1

\* What was promised is still promised.
LEMMA KeptPromises ==
    ASSUME NEW t \in Tasks, \A u \in Tasks \ {t} : todo'[u] = todo[u],
           NEW c, Promises(todo[t], c) => Promises(todo'[t], c), work' = work
    PROVE  WillRelease(c) => WillRelease(c)'
BY WillReleaseIs DEF WillRelease, Promises, Releases

\* The request for an answer is served as before.
LEMMA Serving ==
    ASSUME SessionInv, s'.pending => s.pending, answering # 0 => answering' # 0,
           NEW t \in Tasks, \A u \in Tasks \ {t} : todo'[u] = todo[u],
           ~AtStep(t, "spawn") /\ ~AtStep(t, "roll back")
    PROVE  PendingIsServed'
<1>1. PendingIsServed
  BY DEF SessionInv
<1>2. ASSUME NEW u \in Tasks, AtStep(u, "spawn") \/ AtStep(u, "roll back")
      PROVE  AtStep(u, "spawn")' \/ AtStep(u, "roll back")'
  BY <1>2, SamePlan
<1>3. QED
  BY <1>1, <1>2 DEF PendingIsServed

------------------------------------------------------------------------------
(* The main loop, the key and the WebSocket                                *)

\* One of these tasks takes a step: the session ebbs, and nothing promised is lost.
LEMMA MildStep ==
    ASSUME SessionInv, NEW t \in {"main", "boot", "socket"}, NEW p \in Seq(Steps),
           todo' = [todo EXCEPT ![t] = p],
           \A c \in Calls : Promises(todo[t], c) => Promises(p, c),
           t = "boot" => Sober(p),
           Solid(s'), Ebbs(s, s'), PendingIsServed', env' \in Env, env'.calls = env.calls,
           UNCHANGED <<answering, work, media, inbox, sdk, past>>
    PROVE  SessionInv'
<1>1. /\ todo' \in [Tasks -> Seq(Steps)] /\ todo'[t] = p
      /\ \A u \in Tasks \ {t} : todo'[u] = todo[u]
  <2>1. todo \in [Tasks -> Seq(Steps)] /\ t \in Tasks
    BY DEF SessionInv, TypeOK, Tasks
  <2>2. QED
    BY <2>1, NewPlan
<1>2. /\ todo'["answer"] = todo["answer"] /\ todo'["callback"] = todo["callback"]
      /\ todo'["work"] = todo["work"]
  BY <1>1 DEF Tasks
<1>3. TypeOK'
  BY <1>1 DEF SessionInv, TypeOK, Solid
<1>4. Shaped' /\ Numbered'
  BY <1>2, EbbShaped, SameOnward, SamePlan
<1>5. Planned'
  <2>1. \A c \in Calls : ~Promises(todo'["boot"], c)
    BY <1>1 DEF SessionInv, Planned, Sober, Tasks
  <2>2. QED
    BY <1>2, <2>1 DEF SessionInv, Planned
<1>6. Told'
  BY DEF SessionInv, Told, Met
<1>7. Heard' /\ Sounding'
  BY <1>2, Holding, EbbHolds
<1>8. NoConnectionLeft'
  <2>1. \A c \in Calls : WillRelease(c) => WillRelease(c)'
    BY <1>1, KeptPromises DEF Tasks
  <2>2. \A c \in Calls : s.conn = c => s'.conn = c
    BY EbbHolds, CallNumbers DEF Holds
  <2>3. QED
    BY <2>1, <2>2, Releasing
<1>9. QED
  BY <1>3, <1>4, <1>5, <1>6, <1>7, <1>8 DEF SessionInv

LEMMA InboxFacts ==
    ASSUME SessionInv
    PROVE  \A i \in 1 .. Len(inbox) : inbox[i].conn \in Calls
<1>1. \A i \in 1 .. Len(inbox) : inbox[i] \in Events
  BY DEF SessionInv, TypeOK
<1>2. QED
  BY <1>1 DEF Events

\* What is remembered is not forgotten.
LEMMA SamePast ==
    ASSUME SessionInv, past' = past
    PROVE  /\ past' \in Past /\ past'.unserved = past.unserved
           /\ past.crossed => past'.crossed
<1>1. past' \in Past
  BY DEF SessionInv, TypeOK
<1>2. past.crossed => past'.crossed
  BY Zenon
<1>3. QED
  BY <1>1, <1>2

LEMMA SameSdk ==
    ASSUME SessionInv, sdk' = sdk
    PROVE  /\ sdk' \in [Calls -> Links]
           /\ \A c \in Calls : sdk'[c] = sdk[c] \/ (sdk[c] = "none" /\ sdk'[c] = "asked")
BY DEF SessionInv, TypeOK

LEMMA EnvFacts ==
    ASSUME SessionInv
    PROVE  env.left \in ScenarioKinds
BY DEF SessionInv, TypeOK, Env

\* What the environment may still do becomes less.
LEMMA SpentEnv ==
    ASSUME env \in Env, NEW left \in ScenarioKinds
    PROVE  [env EXCEPT !.left = left] \in Env /\ [env EXCEPT !.left = left].calls = env.calls
BY DEF Env

LEMMA SpentKinds ==
    ASSUME NEW x \in ScenarioKinds
    PROVE  /\ x.short > 0 => [x EXCEPT !.short = @ - 1] \in ScenarioKinds
           /\ x.long > 0 => [x EXCEPT !.long = @ - 1] \in ScenarioKinds
           /\ x.cancels > 0 => [x EXCEPT !.cancels = @ - 1] \in ScenarioKinds
<1>1. /\ x.short > 0 => x.short - 1 \in Nat
      /\ x.long > 0 => x.long - 1 \in Nat
      /\ x.cancels > 0 => x.cancels - 1 \in Nat
  BY DEF ScenarioKinds
<1>2. \A k \in Nat : /\ [x EXCEPT !.short = k] \in ScenarioKinds
                     /\ [x EXCEPT !.long = k] \in ScenarioKinds
                     /\ [x EXCEPT !.cancels = k] \in ScenarioKinds
  BY DEF ScenarioKinds
<1>3. QED
  BY <1>1, <1>2

LEMMA MaintainKeeps ==
    ASSUME SessionInv, Maintain PROVE SessionInv'
<1> DEFINE o == Maintained(s)
<1>1. Solid(o.session) /\ Sober(o.then) /\ Ebbs(s, o.session) /\ (o.session.pending => s.pending)
  BY SessionFacts, MaintainedFine DEF Maintain
<1> HIDE DEF o
<1>2. /\ s' = o.session /\ todo["main"] = <<>> /\ todo' = [todo EXCEPT !["main"] = o.then]
      /\ UNCHANGED <<answering, work, media, inbox, sdk, env, past>>
  <2>1. o.then \o <<>> = o.then
    BY <1>1, NothingJoined DEF Sober
  <2>2. QED
    BY <2>1 DEF Maintain, Section, Idling, o
<1>3. PendingIsServed'
  <2>1. ~AtStep("main", "spawn") /\ ~AtStep("main", "roll back")
    BY <1>2 DEF AtStep, Idling
  <2>2. \A u \in Tasks \ {"main"} : todo'[u] = todo[u]
    BY <1>2, SessionFacts
  <2>3. QED
    BY <1>1, <1>2, <2>1, <2>2, Serving DEF Tasks
<1>4. \A c \in Calls : Promises(todo["main"], c) => Promises(o.then, c)
  BY <1>2, NoStep
<1>5. QED
  BY <1>1, <1>2, <1>3, <1>4, SessionFacts, MildStep DEF Sober

\* A press, and the maintenance that comes first.
LEMMA PressKeeps ==
    ASSUME SessionInv, NEW first \in {"ask", "reject"}, Press(first),
           env' \in Env, env'.calls = env.calls
    PROVE  SessionInv'
<1>1. /\ Sober(<<Just(first)>>) /\ todo["boot"] = <<>>
      /\ UNCHANGED <<answering, work, media, inbox, sdk, past>>
  BY SoberSteps DEF Press, Idling
<1>2. PICK p : /\ Sober(p) /\ todo' = [todo EXCEPT !["boot"] = p]
               /\ Solid(s') /\ Ebbs(s, s') /\ (s'.pending => s.pending)
  <2>1. CASE Section("boot", Outcome(s, <<>>), <<Just(first)>>)
    <3>1. s' = s /\ todo' = [todo EXCEPT !["boot"] = <<>> \o <<Just(first)>>]
      BY <2>1 DEF Section, Outcome
    <3>2. Ebbs(s, s)
      BY DEF Ebbs
    <3>3. Sober(<<>> \o <<Just(first)>>)
      BY <1>1, SoberSteps, JoinSober
    <3>4. QED
      BY <3>1, <3>2, <3>3, SessionFacts
  <2>2. CASE s.armed /\ Section("boot", Maintained(s), <<Just(first)>>)
    <3> DEFINE o == Maintained(s)
    <3>1. /\ Solid(o.session) /\ Sober(o.then) /\ Ebbs(s, o.session)
          /\ (o.session.pending => s.pending)
      BY <2>2, SessionFacts, MaintainedFine
    <3>2. s' = o.session /\ todo' = [todo EXCEPT !["boot"] = o.then \o <<Just(first)>>]
      BY <2>2 DEF Section
    <3> HIDE DEF o
    <3>3. Sober(o.then \o <<Just(first)>>)
      BY <1>1, <3>1, JoinSober
    <3>4. QED
      BY <3>1, <3>2, <3>3
  <2>3. QED
    BY <2>1, <2>2 DEF Press
<1>3. PendingIsServed'
  <2>1. ~AtStep("boot", "spawn") /\ ~AtStep("boot", "roll back")
    BY <1>1 DEF AtStep, Idling
  <2>2. \A u \in Tasks \ {"boot"} : todo'[u] = todo[u]
    BY <1>2, SessionFacts
  <2>3. QED
    BY <1>1, <1>2, <2>1, <2>2, Serving DEF Tasks
<1>4. \A c \in Calls : Promises(todo["boot"], c) => Promises(p, c)
  BY <1>1, NoStep
<1>5. QED
  BY <1>1, <1>2, <1>3, <1>4, MildStep DEF Sober

LEMMA ShortPressKeeps ==
    ASSUME SessionInv, ShortPress PROVE SessionInv'
<1>1. env' \in Env /\ env'.calls = env.calls
  <2>1. [env.left EXCEPT !.short = @ - 1] \in ScenarioKinds
    BY SpentKinds, EnvFacts DEF ShortPress
  <2>2. env' = [env EXCEPT !.left = [env.left EXCEPT !.short = @ - 1]]
    BY SessionFacts DEF ShortPress, Env
  <2>3. QED
    BY <2>1, <2>2, SpentEnv, SessionFacts
<1>2. QED
  BY <1>1, PressKeeps DEF ShortPress

LEMMA LongPressKeeps ==
    ASSUME SessionInv, LongPress PROVE SessionInv'
<1>1. env' \in Env /\ env'.calls = env.calls
  <2>1. [env.left EXCEPT !.long = @ - 1] \in ScenarioKinds
    BY SpentKinds, EnvFacts DEF LongPress
  <2>2. env' = [env EXCEPT !.left = [env.left EXCEPT !.long = @ - 1]]
    BY SessionFacts DEF LongPress, Env
  <2>3. QED
    BY <2>1, <2>2, SpentEnv, SessionFacts
<1>2. QED
  BY <1>1, PressKeeps DEF LongPress

LEMMA CancelKeeps ==
    ASSUME SessionInv, NEW n \in Calls, Cancel(n) PROVE SessionInv'
<1> DEFINE o == CancelByRoom(s, n)
<1>1. Solid(o.session) /\ Sober(o.then) /\ Ebbs(s, o.session) /\ (o.session.pending => s.pending)
  BY SessionFacts, CancelFine
<1> HIDE DEF o
<1>2. /\ s' = o.session /\ todo["socket"] = <<>> /\ todo' = [todo EXCEPT !["socket"] = o.then]
      /\ UNCHANGED <<answering, work, media, inbox, sdk, past>>
  <2>1. o.then \o <<>> = o.then
    BY <1>1, NothingJoined DEF Sober
  <2>2. QED
    BY <2>1 DEF Cancel, Section, Idling, o
<1>3. env' \in Env /\ env'.calls = env.calls
  <2>1. [env.left EXCEPT !.cancels = @ - 1] \in ScenarioKinds
    BY SpentKinds, EnvFacts DEF Cancel
  <2>2. env' = [env EXCEPT !.left = [env.left EXCEPT !.cancels = @ - 1]]
    BY SessionFacts DEF Cancel, Env
  <2>3. QED
    BY <2>1, <2>2, SpentEnv, SessionFacts
<1>4. PendingIsServed'
  <2>1. ~AtStep("socket", "spawn") /\ ~AtStep("socket", "roll back")
    BY <1>2 DEF AtStep, Idling
  <2>2. \A u \in Tasks \ {"socket"} : todo'[u] = todo[u]
    BY <1>2, SessionFacts
  <2>3. QED
    BY <1>1, <1>2, <2>1, <2>2, Serving DEF Tasks
<1>5. \A c \in Calls : Promises(todo["socket"], c) => Promises(o.then, c)
  BY <1>2, NoStep
<1>6. QED
  BY <1>1, <1>2, <1>3, <1>4, <1>5, MildStep DEF Sober

\* A task of these goes on from a step that releases nothing.
LEMMA MildRest ==
    ASSUME SessionInv, NEW t \in {"main", "boot", "socket"}, NEW what \in Sobering,
           AtStep(t, what), NEW q, Sober(q)
    PROVE  /\ q \o Rest(t) \in Seq(Steps)
           /\ \A c \in Calls : Promises(todo[t], c) => Promises(q \o Rest(t), c)
           /\ t = "boot" => Sober(q \o Rest(t))
<1>1. ~Idling(t) /\ \A c \in Calls : ~Releases(Head(todo[t]), c)
  BY SoberHead DEF AtStep
<1>2. /\ q \o Rest(t) \in Seq(Steps)
      /\ \A c \in Calls : Promises(todo[t], c) <=> Promises(q \o Rest(t), c)
  BY <1>1, GoesOn, SessionFacts DEF Tasks
<1>3. QED
  BY <1>2, SessionFacts DEF Sober

\* Where a task stands, it stands nowhere else.
LEMMA OneHead ==
    ASSUME NEW t, NEW what, AtStep(t, what), NEW other, other # what
    PROVE  ~AtStep(t, other)
BY DEF AtStep

LEMMA AskKeeps ==
    ASSUME SessionInv, NEW t \in {"boot", "socket"}, Ask(t) PROVE SessionInv'
<1> DEFINE o == StartAnswer(s, t)
<1>1. /\ Solid(o.session) /\ Sober(o.then) /\ Ebbs(s, o.session)
      /\ o.session.pending => s.pending \/ o.then = <<Spawn(s.call)>>
  BY SessionFacts, StartAnswerFine
<1> HIDE DEF o
<1> DEFINE p == o.then \o Rest(t)
<1>2. /\ s' = o.session /\ AtStep(t, "ask") /\ todo' = [todo EXCEPT ![t] = p]
      /\ UNCHANGED <<answering, work, media, inbox, sdk, env, past>>
  BY DEF Ask, Section, o
<1>3. /\ p \in Seq(Steps)
      /\ \A c \in Calls : Promises(todo[t], c) => Promises(p, c)
      /\ t = "boot" => Sober(p)
  BY <1>1, <1>2, MildRest DEF Sobering
<1>4. /\ todo'[t] = p /\ \A u \in Tasks \ {t} : todo'[u] = todo[u]
  BY <1>2, SessionFacts DEF Tasks
<1>5. PendingIsServed'
  <2>1. CASE s'.pending => s.pending
    <3>1. ~AtStep(t, "spawn") /\ ~AtStep(t, "roll back")
      BY <1>2, OneHead
    <3>2. answering' = answering /\ t \in Tasks
      BY <1>2 DEF Tasks
    <3>3. QED
      BY <1>4, <2>1, <3>1, <3>2, Serving
  <2>2. CASE o.then = <<Spawn(s.call)>>
    <3>1. Rest(t) \in Seq(Steps)
      BY <1>2, SessionFacts, TailFacts DEF Rest, AtStep, Idling, Tasks
    <3>2. p # <<>> /\ Head(p) = Spawn(s.call)
      BY <2>2, <3>1
    <3>3. AtStep(t, "spawn")'
      BY <1>4, <3>2 DEF AtStep, Idling, Spawn
    <3>4. QED
      BY <3>3 DEF PendingIsServed, Tasks
  <2>3. QED
    BY <1>1, <1>2, <2>1, <2>2
<1>6. QED
  BY <1>1, <1>2, <1>3, <1>5, MildStep, SessionFacts

LEMMA RollBackKeeps ==
    ASSUME SessionInv, NEW t \in {"boot", "socket"}, RollBack(t) PROVE SessionInv'
<1>1. /\ s' = [s EXCEPT !.pending = FALSE] /\ AtStep(t, "roll back")
      /\ todo' = [todo EXCEPT ![t] = <<>> \o Rest(t)]
      /\ UNCHANGED <<answering, work, media, inbox, sdk, env, past>>
  BY DEF RollBack, Section, Outcome
<1>2. Solid(s') /\ Ebbs(s, s') /\ ~s'.pending
  BY <1>1, SessionFacts, UnpendingFine
<1>3. PendingIsServed'
  BY <1>2 DEF PendingIsServed
<1>4. /\ <<>> \o Rest(t) \in Seq(Steps)
      /\ \A c \in Calls : Promises(todo[t], c) => Promises(<<>> \o Rest(t), c)
      /\ t = "boot" => Sober(<<>> \o Rest(t))
  BY <1>1, MildRest, SoberSteps DEF Sobering
<1>5. QED
  BY <1>1, <1>2, <1>3, <1>4, MildStep, SessionFacts

\* The key's task asks what to do, and goes on with p.
LEMMA KeyKeeps ==
    ASSUME SessionInv, NEW what \in Sobering \ {"spawn", "roll back"}, AtStep("boot", what),
           NEW p, Sober(p), todo' = [todo EXCEPT !["boot"] = p],
           Solid(s'), Ebbs(s, s'), s'.pending => s.pending,
           UNCHANGED <<answering, work, media, inbox, sdk, env, past>>
    PROVE  SessionInv'
<1>1. ~AtStep("boot", "spawn") /\ ~AtStep("boot", "roll back")
  BY OneHead
<1>2. \A u \in Tasks \ {"boot"} : todo'[u] = todo[u]
  BY SessionFacts
<1>3. PendingIsServed'
  BY <1>1, <1>2, Serving DEF Tasks
<1>4. \A c \in Calls : Promises(todo["boot"], c) => Promises(p, c)
  BY SessionFacts
<1>5. QED
  BY <1>3, <1>4, MildStep, SessionFacts DEF Sober

LEMMA AskClosingKeeps ==
    ASSUME SessionInv, AskClosing PROVE SessionInv'
<1>1. PICK p \in {<<>>, <<Just("idle?")>>} : todo' = [todo EXCEPT !["boot"] = p]
  BY DEF AskClosing
<1>2. Sober(p) /\ Ebbs(s, s)
  BY SoberSteps DEF Ebbs
<1>3. /\ AtStep("boot", "closing?") /\ s' = s
      /\ UNCHANGED <<answering, work, media, inbox, sdk, env, past>>
  BY DEF AskClosing
<1>4. QED
  BY <1>1, <1>2, <1>3, KeyKeeps, SessionFacts DEF Sobering

LEMMA AskIdleKeeps ==
    ASSUME SessionInv, AskIdle PROVE SessionInv'
<1>1. PICK p \in {<<>>, <<Just("hang up")>>} : todo' = [todo EXCEPT !["boot"] = p]
  BY DEF AskIdle
<1>2. Sober(p) /\ Ebbs(s, s)
  BY SoberSteps DEF Ebbs
<1>3. /\ AtStep("boot", "idle?") /\ s' = s
      /\ UNCHANGED <<answering, work, media, inbox, sdk, env, past>>
  BY DEF AskIdle
<1>4. QED
  BY <1>1, <1>2, <1>3, KeyKeeps, SessionFacts DEF Sobering

LEMMA HangUpKeeps ==
    ASSUME SessionInv, HangUp PROVE SessionInv'
<1> DEFINE o == HangupSession(s)
<1>1. Solid(o.session) /\ Sober(o.then) /\ Ebbs(s, o.session) /\ (o.session.pending => s.pending)
  BY SessionFacts, HangupFine
<1> HIDE DEF o
<1>2. /\ s' = o.session /\ AtStep("boot", "hang up")
      /\ todo' = [todo EXCEPT !["boot"] = o.then \o Rest("boot")]
      /\ UNCHANGED <<answering, work, media, inbox, sdk, env, past>>
  BY DEF HangUp, Section, o
<1>3. Sober(o.then \o Rest("boot"))
  BY <1>1, <1>2, MildRest DEF Sobering
<1>4. QED
  BY <1>1, <1>2, <1>3, KeyKeeps DEF Sobering

LEMMA RejectIncomingKeeps ==
    ASSUME SessionInv, RejectIncoming PROVE SessionInv'
<1> DEFINE o == IF s.state = "ringing" THEN Outcome(Finished(s), RejectLater(s.call))
                ELSE Outcome(s, <<Just("idle?")>>)
<1>1. Solid(o.session) /\ Sober(o.then) /\ Ebbs(s, o.session) /\ (o.session.pending => s.pending)
  <2>1. CASE s.state = "ringing"
    <3>1. s.conn = 0 /\ s.call \in CallOrNone
      BY <2>1, SessionFacts DEF Solid, Session
    <3>2. QED
      BY <2>1, <3>1, IdleFine, SoberSteps DEF Outcome, Finished, RejectLater, Ebbs
  <2>2. CASE s.state # "ringing"
    BY <2>2, SoberSteps, SessionFacts DEF Outcome, Ebbs
  <2>3. QED
    BY <2>1, <2>2
<1>2. /\ s' = o.session /\ AtStep("boot", "reject")
      /\ todo' = [todo EXCEPT !["boot"] = o.then \o Rest("boot")]
      /\ UNCHANGED <<answering, work, media, inbox, sdk, env, past>>
  BY DEF RejectIncoming, Section
<1> HIDE DEF o
<1>3. Sober(o.then \o Rest("boot"))
  BY <1>1, <1>2, MildRest DEF Sobering
<1>4. QED
  BY <1>1, <1>2, <1>3, KeyKeeps DEF Sobering

LEMMA InviteKeeps ==
    ASSUME SessionInv, NEW auto \in BOOLEAN, Invite(auto) PROVE SessionInv'
<1> DEFINE n == env.calls + 1
           o == JoinRoom(s, n, auto)
<1>1. /\ n \in Calls /\ env.calls \in Nat /\ env.left.calls \in CallOrNone
      /\ env.left.calls > env.calls
  <2>1. env.calls \in CallOrNone /\ env.left.calls \in CallOrNone /\ env.left.calls > env.calls
    BY SessionFacts, EnvFacts DEF Invite, ScenarioKinds
  <2>2. QED
    BY <2>1, SessionAssumption DEF CallOrNone, Calls
<1>2. /\ Solid(o.session) /\ Sober(o.then) /\ (o.session.pending => s.pending)
      /\ \/ s.state # "idle" /\ o.session = s
         \/ s = Idle /\ o.session = Ringing(n)
  BY <1>1, SessionFacts, JoinRoomFine
<1> HIDE DEF o
<1>3. /\ s' = o.session /\ todo["socket"] = <<>> /\ todo' = [todo EXCEPT !["socket"] = o.then]
      /\ UNCHANGED <<answering, work, media, inbox, sdk, past>>
  <2>1. o.then \o <<>> = o.then
    BY <1>2, NothingJoined DEF Sober
  <2>2. QED
    BY <2>1 DEF Invite, Section, Idling, o
<1>4. env' \in Env /\ env'.calls = n
  <2>1. n \in CallOrNone
    BY <1>1, CallNumbers
  <2>2. QED
    BY <2>1, SessionFacts DEF Invite, Env
<1>5. /\ todo' \in [Tasks -> Seq(Steps)] /\ todo'["socket"] = o.then
      /\ \A u \in Tasks \ {"socket"} : todo'[u] = todo[u]
  BY <1>2, <1>3, SessionFacts, NewPlan DEF Sober, Tasks
<1>6. TypeOK'
  BY <1>2, <1>3, <1>4, <1>5 DEF SessionInv, TypeOK, Solid
<1>7. Numbered'
  <2>1. (AtStep("answer", "whip")' <=> AtStep("answer", "whip")) /\ ConnOf("answer")' = ConnOf("answer")
    BY <1>5, SamePlan DEF Tasks
  <2>2. AtStep("answer", "whip") => ConnOf("answer") \in Calls
    BY SessionFacts, TailFacts, StepFacts DEF AtStep, Idling, ConnOf, Tasks
  <2>3. ASSUME NEW c \in Calls, c > n PROVE sdk[c] = "none"
    BY <1>1, <2>3, CallNumbers DEF SessionInv, Numbered
  <2>4. AtStep("answer", "whip") =>
            ConnOf("answer") <= n /\ sdk[ConnOf("answer")] = "none"
    <3>1. AtStep("answer", "whip") =>
            ConnOf("answer") <= env.calls /\ sdk[ConnOf("answer")] = "none"
      BY DEF SessionInv, Numbered
    <3>2. AtStep("answer", "whip") => ConnOf("answer") \in Nat
      BY <2>2, CallNumbers
    <3>3. QED
      BY <1>1, <3>1, <3>2
  <2>5. QED
    BY <1>3, <1>4, <2>1, <2>3, <2>4 DEF Numbered
<1>8. Shaped'
  <2>1. CASE s' = s
    <3>1. s.call \in Nat
      BY SessionFacts, CallNumbers DEF Session
    <3>2. Unasked(s.call)' <=> Unasked(s.call)
      <4>1. (AtStep("answer", "whip")' <=> AtStep("answer", "whip"))
            /\ ConnOf("answer")' = ConnOf("answer")
        BY <1>5, SamePlan DEF Tasks
      <4>2. QED
        BY <1>3, <2>1, <4>1 DEF Unasked
    <3>3. QED
      BY <1>1, <1>3, <1>4, <2>1, <3>1, <3>2 DEF SessionInv, Shaped, Met
  <2>2. CASE s' = Ringing(n)
    <3>1. s'.call = n /\ s'.conn = 0
      BY <2>2 DEF Ringing, Idle
    <3>2. sdk'[n] = "none"
      BY <1>1, <1>3 DEF SessionInv, Numbered
    <3>3. AtStep("answer", "whip")' => ConnOf("answer")' # n
      <4>1. (AtStep("answer", "whip")' <=> AtStep("answer", "whip"))
            /\ ConnOf("answer")' = ConnOf("answer")
        BY <1>5, SamePlan DEF Tasks
      <4>2. AtStep("answer", "whip") => ConnOf("answer") <= env.calls
        BY DEF SessionInv, Numbered
      <4>3. QED
        BY <1>1, <4>1, <4>2
    <3>4. QED
      BY <1>1, <1>2, <1>3, <1>4, <3>1, <3>2, <3>3 DEF Shaped, Unasked
  <2>3. QED
    BY <1>2, <1>3, <2>1, <2>2
<1>9. Planned' /\ Told'
  BY <1>3, <1>5 DEF SessionInv, Planned, Told, Met, Tasks
<1>10. Heard' /\ Sounding'
  <2>1. Holds(s, s')
    BY <1>2, <1>3 DEF Holds, Idle
  <2>2. QED
    BY <1>3, <1>5, <2>1, Holding DEF Tasks
<1>11. NoConnectionLeft'
  <2>1. \A c \in Calls : WillRelease(c) => WillRelease(c)'
    BY <1>3, <1>5, NoStep, KeptPromises DEF Tasks
  <2>2. \A c \in Calls : s.conn = c => s'.conn = c
    BY <1>2, <1>3, CallNumbers DEF Idle
  <2>3. QED
    BY <1>3, <2>1, <2>2, Releasing
<1>12. PendingIsServed'
  <2>1. ~AtStep("socket", "spawn") /\ ~AtStep("socket", "roll back")
    BY <1>3 DEF AtStep, Idling
  <2>2. QED
    BY <1>2, <1>3, <1>5, <2>1, Serving DEF Tasks
<1>13. QED
  BY <1>6, <1>7, <1>8, <1>9, <1>10, <1>11, <1>12 DEF SessionInv

\* start_answer_worker(), by the key's task or the socket's
LEMMA SpawnAnswerKeeps ==
    ASSUME SessionInv, NEW t \in {"boot", "socket"}, SpawnAnswer(t) PROVE SessionInv'
<1>1. /\ AtStep(t, "spawn") /\ t \in Tasks /\ ConnOf(t) \in Calls
      /\ UNCHANGED <<s, work, media, inbox, sdk, env, past>>
  BY SessionFacts, TailFacts, StepFacts DEF SpawnAnswer, AtStep, Idling, ConnOf, Tasks
<1>2. Sober(<<>>) /\ Sober(NotAnswered(t)) /\ Sober(<<Just("roll back")>>)
  BY SoberSteps DEF NotAnswered
<1>3. CASE answering = 0
  <2> DEFINE p == Rest(t)
             q == <<Just("answer"), Just("answered")>>
  <2>1. /\ p \in Seq(Steps)
        /\ \A c \in Calls : Promises(todo[t], c) => Promises(p, c)
        /\ t = "boot" => Sober(p)
    <3>1. <<>> \o p = p
      BY <1>1, SessionFacts, TailFacts, NothingJoined DEF Rest, AtStep, Idling
    <3>2. QED
      BY <1>1, <1>2, <3>1, MildRest DEF Sobering
  <2>2. q \in Seq(Steps) /\ Len(q) = 2 /\ q[1] = Just("answer") /\ q[2] = Just("answered")
    <3>1. Just("answer") \in Steps /\ Just("answered") \in Steps
      BY MadeSteps
    <3>2. QED
      BY <3>1
  <2>3. todo["answer"] = <<>>
    BY <1>3 DEF SessionInv, Planned
  <2>4. answering' = ConnOf(t) /\ todo' = [todo EXCEPT ![t] = p, !["answer"] = q]
    BY <1>3 DEF SpawnAnswer
  <2> HIDE DEF p, q
  <2>5. /\ todo' \in [Tasks -> Seq(Steps)] /\ todo'[t] = p /\ todo'["answer"] = q
        /\ \A u \in Tasks \ {t, "answer"} : todo'[u] = todo[u]
    BY <1>1, <2>1, <2>2, <2>4, SessionFacts DEF Tasks
  <2>6. answering' # 0 /\ answering' \in CallOrNone
    BY <1>1, <2>4, CallNumbers
  <2>7. TypeOK'
    BY <1>1, <2>5, <2>6 DEF SessionInv, TypeOK
  <2>8. ~AtStep("answer", "whip")'
    BY <2>2, <2>5, TailFacts DEF AtStep, Idling, Just
  <2>9. Shaped' /\ Numbered'
    <3>1. Ebbs(s, s')
      BY <1>1 DEF Ebbs
    <3>2. QED
      BY <1>1, <2>8, <3>1, EbbShaped, SameOnward, SessionFacts
  <2>10. Planned'
    <3>1. \A c \in Calls : ~Promises(todo'["boot"], c)
      BY <2>1, <2>5, SessionFacts DEF Sober, Tasks
    <3>2. q = <<Head(q), Just("answered")>> /\ Head(q).do # "answered"
      BY DEF Just, q
    <3>3. todo'["callback"] = todo["callback"] /\ todo'["work"] = todo["work"]
      BY <2>5 DEF Tasks
    <3>4. QED
      BY <2>2, <2>5, <2>6, <3>1, <3>2, <3>3 DEF SessionInv, Planned
  <2>11. Told'
    BY <1>1 DEF SessionInv, Told, Met
  <2>12. Heard' /\ Sounding'
    <3>1. Holds(s, s') /\ todo'["callback"] = todo["callback"]
      BY <1>1, <2>5 DEF Holds, Tasks
    <3>2. QED
      BY <1>1, <3>1, Holding
  <2>13. NoConnectionLeft'
    <3>1. \A c \in Calls, u \in Tasks : Promises(todo[u], c) => Promises(todo'[u], c)
      BY <2>1, <2>3, <2>5, NoStep
    <3>2. \A c \in Calls : WillRelease(c) => WillRelease(c)'
      BY <1>1, <3>1, WillReleaseIs DEF WillRelease, Promises, Releases
    <3>3. QED
      BY <1>1, <3>2, Releasing
  <2>14. PendingIsServed'
    BY <2>6 DEF PendingIsServed
  <2>15. QED
    BY <2>7, <2>9, <2>10, <2>11, <2>12, <2>13, <2>14 DEF SessionInv
<1>4. CASE answering # 0
  <2> DEFINE p == <<Just("roll back")>> \o NotAnswered(t) \o Rest(t)
  <2>1. todo' = [todo EXCEPT ![t] = p] /\ answering' = answering
    BY <1>4 DEF SpawnAnswer
  <2>2. /\ p \in Seq(Steps)
        /\ \A c \in Calls : Promises(todo[t], c) => Promises(p, c)
        /\ t = "boot" => Sober(p)
    BY <1>1, <1>2, JoinSober, MildRest DEF Sobering
  <2> HIDE DEF p
  <2>3. Ebbs(s, s') /\ PendingIsServed'
    BY <1>1, <1>4, <2>1 DEF Ebbs, PendingIsServed
  <2>4. QED
    BY <1>1, <2>1, <2>2, <2>3, MildStep, SessionFacts
<1>5. QED
  BY <1>3, <1>4

------------------------------------------------------------------------------
(* The answer task                                                         *)

\* Behind a step of the answer task comes its end, behind its end nothing.
LEMMA AnswerRest ==
    ASSUME SessionInv, NEW what, AtStep("answer", what)
    PROVE  /\ answering # 0
           /\ what # "answered" => Rest("answer") = <<Just("answered")>>
           /\ what = "answered" => Rest("answer") = <<>>
<1> DEFINE a == todo["answer"]
<1>1. /\ a \in Seq(Steps) /\ a # <<>> /\ Head(a).do = what /\ Rest("answer") = Tail(a)
  BY SessionFacts DEF AtStep, Idling, Rest, Tasks
<1>2. /\ answering # 0
      /\ \/ a = <<Just("answered")>>
         \/ a = <<Head(a), Just("answered")>> /\ Head(a).do # "answered"
  BY <1>1 DEF SessionInv, Planned
<1> HIDE DEF a
<1>3. Just("answered") \in Steps /\ Just("answered").do = "answered"
  BY MadeSteps DEF Just
<1>4. CASE a = <<Just("answered")>>
  BY <1>1, <1>2, <1>3, <1>4
<1>5. CASE a = <<Head(a), Just("answered")>> /\ Head(a).do # "answered"
  <2>1. \A x, y : Tail(<<x, y>>) = <<y>>
    OBVIOUS
  <2>2. QED
    BY <1>1, <1>2, <1>5, <2>1
<1>6. QED
  BY <1>2, <1>4, <1>5

LEMMA TwoSteps ==
    ASSUME NEW x \in Steps, NEW y \in Steps
    PROVE  <<x>> \o <<y>> = <<x, y>>
<1>1. /\ <<x>> \o <<y>> \in Seq(Steps) /\ Len(<<x>> \o <<y>>) = 2
      /\ (<<x>> \o <<y>>)[1] = x /\ (<<x>> \o <<y>>)[2] = y
  BY JoinFacts, OneStep
<1>2. <<x, y>> \in Seq(Steps) /\ Len(<<x, y>>) = 2 /\ <<x, y>>[1] = x /\ <<x, y>>[2] = y
  OBVIOUS
<1> DEFINE p == <<x>> \o <<y>>
           q == <<x, y>>
<1> HIDE DEF p, q
<1>3. p \in Seq(Steps) /\ q \in Seq(Steps) /\ Len(p) = Len(q)
  BY <1>1, <1>2 DEF p, q
<1>4. \A i \in 1 .. Len(p) : p[i] = q[i]
  BY <1>1, <1>2 DEF p, q
<1>5. p = q
  BY <1>3, <1>4, SeqEqual
<1>6. QED
  BY <1>5 DEF p, q

\* The answer task goes on: what a step of it leaves as it is.
LEMMA AnswerStep ==
    ASSUME SessionInv, NEW what \in Sobering \ {"spawn", "roll back"}, AtStep("answer", what),
           NEW p, Sober(p), todo' = [todo EXCEPT !["answer"] = p],
           s' \in Session, answering' \in CallOrNone, s'.pending => answering' # 0,
           Holds(s, s') \/ past'.crossed, past.crossed => past'.crossed,
           past' \in Past, past'.unserved = past.unserved,
           sdk' \in [Calls -> Links],
           \A c \in Calls : sdk'[c] = sdk[c] \/ (sdk[c] = "none" /\ sdk'[c] = "asked"),
           UNCHANGED <<work, media, inbox, env>>
    PROVE  /\ TypeOK' /\ Told' /\ Heard' /\ Sounding' /\ NoConnectionLeft' /\ PendingIsServed'
           /\ todo'["answer"] = p
           /\ \A u \in Tasks \ {"answer"} : todo'[u] = todo[u]
<1>1. /\ todo' \in [Tasks -> Seq(Steps)] /\ todo'["answer"] = p
      /\ \A u \in Tasks \ {"answer"} : todo'[u] = todo[u]
  BY SessionFacts, NewPlan DEF Sober, Tasks
<1>2. TypeOK'
  BY <1>1 DEF SessionInv, TypeOK
<1>3. Told'
  <2>1. \A i \in 1 .. Len(inbox) : inbox[i].conn \in Calls
    BY InboxFacts
  <2>2. \A c \in Calls : (Met(c) => Met(c)') /\ (sdk[c] = "closed" => sdk'[c] = "closed")
    BY DEF Met
  <2>3. QED
    BY <2>1, <2>2 DEF SessionInv, Told
<1>4. Heard' /\ Sounding'
  BY <1>1, Holding DEF Tasks
<1>5. NoConnectionLeft'
  <2>1. \A c \in Calls : ~Promises(todo["answer"], c)
    <3>1. ~Idling("answer") /\ \A c \in Calls : ~Releases(Head(todo["answer"]), c)
      BY SoberHead DEF AtStep
    <3>2. Rest("answer") \in {<<>>, <<Just("answered")>>}
      BY AnswerRest
    <3>3. \A c \in Calls : ~Releases(Just("answered"), c)
      <4>1. Just("answered").do = "answered"
        BY DEF Just
      <4>2. Just("answered").do \in Sobering
        BY <4>1 DEF Sobering
      <4>3. QED
        BY <4>2, SoberHead
    <3>4. \A c \in Calls : ~Promises(Rest("answer"), c)
      BY <3>2, <3>3, NoStep, OneStep, MadeSteps
    <3>5. QED
      BY <3>1, <3>4, RestPromises, SessionFacts DEF Idling, Rest, Tasks
  <2>2. \A c \in Calls : WillRelease(c) => WillRelease(c)'
    BY <1>1, <2>1, KeptPromises DEF Tasks
  <2>3. \A c \in Calls : s.conn = c => s'.conn = c \/ past'.crossed
    BY CallNumbers DEF Holds
  <2>4. \A c \in Calls : sdk'[c] = "open" => sdk[c] = "open"
    OBVIOUS
  <2>5. QED
    BY <2>2, <2>3, <2>4, Releasing
<1>6. PendingIsServed'
  BY DEF PendingIsServed
<1>7. QED
  BY <1>1, <1>2, <1>3, <1>4, <1>5, <1>6

LEMMA AnswerPlans ==
    /\ Sober(<<Just("answered")>>)
    /\ \A c \in Calls : Sober(<<Whip(c)>>)
<1>1. \A c \in Calls : /\ ~Releases(Just("answered"), c)
                       /\ \A d \in Calls : ~Releases(Whip(d), c)
  <2>1. Just("answered").do = "answered" /\ \A d \in Calls : Whip(d).do = "whip"
    BY DEF Just, Whip
  <2>2. Just("answered").do \in Sobering /\ \A d \in Calls : Whip(d).do \in Sobering
    BY <2>1 DEF Sobering
  <2>3. QED
    BY <2>2, SoberHead
<1>2. Just("answered") \in Steps /\ \A d \in Calls : Whip(d) \in Steps
  BY MadeSteps
<1>3. QED
  BY <1>1, <1>2, OneStep DEF Sober

\* Two steps that end with "answered" are as planned.
LEMMA AnswerPlanned ==
    ASSUME SessionInv, answering' # 0,
           \/ todo'["answer"] = <<Just("answered")>>
           \/ \E x \in Steps : todo'["answer"] = <<x>> \o <<Just("answered")>>
                                 /\ x.do # "answered",
           \A u \in Tasks \ {"answer"} : todo'[u] = todo[u]
    PROVE  Planned'
<1>1. /\ todo'["callback"] = todo["callback"] /\ todo'["work"] = todo["work"]
      /\ todo'["boot"] = todo["boot"]
  BY DEF Tasks
<1>2. ASSUME NEW x \in Steps, todo'["answer"] = <<x>> \o <<Just("answered")>>, x.do # "answered"
      PROVE  /\ todo'["answer"] = <<Head(todo'["answer"]), Just("answered")>>
             /\ Head(todo'["answer"]).do # "answered"
  <2>1. \A y \in Steps : <<x>> \o <<y>> = <<x, y>>
    BY TwoSteps
  <2> \A y : Head(<<x, y>>) = x
    OBVIOUS
  <2> Just("answered") \in Steps
    BY MadeSteps
  <2>2. QED
    BY <1>2, <2>1
<1>3. QED
  BY <1>1, <1>2 DEF SessionInv, Planned

LEMMA AnswerKeeps ==
    ASSUME SessionInv, Answer PROVE SessionInv'
<1>1. /\ AtStep("answer", "answer")
      /\ Section("answer", AnswerCurrent(s), Rest("answer"))
      /\ UNCHANGED <<answering, work, media, inbox, sdk, env, past>>
  BY DEF Answer
<1>2. answering # 0 /\ Rest("answer") = <<Just("answered")>>
  BY <1>1, AnswerRest
<1>3. CASE s.state # "ringing"
  <2>1. s' = s /\ todo' = [todo EXCEPT !["answer"] = <<>> \o <<Just("answered")>>]
    BY <1>1, <1>2, <1>3 DEF Section, AnswerCurrent, Outcome
  <2>2. <<>> \o <<Just("answered")>> = <<Just("answered")>>
    BY MadeSteps, OneStep, NothingJoined
  <2>3. Holds(s, s') /\ Ebbs(s, s')
    BY <2>1 DEF Holds, Ebbs
  <2>4. /\ TypeOK' /\ Told' /\ Heard' /\ Sounding' /\ NoConnectionLeft' /\ PendingIsServed'
        /\ todo'["answer"] = <<Just("answered")>>
        /\ \A u \in Tasks \ {"answer"} : todo'[u] = todo[u]
    <3>1. s' \in Session /\ answering' \in CallOrNone /\ answering' # 0
      BY <1>1, <1>2, <2>1, SessionFacts DEF SessionInv, TypeOK
    <3>2. "answer" \in Sobering \ {"spawn", "roll back"}
      BY DEF Sobering
    <3>3. todo' = [todo EXCEPT !["answer"] = <<Just("answered")>>]
      BY <2>1, <2>2
    <3>4. QED
      BY <1>1, <2>3, <3>1, <3>2, <3>3, SamePast, SameSdk, AnswerPlans, AnswerStep
  <2>5. Planned'
    BY <1>1, <1>2, <2>4, AnswerPlanned
  <2>6. ~AtStep("answer", "whip")'
    BY <2>4 DEF AtStep, Idling, Just
  <2>7. Shaped' /\ Numbered'
    BY <1>1, <2>1, <2>3, <2>6, EbbShaped, SameOnward, SessionFacts
  <2>8. QED
    BY <2>4, <2>5, <2>7 DEF SessionInv
<1>4. CASE s.state = "ringing"
  <2> DEFINE y == [s EXCEPT !.state = "connecting", !.armed = TRUE]
             p == <<Whip(s.call)>> \o <<Just("answered")>>
  <2>1. /\ s.call \in Calls /\ s.conn = 0 /\ s.call <= env.calls /\ sdk[s.call] = "none"
        /\ s \in Session
    BY <1>4, SessionFacts, CallNumbers DEF SessionInv, Shaped, Unasked, Solid, Session
  <2>2. s' = y /\ todo' = [todo EXCEPT !["answer"] = p]
    BY <1>1, <1>2, <1>4 DEF Section, AnswerCurrent, Outcome
  <2>3. /\ y.state = "connecting" /\ y.conn = 0 /\ y.call = s.call /\ y.pending = s.pending
        /\ y \in Session
    BY <2>1 DEF Session, States
  <2> HIDE DEF y
  <2>4. Solid(y) /\ Holds(s, y)
    BY <2>1, <2>3, CallNumbers DEF Solid, Holds
  <2>5. Sober(p)
    BY <2>1, AnswerPlans, JoinSober
  <2>6. /\ TypeOK' /\ Told' /\ Heard' /\ Sounding' /\ NoConnectionLeft' /\ PendingIsServed'
        /\ todo'["answer"] = p
        /\ \A u \in Tasks \ {"answer"} : todo'[u] = todo[u]
    <3> HIDE DEF p
    <3>1. /\ s' \in Session /\ Holds(s, s')
          /\ answering' \in CallOrNone /\ answering' # 0
      BY <1>1, <1>2, <2>2, <2>3, <2>4 DEF SessionInv, TypeOK
    <3>2. "answer" \in Sobering \ {"spawn", "roll back"}
      BY DEF Sobering
    <3>3. QED
      BY <1>1, <2>2, <2>5, <3>1, <3>2, SamePast, SameSdk, AnswerStep
  <2>7. Whip(s.call) \in Steps /\ Just("answered") \in Steps
    BY <2>1, MadeSteps
  <2>8. Planned'
    <3>1. Whip(s.call).do # "answered"
      BY DEF Whip
    <3>2. QED
      BY <1>1, <1>2, <2>6, <2>7, <3>1, AnswerPlanned
  <2>9. ConnOf("answer")' = s.call
    BY <2>6, <2>7 DEF ConnOf, Whip
  <2>10. Shaped'
    BY <1>1, <2>1, <2>2, <2>3, <2>4 DEF Shaped
  <2>11. Numbered'
    BY <1>1, <2>1, <2>9 DEF SessionInv, Numbered
  <2>12. QED
    BY <2>6, <2>8, <2>10, <2>11 DEF SessionInv
<1>5. QED
  BY <1>3, <1>4

LEMMA WhipAcceptedKeeps ==
    ASSUME SessionInv, WhipAccepted PROVE SessionInv'
<1> DEFINE n == ConnOf("answer")
           p == <<Just("answered")>>
<1>1. /\ AtStep("answer", "whip") /\ sdk' = [sdk EXCEPT ![n] = "asked"]
      /\ UNCHANGED <<s, answering, work, media, inbox, env, past>>
      /\ "whip" \in Sobering \ {"spawn", "roll back"}
  BY DEF WhipAccepted, Sobering
<1>2. answering # 0 /\ Rest("answer") = p
  BY <1>1, AnswerRest
<1>3. todo' = [todo EXCEPT !["answer"] = p]
  BY <1>2 DEF WhipAccepted, Carry
<1>4. n \in Calls /\ n <= env.calls /\ sdk[n] = "none" /\ sdk \in [Calls -> Links]
  <2>1. n \in Calls
    BY <1>1, SessionFacts, TailFacts, StepFacts DEF AtStep, Idling, ConnOf, Tasks
  <2>2. QED
    BY <1>1, <2>1 DEF SessionInv, TypeOK, Numbered
<1> HIDE DEF n, p
<1>5. sdk' \in [Calls -> Links] /\ sdk'[n] = "asked" /\ \A c \in Calls \ {n} : sdk'[c] = sdk[c]
  BY <1>1, <1>4 DEF Links
<1>6. /\ Sober(p) /\ Holds(s, s') /\ s' \in Session
      /\ answering' \in CallOrNone /\ answering' # 0
  BY <1>1, <1>2, AnswerPlans, SessionFacts DEF SessionInv, TypeOK, Holds, p
<1>7. /\ TypeOK' /\ Told' /\ Heard' /\ Sounding' /\ NoConnectionLeft' /\ PendingIsServed'
      /\ todo'["answer"] = p
      /\ \A u \in Tasks \ {"answer"} : todo'[u] = todo[u]
  <2>1. \A c \in Calls : sdk'[c] = sdk[c] \/ (sdk[c] = "none" /\ sdk'[c] = "asked")
    BY <1>4, <1>5
  <2>2. QED
    BY <1>1, <1>3, <1>5, <1>6, <2>1, SamePast, AnswerStep
<1>8. Planned'
  BY <1>1, <1>2, <1>7, AnswerPlanned DEF p
<1>9. ~AtStep("answer", "whip")'
  BY <1>7 DEF AtStep, Idling, Just, p
<1>10. Numbered'
  <2>1. \A c \in Calls : c > env.calls => c # n
    <3>1. env.calls \in Nat
      BY SessionFacts, CallNumbers
    <3>2. QED
      BY <1>4, <3>1, CallNumbers
  <2>2. QED
    BY <1>1, <1>5, <1>9, <2>1 DEF SessionInv, Numbered
<1>11. Shaped'
  <2>1. s.conn # 0 => s.conn \in Calls
    BY SessionFacts, CallNumbers DEF Session
  <2>2. s.conn # 0 => Met(s.conn)'
    BY <1>1, <1>4, <1>5, <2>1 DEF SessionInv, Shaped, Met
  <2>3. s.state = "ringing" => Unasked(s.call) /\ s.call \in Calls
    BY SessionFacts, CallNumbers DEF SessionInv, Shaped, Solid, Session
  <2>4. s.state = "ringing" => s.call # n
    BY <1>1, <2>3 DEF Unasked, n
  <2>5. s.state = "ringing" => sdk'[s.call] = "none"
    BY <1>5, <2>3, <2>4 DEF Unasked
  <2>6. QED
    BY <1>1, <1>9, <2>2, <2>5 DEF SessionInv, Shaped, Unasked, Met
<1>12. QED
  BY <1>7, <1>8, <1>10, <1>11 DEF SessionInv

LEMMA WhipRefusedKeeps ==
    ASSUME SessionInv, WhipRefused PROVE SessionInv'
<1> DEFINE n == ConnOf("answer")
           p == <<Post(Reject(s.call))>> \o <<Just("answered")>>
<1>1. /\ AtStep("answer", "whip") /\ s' = Idle
      /\ past' = [past EXCEPT !.crossed = @ \/ Crosses(n)]
      /\ todo' = [todo EXCEPT !["answer"] = RejectLater(s.call) \o Rest("answer")]
      /\ UNCHANGED <<answering, work, media, inbox, sdk, env>>
      /\ "whip" \in Sobering \ {"spawn", "roll back"}
  BY DEF WhipRefused, Section, WhipFailed, Outcome, Finished, Remembers, Sobering
<1>2. answering # 0 /\ Rest("answer") = <<Just("answered")>>
  BY <1>1, AnswerRest
<1>3. todo' = [todo EXCEPT !["answer"] = p]
  BY <1>1, <1>2 DEF RejectLater
<1>4. s.call \in CallOrNone /\ sdk[n] = "none"
  BY <1>1, SessionFacts DEF Session, SessionInv, Numbered
<1> HIDE DEF n
<1>5. /\ past' \in Past /\ past'.unserved = past.unserved /\ (past.crossed => past'.crossed)
      /\ past'.crossed \/ (~past.crossed /\ ~Crosses(n))
  <2>1. past \in Past /\ Crosses(n) \in BOOLEAN
    BY DEF SessionInv, TypeOK, Crosses
  <2>2. QED
    BY <1>1, <2>1 DEF Past
<1>6. Holds(s, s') \/ past'.crossed
  <2> SUFFICES ASSUME ~past'.crossed, s.conn # 0 PROVE FALSE
    BY DEF Holds
  <2>1. s.state # "idle" /\ s.conn = s.call /\ Met(s.conn)
    BY <1>5, SessionFacts DEF SessionInv, Shaped, Solid, Idle
  <2>2. s.call = n
    BY <1>5, <2>1 DEF Crosses
  <2>3. QED
    BY <1>4, <2>1, <2>2 DEF Met
<1>7. Sober(p)
  BY <1>4, SoberSteps, AnswerPlans, JoinSober
<1> HIDE DEF p
<1>8. /\ TypeOK' /\ Told' /\ Heard' /\ Sounding' /\ NoConnectionLeft' /\ PendingIsServed'
      /\ todo'["answer"] = p
      /\ \A u \in Tasks \ {"answer"} : todo'[u] = todo[u]
  <2>1. s' \in Session /\ answering' \in CallOrNone /\ answering' # 0
    BY <1>1, <1>2, IdleFine DEF SessionInv, TypeOK, Solid
  <2>2. QED
    BY <1>1, <1>3, <1>5, <1>6, <1>7, <2>1, SameSdk, AnswerStep
<1>9. Post(Reject(s.call)) \in Steps /\ Post(Reject(s.call)).do = "post"
  BY <1>4, MadeSteps, MadeItems DEF Post
<1>10. Planned'
  BY <1>1, <1>2, <1>8, <1>9, AnswerPlanned DEF p
<1>11. ~AtStep("answer", "whip")'
  <2>1. Just("answered") \in Steps
    BY MadeSteps
  <2>2. Head(p) = Post(Reject(s.call))
    BY <1>9, <2>1, TwoSteps DEF p
  <2>3. QED
    BY <1>8, <1>9, <2>2 DEF AtStep
<1>12. Shaped' /\ Numbered'
  <2>1. Numbered'
    BY <1>1, <1>11 DEF SessionInv, Numbered
  <2>2. env.calls \in Nat
    BY SessionFacts, CallNumbers
  <2>3. s'.call = 0 /\ s'.conn = 0 /\ s'.state = "idle" /\ Solid(s')
    BY <1>1, IdleFine DEF Idle
  <2>4. QED
    BY <1>1, <2>1, <2>2, <2>3 DEF Shaped
<1>13. QED
  BY <1>8, <1>10, <1>12 DEF SessionInv

LEMMA AnswerDoneKeeps ==
    ASSUME SessionInv, AnswerDone PROVE SessionInv'
<1>1. /\ AtStep("answer", "answered") /\ s' = [s EXCEPT !.pending = FALSE]
      /\ todo' = [todo EXCEPT !["answer"] = <<>> \o Rest("answer")] /\ answering' = 0
      /\ UNCHANGED <<work, media, inbox, sdk, env, past>>
      /\ "answered" \in Sobering \ {"spawn", "roll back"}
  BY DEF AnswerDone, Section, Outcome, Sobering
<1>2. Rest("answer") = <<>> /\ <<>> \o <<>> = <<>>
  BY <1>1, AnswerRest, NoStep, NothingJoined
<1>3. todo' = [todo EXCEPT !["answer"] = <<>>]
  BY <1>1, <1>2
<1>4. Solid(s') /\ Ebbs(s, s') /\ ~s'.pending
  BY <1>1, SessionFacts, UnpendingFine
<1>5. /\ s' \in Session /\ answering' \in CallOrNone /\ Sober(<<>>) /\ Holds(s, s')
  BY <1>1, <1>4, CallNumbers, SoberSteps, EbbHolds DEF Solid
<1>6. /\ TypeOK' /\ Told' /\ Heard' /\ Sounding' /\ NoConnectionLeft' /\ PendingIsServed'
      /\ todo'["answer"] = <<>>
      /\ \A u \in Tasks \ {"answer"} : todo'[u] = todo[u]
  BY <1>1, <1>3, <1>4, <1>5, SamePast, SameSdk, AnswerStep
<1>7. Planned'
  BY <1>1, <1>6 DEF SessionInv, Planned, Tasks
<1>8. ~AtStep("answer", "whip")'
  BY <1>6 DEF AtStep, Idling
<1>9. Shaped' /\ Numbered'
  BY <1>1, <1>4, <1>8, SameOnward, SamePast, EbbShaped
<1>10. QED
  BY <1>6, <1>7, <1>9 DEF SessionInv

------------------------------------------------------------------------------
(* The SDK                                                                 *)

\* One connection goes on to l.
LEMMA OneMoves ==
    ASSUME SessionInv, NEW c \in Calls, NEW l \in {"opened", "open", "leaving", "closed"},
           sdk[c] \notin {"none", "closed"}, sdk' = [sdk EXCEPT ![c] = l]
    PROVE  /\ sdk' \in [Calls -> Links] /\ Onward
           /\ sdk'[c] = l /\ \A d \in Calls \ {c} : sdk'[d] = sdk[d]
<1>1. sdk \in [Calls -> Links] /\ l \in Links
  BY DEF SessionInv, TypeOK, Links
<1>2. /\ sdk' \in [Calls -> Links]
      /\ sdk'[c] = l /\ \A d \in Calls \ {c} : sdk'[d] = sdk[d]
  BY <1>1
<1>3. Onward
  BY <1>2 DEF Onward, Met
<1>4. QED
  BY <1>2, <1>3

\* What was told stays true.
LEMMA StillTold ==
    ASSUME SessionInv, Onward,
           inbox' = inbox \/ (inbox # <<>> /\ inbox' = Tail(inbox))
    PROVE  Told'
<1>1. \A i \in 1 .. Len(inbox) :
        /\ inbox[i].conn \in Calls /\ Met(inbox[i].conn)
        /\ inbox[i].kind = "disconnected" => sdk[inbox[i].conn] = "closed"
  BY InboxFacts DEF SessionInv, Told
<1>2. \A i \in 1 .. Len(inbox) :
        /\ sdk'[inbox[i].conn] \in {"opened", "open", "leaving", "closed"}
        /\ inbox[i].kind = "disconnected" => sdk'[inbox[i].conn] = "closed"
  <2>1. \A d \in Calls : Met(d) => sdk'[d] \in {"opened", "open", "leaving", "closed"}
    BY DEF Onward, Met
  <2>2. QED
    BY <1>1, <2>1 DEF Onward
<1>3. CASE inbox' = inbox
  BY <1>2, <1>3 DEF Told, Met
<1>4. CASE inbox # <<>> /\ inbox' = Tail(inbox)
  <2>1. inbox \in Seq(Events)
    BY DEF SessionInv, TypeOK
  <2>2. \A i \in 1 .. Len(inbox') : inbox'[i] = inbox[i + 1] /\ i + 1 \in 1 .. Len(inbox)
    BY <1>4, <2>1, TailFacts
  <2>3. QED
    BY <1>2, <2>2 DEF Told, Met
<1>5. QED
  BY <1>3, <1>4

\* post_callback_event() of something true.
LEMMA PostEventFine ==
    ASSUME SessionInv, Onward, NEW c \in Calls, NEW kind \in Signals \cup {"disconnected"},
           PostEvent(kind, c), Met(c)', kind = "disconnected" => sdk'[c] = "closed"
    PROVE  /\ Told' /\ inbox' \in Seq(Events) /\ Len(inbox') <= InboxCap
           /\ past' \in Past /\ past'.unserved = past.unserved
           /\ past.crossed => past'.crossed
<1> DEFINE e == [kind |-> kind, conn |-> c]
           full == Len(inbox) >= InboxCap
<1>1. e \in Events /\ inbox \in Seq(Events) /\ Len(inbox) <= InboxCap /\ past \in Past
      /\ e.conn = c /\ e.kind = kind /\ InboxCap \in Nat
  BY SessionAssumption DEF SessionInv, TypeOK, Events
<1>2. past' = [past EXCEPT !.unheard = @ \/ (full /\ kind = "disconnected")]
  BY DEF PostEvent
<1>3. /\ past' \in Past /\ past'.unserved = past.unserved
      /\ past'.crossed = past.crossed
  BY <1>1, <1>2 DEF Past
<1>4. CASE full
  <2>1. inbox' = inbox
    BY <1>4 DEF PostEvent
  <2>2. QED
    BY <1>1, <1>3, <2>1, StillTold
<1>5. CASE ~full
  <2>1. inbox' = Append(inbox, e)
    BY <1>5 DEF PostEvent
  <2> HIDE DEF e
  <2>2. /\ inbox' \in Seq(Events) /\ Len(inbox') = Len(inbox) + 1
        /\ \A i \in 1 .. Len(inbox) : inbox'[i] = inbox[i]
        /\ inbox'[Len(inbox) + 1] = e
    BY <1>1, <2>1
  <2>3. \A i \in 1 .. Len(inbox) :
        /\ sdk'[inbox[i].conn] \in {"opened", "open", "leaving", "closed"}
        /\ inbox[i].kind = "disconnected" => sdk'[inbox[i].conn] = "closed"
    <3>1. \A i \in 1 .. Len(inbox) :
            /\ inbox[i].conn \in Calls /\ Met(inbox[i].conn)
            /\ inbox[i].kind = "disconnected" => sdk[inbox[i].conn] = "closed"
      BY InboxFacts DEF SessionInv, Told
    <3>2. \A d \in Calls : Met(d) => sdk'[d] \in {"opened", "open", "leaving", "closed"}
      BY DEF Onward, Met
    <3>3. QED
      BY <3>1, <3>2 DEF Onward
  <2>4. sdk'[e.conn] \in {"opened", "open", "leaving", "closed"}
        /\ (e.kind = "disconnected" => sdk'[e.conn] = "closed")
    BY <1>1 DEF Met
  <2>5. Told'
    <3>1. \A i \in 1 .. Len(inbox') : i \in 1 .. Len(inbox) \/ i = Len(inbox) + 1
      BY <1>1, <2>2
    <3>2. QED
      BY <2>2, <2>3, <2>4, <3>1 DEF Told, Met
  <2>6. Len(inbox') <= InboxCap
    BY <1>1, <1>5, <2>2
  <2>7. QED
    BY <1>3, <2>2, <2>5, <2>6
<1>6. QED
  BY <1>4, <1>5

\* The SDK's side goes on, and the tasks rest.
LEMMA SdkGoesOn ==
    ASSUME SessionInv, sdk' \in [Calls -> Links], Onward,
           \A d \in Calls : sdk'[d] = "open" => sdk[d] = "open",
           Told', inbox' \in Seq(Events), Len(inbox') <= InboxCap,
           past' \in Past, past'.unserved = past.unserved, past.crossed => past'.crossed,
           env' \in Env, env'.calls = env.calls,
           UNCHANGED <<s, answering, work, media, todo>>
    PROVE  SessionInv'
<1>1. TypeOK'
  BY DEF SessionInv, TypeOK
<1>2. Ebbs(s, s') /\ Holds(s, s')
  BY DEF Ebbs, Holds
<1>3. Shaped' /\ Numbered'
  BY <1>2, EbbShaped, SamePlan, SessionFacts
<1>4. Planned' /\ PendingIsServed'
  BY DEF SessionInv, Planned, PendingIsServed, AtStep, Idling
<1>5. Heard' /\ Sounding'
  BY <1>2, Holding
<1>6. \A c \in Calls : WillRelease(c) => WillRelease(c)'
  BY DEF WillRelease
<1>7. NoConnectionLeft'
  BY <1>6, Releasing
<1>8. QED
  BY <1>1, <1>3, <1>4, <1>5, <1>7 DEF SessionInv

LEMMA LinkOpensKeeps ==
    ASSUME SessionInv, NEW c \in Calls, LinkOpens(c) PROVE SessionInv'
<1>1. /\ sdk[c] = "asked" /\ sdk' = [sdk EXCEPT ![c] = "opened"]
      /\ UNCHANGED <<s, answering, work, media, inbox, todo, env, past>>
  BY DEF LinkOpens
<1>2. /\ sdk' \in [Calls -> Links] /\ Onward
      /\ sdk'[c] = "opened" /\ \A d \in Calls \ {c} : sdk'[d] = sdk[d]
  BY <1>1, OneMoves
<1>3. Told' /\ inbox' \in Seq(Events) /\ Len(inbox') <= InboxCap
  BY <1>1, <1>2, StillTold DEF SessionInv, TypeOK
<1>4. \A d \in Calls : sdk'[d] = "open" => sdk[d] = "open"
  BY <1>2
<1>5. QED
  BY <1>1, <1>2, <1>3, <1>4, SamePast, SessionFacts, SdkGoesOn

LEMMA LinkClosesKeeps ==
    ASSUME SessionInv, NEW c \in Calls, LinkCloses(c) PROVE SessionInv'
<1>1. /\ sdk[c] = "leaving" /\ sdk' = [sdk EXCEPT ![c] = "closed"]
      /\ PostEvent("disconnected", c)
      /\ UNCHANGED <<s, answering, work, media, todo, env>>
  BY DEF LinkCloses
<1>2. /\ sdk' \in [Calls -> Links] /\ Onward
      /\ sdk'[c] = "closed" /\ \A d \in Calls \ {c} : sdk'[d] = sdk[d]
  BY <1>1, OneMoves
<1>3. Met(c)'
  BY <1>2 DEF Met
<1>4. \A d \in Calls : sdk'[d] = "open" => sdk[d] = "open"
  BY <1>2
<1>5. /\ Told' /\ inbox' \in Seq(Events) /\ Len(inbox') <= InboxCap
      /\ past' \in Past /\ past'.unserved = past.unserved /\ (past.crossed => past'.crossed)
  BY <1>1, <1>2, <1>3, PostEventFine
<1>6. QED
  BY <1>1, <1>2, <1>4, <1>5, SessionFacts, SdkGoesOn

LEMMA SignalKeeps ==
    ASSUME SessionInv, NEW kind \in Signals, NEW c \in Calls, Signal(kind, c)
    PROVE  SessionInv'
<1>1. /\ sdk[c] \in {"opened", "open"} /\ kind # "disconnected"
      /\ PostEvent(kind, c) /\ env' = [env EXCEPT !.sent = @ \cup {<<kind, c>>}]
      /\ UNCHANGED <<s, answering, work, media, todo, sdk>>
  BY DEF Signal, Signals
<1>2. Onward /\ sdk' \in [Calls -> Links] /\ Met(c)'
  BY <1>1, SameOnward, SameSdk DEF Met
<1>3. /\ Told' /\ inbox' \in Seq(Events) /\ Len(inbox') <= InboxCap
      /\ past' \in Past /\ past'.unserved = past.unserved /\ (past.crossed => past'.crossed)
  BY <1>1, <1>2, PostEventFine
<1>4. env' \in Env /\ env'.calls = env.calls
  <2>1. env.sent \cup {<<kind, c>>} \in SUBSET (Signals \X Calls)
    BY SessionFacts DEF Env
  <2>2. QED
    BY <1>1, <2>1, SessionFacts DEF Env
<1>5. QED
  BY <1>1, <1>2, <1>3, <1>4, SdkGoesOn

\* on_whip_connect(), the good news
LEMMA WhipConnectedFine ==
    ASSUME NEW x, Solid(x), NEW c \in Calls
    PROVE  LET o == WhipConnected(x, c) IN
           /\ Solid(o.session) /\ o.then \in Seq(Steps) /\ o.session.call = x.call
           /\ o.session.pending => x.pending
           /\ \/ /\ x.state = "connecting" /\ o.session.conn = c
                 /\ o.session.state = "awaiting"
              \/ /\ x.state # "connecting" /\ o.session = x
                 /\ (x.conn = c \/ Promises(o.then, c))
<1>1. CASE x.state = "connecting"
  <2> DEFINE y == [x EXCEPT !.conn = c, !.state = "awaiting", !.armed = TRUE]
  <2>1. /\ y.conn = c /\ y.state = "awaiting" /\ y.call = x.call /\ y.pending = x.pending
        /\ y \in Session
    BY <1>1, CallNumbers DEF Solid, Session, States
  <2>2. Solid(y)
    BY <1>1, <2>1 DEF Solid
  <2>3. WhipConnected(x, c) = Outcome(y, <<>>)
    BY <1>1 DEF WhipConnected
  <2> HIDE DEF y
  <2>4. QED
    BY <1>1, <2>1, <2>2, <2>3, NoStep DEF Outcome
<1>2. CASE x.state # "connecting" /\ x.state \in {"awaiting", "in_call"} /\ x.conn = c
  BY <1>2, NoStep DEF WhipConnected, Outcome
<1>3. CASE x.state # "connecting" /\ ~(x.state \in {"awaiting", "in_call"} /\ x.conn = c)
  <2>1. WhipConnected(x, c) = Outcome(x, <<Post(Disconnect(c, FALSE))>>)
    BY <1>3 DEF WhipConnected, DisconnectLater
  <2>2. /\ <<Post(Disconnect(c, FALSE))>> \in Seq(Steps)
        /\ Promises(<<Post(Disconnect(c, FALSE))>>, c)
    BY MadeItems, MadeSteps, OneStep DEF Releases
  <2>3. \A p : Outcome(x, p).session = x /\ Outcome(x, p).then = p
    BY DEF Outcome
  <2>4. QED
    BY <1>3, <2>1, <2>2, <2>3
<1>4. QED
  BY <1>1, <1>2, <1>3

\* The SDK's thread is at its callback: what that leaves as it is.
LEMMA WhipEnds ==
    ASSUME SessionInv, Idling("sdk"), NEW p \in Seq(Steps), todo' = [todo EXCEPT !["sdk"] = p],
           s' \in Session, s'.pending => s.pending, Holds(s, s') \/ past'.crossed,
           past' \in Past, past'.unserved = past.unserved, past.crossed => past'.crossed,
           sdk' \in [Calls -> Links], Onward,
           UNCHANGED <<answering, work, media, inbox, env>>
    PROVE  /\ TypeOK' /\ Numbered' /\ Planned' /\ Told' /\ Heard' /\ Sounding' /\ PendingIsServed'
           /\ todo'["sdk"] = p
           /\ (AtStep("answer", "whip")' <=> AtStep("answer", "whip"))
           /\ ConnOf("answer")' = ConnOf("answer")
           /\ \A c \in Calls : WillRelease(c) => WillRelease(c)'
<1>1. /\ todo' \in [Tasks -> Seq(Steps)] /\ todo'["sdk"] = p
      /\ \A u \in Tasks \ {"sdk"} : todo'[u] = todo[u]
  BY SessionFacts, NewPlan DEF Tasks
<1>2. TypeOK'
  BY <1>1 DEF SessionInv, TypeOK
<1>3. (AtStep("answer", "whip")' <=> AtStep("answer", "whip")) /\ ConnOf("answer")' = ConnOf("answer")
  BY <1>1, SamePlan DEF Tasks
<1>4. Numbered'
  <2>1. AtStep("answer", "whip") => ConnOf("answer") \in Calls
    BY SessionFacts, TailFacts, StepFacts DEF AtStep, Idling, ConnOf, Tasks
  <2>2. QED
    BY <1>3, <2>1 DEF SessionInv, Numbered, Onward
<1>5. Planned' /\ Told'
  BY <1>1, StillTold DEF SessionInv, Planned, Tasks
<1>6. Heard' /\ Sounding'
  BY <1>1, Holding DEF Tasks
<1>7. PendingIsServed'
  <2>1. ~AtStep("sdk", "spawn") /\ ~AtStep("sdk", "roll back")
    BY DEF AtStep
  <2>2. QED
    BY <1>1, <2>1, Serving DEF Tasks
<1>8. \A c \in Calls : WillRelease(c) => WillRelease(c)'
  <2>1. \A c \in Calls : ~Promises(todo["sdk"], c)
    BY NoStep DEF Idling
  <2>2. QED
    BY <1>1, <2>1, KeptPromises DEF Tasks
<1>9. QED
  BY <1>1, <1>2, <1>3, <1>4, <1>5, <1>6, <1>7, <1>8

LEMMA WhipSucceedsKeeps ==
    ASSUME SessionInv, NEW c \in Calls, WhipSucceeds(c) PROVE SessionInv'
<1> DEFINE o == WhipConnected(s, c)
           p == o.then
<1>1. /\ Solid(o.session) /\ p \in Seq(Steps) /\ o.session.call = s.call
      /\ o.session.pending => s.pending
      /\ \/ s.state = "connecting" /\ o.session.conn = c /\ o.session.state = "awaiting"
         \/ s.state # "connecting" /\ o.session = s /\ (s.conn = c \/ Promises(p, c))
  BY SessionFacts, WhipConnectedFine
<1> HIDE DEF o
<1>2. /\ s' = o.session /\ Idling("sdk") /\ todo' = [todo EXCEPT !["sdk"] = p]
      /\ sdk[c] = "opened" /\ sdk' = [sdk EXCEPT ![c] = "open"]
      /\ past' = [past EXCEPT !.crossed = @ \/ (s.state = "connecting" /\ Crosses(c))]
      /\ UNCHANGED <<answering, work, media, inbox, env>>
  <2>1. p \o <<>> = p
    BY <1>1, NothingJoined
  <2>2. QED
    BY <2>1 DEF WhipSucceeds, Section, Remembers, o
<1> HIDE DEF p
<1>3. /\ sdk' \in [Calls -> Links] /\ Onward
      /\ sdk'[c] = "open" /\ \A d \in Calls \ {c} : sdk'[d] = sdk[d]
  BY <1>2, OneMoves
<1>4. /\ past' \in Past /\ past'.unserved = past.unserved /\ (past.crossed => past'.crossed)
      /\ past'.crossed \/ ~(s.state = "connecting" /\ Crosses(c))
  <2>1. past \in Past /\ (s.state = "connecting" /\ Crosses(c)) \in BOOLEAN
    BY DEF SessionInv, TypeOK
  <2>2. QED
    BY <1>2, <2>1 DEF Past
<1>5. ASSUME ~past'.crossed
      PROVE  s.conn \in {0, s.call} /\ (s.state = "connecting" => s.call = c)
  BY <1>4, <1>5 DEF SessionInv, Shaped, Crosses
<1>6. Holds(s, s') \/ past'.crossed
  BY <1>1, <1>2, <1>5 DEF Holds, Audible
<1>7. /\ TypeOK' /\ Numbered' /\ Planned' /\ Told' /\ Heard' /\ Sounding' /\ PendingIsServed'
      /\ todo'["sdk"] = p
      /\ (AtStep("answer", "whip")' <=> AtStep("answer", "whip"))
      /\ ConnOf("answer")' = ConnOf("answer")
      /\ \A d \in Calls : WillRelease(d) => WillRelease(d)'
  <2>1. s' \in Session /\ (s'.pending => s.pending)
    BY <1>1, <1>2 DEF Solid
  <2>2. QED
    BY <1>1, <1>2, <1>3, <1>4, <1>6, <2>1, WhipEnds
<1>8. Shaped'
  <2>1. s'.state = "ringing" => Unasked(s.call)'
    <3>1. s'.state = "ringing" => s' = s /\ s.call \in Calls /\ Unasked(s.call)
      BY <1>1, <1>2, SessionFacts, CallNumbers DEF SessionInv, Shaped, Solid, Session
    <3>2. QED
      BY <1>2, <1>3, <1>7, <3>1 DEF Unasked
  <2>2. s'.conn # 0 => Met(s.conn)'
    <3>1. CASE s'.conn = c
      BY <1>3, <3>1 DEF Met
    <3>2. CASE s' = s
      <4>1. s.conn # 0 => s.conn \in Calls /\ Met(s.conn)
        BY SessionFacts, CallNumbers DEF SessionInv, Shaped, Session
      <4>2. QED
        BY <1>3, <3>2, <4>1 DEF Met
    <3>3. QED
      BY <1>1, <1>2, <3>1, <3>2
  <2>3. past'.crossed \/ s'.conn \in {0, s'.call}
    BY <1>1, <1>2, <1>5
  <2>4. s'.call <= env'.calls /\ Solid(s')
    BY <1>1, <1>2 DEF SessionInv, Shaped
  <2>5. QED
    BY <2>1, <2>2, <2>3, <2>4 DEF Shaped
<1>9. NoConnectionLeft'
  <2> SUFFICES ASSUME NEW d \in Calls, sdk'[d] = "open", ~past'.crossed
               PROVE  s'.conn = d \/ WillRelease(d)' \/ d \in past'.unserved
    BY DEF NoConnectionLeft
  <2>1. CASE d = c
    <3>1. s'.conn = c \/ Promises(todo'["sdk"], c)
      BY <1>1, <1>2, <1>7
    <3>2. Promises(todo'["sdk"], c) => WillRelease(c)'
      BY DEF WillRelease, Promises, Releases, Tasks
    <3>3. QED
      BY <2>1, <3>1, <3>2
  <2>2. CASE d # c
    <3>1. s.conn = d \/ WillRelease(d) \/ d \in past.unserved
      BY <1>3, <1>4, <2>2 DEF SessionInv, NoConnectionLeft
    <3>2. s.conn = d => s'.conn = d
      BY <1>1, <1>2, <1>5, <2>2, CallNumbers
    <3>3. QED
      BY <1>4, <1>7, <3>1, <3>2
  <2>3. QED
    BY <2>1, <2>2
<1>10. QED
  BY <1>7, <1>8, <1>9 DEF SessionInv

LEMMA WhipFailsKeeps ==
    ASSUME SessionInv, NEW c \in Calls, WhipFails(c) PROVE SessionInv'
<1> DEFINE p == <<Post(Reject(s.call))>>
<1>1. s.call \in CallOrNone /\ p \in Seq(Steps)
  <2>1. s.call \in CallOrNone
    BY SessionFacts DEF Session
  <2>2. QED
    BY <2>1, MadeItems, MadeSteps, OneStep
<1> HIDE DEF p
<1>2. /\ s' = Idle /\ Idling("sdk") /\ todo' = [todo EXCEPT !["sdk"] = p]
      /\ sdk[c] = "asked" /\ sdk' = [sdk EXCEPT ![c] = "closed"]
      /\ past' = [past EXCEPT !.crossed = @ \/ Crosses(c)]
      /\ UNCHANGED <<answering, work, media, inbox, env>>
  <2>1. p \o <<>> = p
    BY <1>1, NothingJoined
  <2>2. QED
    BY <2>1 DEF WhipFails, WhipFailed, Section, Outcome, RejectLater, Finished, Remembers, p
<1>3. /\ sdk' \in [Calls -> Links] /\ Onward
      /\ sdk'[c] = "closed" /\ \A d \in Calls \ {c} : sdk'[d] = sdk[d]
  BY <1>2, OneMoves
<1>4. /\ past' \in Past /\ past'.unserved = past.unserved /\ (past.crossed => past'.crossed)
      /\ past'.crossed \/ (~past.crossed /\ ~Crosses(c))
  <2>1. past \in Past /\ Crosses(c) \in BOOLEAN
    BY DEF SessionInv, TypeOK, Crosses
  <2>2. QED
    BY <1>2, <2>1 DEF Past
<1>5. s.conn = 0 \/ past'.crossed
  <2> SUFFICES ASSUME ~past'.crossed, s.conn # 0 PROVE FALSE
    OBVIOUS
  <2>1. s.state # "idle" /\ s.conn = s.call /\ Met(s.conn)
    BY <1>4, SessionFacts DEF SessionInv, Shaped, Solid, Idle
  <2>2. s.call = c
    BY <1>4, <2>1 DEF Crosses
  <2>3. QED
    BY <1>2, <2>1, <2>2 DEF Met
<1>6. /\ TypeOK' /\ Numbered' /\ Planned' /\ Told' /\ Heard' /\ Sounding' /\ PendingIsServed'
      /\ \A d \in Calls : WillRelease(d) => WillRelease(d)'
  <2>1. s' \in Session /\ ~s'.pending /\ (Holds(s, s') \/ past'.crossed)
    BY <1>2, <1>5, IdleFine DEF Solid, Holds
  <2>2. QED
    BY <1>1, <1>2, <1>3, <1>4, <2>1, WhipEnds
<1>7. Shaped'
  <2>1. env.calls \in Nat
    BY SessionFacts, CallNumbers
  <2>2. s'.call = 0 /\ s'.conn = 0 /\ s'.state = "idle" /\ Solid(s')
    BY <1>2, IdleFine DEF Idle
  <2>3. QED
    BY <1>2, <2>1, <2>2 DEF Shaped
<1>8. NoConnectionLeft'
  <2>1. \A d \in Calls : sdk'[d] = "open" => sdk[d] = "open"
    BY <1>3
  <2>2. \A d \in Calls : s.conn = d => past'.crossed
    BY <1>5, CallNumbers
  <2>3. QED
    BY <1>4, <1>6, <2>1, <2>2, Releasing
<1>9. QED
  BY <1>6, <1>7, <1>8 DEF SessionInv

------------------------------------------------------------------------------
(* The callback task                                                       *)

\* Behind what the callback task is at come posts.
LEMMA RestPosts ==
    ASSUME SessionInv, ~Idling("callback")
    PROVE  /\ Rest("callback") \in Seq(Steps)
           /\ \A i \in 1 .. Len(Rest("callback")) : Rest("callback")[i].do = "post"
<1> DEFINE p == todo["callback"]
<1>1. p \in Seq(Steps) /\ p # <<>> /\ \A i \in 2 .. Len(p) : p[i].do = "post"
  BY SessionFacts DEF SessionInv, Planned, Idling, Tasks
<1> HIDE DEF p
<1>2. /\ Tail(p) \in Seq(Steps) /\ Len(p) \in Nat /\ Len(Tail(p)) = Len(p) - 1
      /\ \A i \in 1 .. Len(p) - 1 : Tail(p)[i] = p[i + 1]
  BY <1>1, TailFacts
<1>3. \A i \in 1 .. Len(Tail(p)) : i + 1 \in 2 .. Len(p) /\ Tail(p)[i] = p[i + 1]
  BY <1>2
<1>4. \A i \in 1 .. Len(Tail(p)) : Tail(p)[i].do = "post"
  BY <1>1, <1>3
<1>5. QED
  BY <1>2, <1>4 DEF Rest, p

\* A session that is over is well-shaped.
LEMMA IdleShaped ==
    ASSUME SessionInv, s' = Idle, env'.calls = env.calls
    PROVE  Shaped'
<1>1. env.calls \in Nat
  BY SessionFacts, CallNumbers
<1>2. s'.call = 0 /\ s'.conn = 0 /\ s'.state = "idle" /\ Solid(s')
  BY IdleFine DEF Idle
<1>3. QED
  BY <1>1, <1>2 DEF Shaped

\* An inbox without its head fits as well.
LEMMA InboxRest ==
    ASSUME SessionInv
    PROVE  /\ inbox \in Seq(Events) /\ Len(inbox) <= InboxCap
           /\ inbox # <<>> => Tail(inbox) \in Seq(Events) /\ Len(Tail(inbox)) <= InboxCap
<1>1. inbox \in Seq(Events) /\ Len(inbox) \in Nat /\ Len(inbox) <= InboxCap
  BY DEF SessionInv, TypeOK
<1>2. InboxCap \in Nat
  BY SessionAssumption
<1>3. inbox # <<>> => Tail(inbox) \in Seq(Events) /\ Len(Tail(inbox)) = Len(inbox) - 1
  BY <1>1, TailFacts
<1>4. Len(inbox) - 1 <= InboxCap
  BY <1>1, <1>2
<1>5. QED
  BY <1>1, <1>3, <1>4

\* The callback task goes on with p, its promises kept: what that leaves as it is.
LEMMA HandlerGoesOn ==
    ASSUME SessionInv, NEW p \in Seq(Steps), \A i \in 2 .. Len(p) : p[i].do = "post",
           ~AtStep("callback", "spawn"), ~AtStep("callback", "roll back"),
           todo' = [todo EXCEPT !["callback"] = p],
           \A c \in Calls : Promises(todo["callback"], c) => Promises(p, c),
           s' \in Session, s'.pending => s.pending, media' \in Media, past' \in Past,
           inbox' = inbox \/ (inbox # <<>> /\ inbox' = Tail(inbox)),
           UNCHANGED <<answering, work, sdk, env>>
    PROVE  /\ TypeOK' /\ Numbered' /\ Planned' /\ Told' /\ PendingIsServed'
           /\ todo'["callback"] = p
           /\ (AtStep("answer", "whip")' <=> AtStep("answer", "whip"))
           /\ ConnOf("answer")' = ConnOf("answer")
           /\ \A c \in Calls : WillRelease(c) => WillRelease(c)'
<1>1. /\ todo' \in [Tasks -> Seq(Steps)] /\ todo'["callback"] = p
      /\ \A u \in Tasks \ {"callback"} : todo'[u] = todo[u]
  BY SessionFacts, NewPlan DEF Tasks
<1>2. inbox' \in Seq(Events) /\ Len(inbox') <= InboxCap
  BY InboxRest
<1>3. TypeOK'
  BY <1>1, <1>2 DEF SessionInv, TypeOK
<1>4. (AtStep("answer", "whip")' <=> AtStep("answer", "whip")) /\ ConnOf("answer")' = ConnOf("answer")
  BY <1>1, SamePlan DEF Tasks
<1>5. Numbered'
  BY <1>4 DEF SessionInv, Numbered
<1>6. Planned'
  BY <1>1 DEF SessionInv, Planned, Tasks
<1>7. Told'
  BY SameOnward, StillTold
<1>8. PendingIsServed'
  BY <1>1, Serving DEF Tasks
<1>9. \A c \in Calls : WillRelease(c) => WillRelease(c)'
  BY <1>1, KeptPromises DEF Tasks
<1>10. QED
  BY <1>1, <1>3, <1>4, <1>5, <1>6, <1>7, <1>8, <1>9

\* What a handler of events makes of session x for event e: y, with p to do.
Handled(x, e, y, p) ==
    /\ Solid(y) /\ p \in Seq(Steps)
    /\ y.pending => x.pending
    /\ \A i \in 2 .. Len(p) : p[i].do = "post"
    /\ p # <<>> =>
            /\ Head(p).do \in {"connected", "hung up", "stop", "release"}
            /\ Head(p).conn = e.conn
            /\ Head(p).do = "connected" => y.conn = e.conn
    /\ \/ y = x
       \/ Adopts(x, e) /\ y = [x EXCEPT !.conn = e.conn]
       \/ /\ x.conn = e.conn /\ y = Idle
          /\ p # <<>> /\ Head(p).do = "stop"
          /\ (e.kind = "disconnected" \/ Promises(p, e.conn))

LEMMA OutcomeIs == \A y, p : Outcome(y, p).session = y /\ Outcome(y, p).then = p
BY DEF Outcome

\* A plan of one step: its head and its end.
LEMMA OneIs ==
    ASSUME NEW x \in Steps
    PROVE  /\ <<x>> \in Seq(Steps) /\ <<x>> # <<>> /\ Head(<<x>>) = x
           /\ \A i \in 2 .. Len(<<x>>) : <<x>>[i].do = "post"
OBVIOUS

\* A plan of a step and a post.
LEMMA ThenPost ==
    ASSUME NEW x \in Steps, NEW y \in Steps, y.do = "post"
    PROVE  LET p == <<x>> \o <<y>> IN
           /\ p \in Seq(Steps) /\ p # <<>> /\ Head(p) = x
           /\ \A i \in 2 .. Len(p) : p[i].do = "post"
           /\ \A c : Releases(y, c) => Promises(p, c)
<1> DEFINE p == <<x>> \o <<y>>
<1>1. p \in Seq(Steps) /\ Len(p) = 2 /\ p[1] = x /\ p[2] = y
  BY JoinFacts, OneStep
<1> HIDE DEF p
<1>2. p # <<>> /\ Head(p) = x
  BY <1>1, TailFacts
<1>3. \A i \in 2 .. Len(p) : i = 2
  BY <1>1
<1>4. \A i \in 2 .. Len(p) : p[i].do = "post"
  BY <1>1, <1>3
<1>5. \A c : Releases(y, c) => Promises(p, c)
  BY <1>1 DEF Promises
<1>6. QED
  BY <1>1, <1>2, <1>4, <1>5 DEF p

\* The steps a handler leaves to do.
LEMMA HandlerSteps ==
    ASSUME NEW c \in Calls
    PROVE  /\ Connected(c) \in Steps /\ Connected(c).do = "connected" /\ Connected(c).conn = c
           /\ HungUp(c) \in Steps /\ HungUp(c).do = "hung up" /\ HungUp(c).conn = c
           /\ Stop(c) \in Steps /\ Stop(c).do = "stop" /\ Stop(c).conn = c
           /\ Start(c) \in Steps /\ Start(c).do = "start" /\ Start(c).conn = c
           /\ Release(c, FALSE) \in Steps /\ Release(c, FALSE).do = "release"
           /\ Release(c, FALSE).conn = c
           /\ \A only \in BOOLEAN : /\ Post(Disconnect(c, only)) \in Steps
                                    /\ Post(Disconnect(c, only)).do = "post"
           /\ Releases(Post(Disconnect(c, FALSE)), c)
BY MadeSteps, MadeItems DEF Connected, HungUp, Stop, Start, Release, Post, Releases

\* Nothing is left to do.
LEMMA HandledNone ==
    ASSUME NEW x, NEW e, NEW y, Solid(y), y.pending => x.pending,
           y = x \/ (Adopts(x, e) /\ y = [x EXCEPT !.conn = e.conn])
    PROVE  Handled(x, e, y, <<>>)
<1>1. <<>> \in Seq(Steps) /\ \A i \in 2 .. Len(<<>>) : <<>>[i].do = "post"
  BY NoStep
<1>2. QED
  BY <1>1 DEF Handled

\* One step is left to do.
LEMMA HandledOne ==
    ASSUME NEW x, NEW e, NEW y, Solid(y), y.pending => x.pending, NEW z \in Steps,
           z.do \in {"connected", "hung up", "stop", "release"}, z.conn = e.conn,
           z.do = "connected" => y.conn = e.conn,
           \/ y = x
           \/ Adopts(x, e) /\ y = [x EXCEPT !.conn = e.conn]
           \/ /\ x.conn = e.conn /\ y = Idle /\ z.do = "stop"
              /\ e.kind = "disconnected"
    PROVE  Handled(x, e, y, <<z>>)
<1> DEFINE p == <<z>>
<1>1. /\ p \in Seq(Steps) /\ p # <<>> /\ Head(p) = z
      /\ \A i \in 2 .. Len(p) : p[i].do = "post"
  BY OneIs
<1> HIDE DEF p
<1>2. Handled(x, e, y, p)
  BY <1>1 DEF Handled
<1>3. QED
  BY <1>2 DEF p

\* wechat_voip_session_on_command(), its first section
LEMMA OnCommandFine ==
    ASSUME NEW x, Solid(x), NEW e, e.conn \in Calls
    PROVE  LET o == OnCommand(x, e) IN Handled(x, e, o.session, o.then)
<1> DEFINE y == IF Adopts(x, e) THEN [x EXCEPT !.conn = e.conn] ELSE x
           p == IF y.conn # e.conn THEN <<>>
                ELSE IF e.kind = "connected" THEN <<Connected(e.conn)>> ELSE <<HungUp(e.conn)>>
<1>1. OnCommand(x, e) = Outcome(y, p)
  BY DEF OnCommand
<1>2. Solid(y) /\ (y.pending => x.pending)
  <2>1. CASE Adopts(x, e)
    <3>1. /\ y.conn = e.conn /\ y.state = x.state /\ y.call = x.call
          /\ y.pending = x.pending /\ y \in Session
      BY <2>1, CallNumbers DEF Solid, Session
    <3>2. x.state \in {"connecting", "awaiting"}
      BY <2>1 DEF Adopts
    <3> HIDE DEF y
    <3>3. QED
      BY <3>1, <3>2 DEF Solid
  <2>2. CASE ~Adopts(x, e)
    BY <2>2
  <2>3. QED
    BY <2>1, <2>2
<1>3. y = x \/ (Adopts(x, e) /\ y = [x EXCEPT !.conn = e.conn])
  OBVIOUS
<1> HIDE DEF y
<1>4. Handled(x, e, y, p)
  <2>1. CASE p = <<>>
    BY <1>2, <1>3, <2>1, HandledNone
  <2>2. CASE p = <<Connected(e.conn)>> /\ y.conn = e.conn
    BY <1>2, <1>3, <2>2, HandledOne, HandlerSteps
  <2>3. CASE p = <<HungUp(e.conn)>> /\ y.conn = e.conn
    BY <1>2, <1>3, <2>3, HandledOne, HandlerSteps
  <2>4. QED
    BY <2>1, <2>2, <2>3
<1> HIDE DEF p
<1>5. QED
  BY <1>1, <1>4, OutcomeIs

\* wechat_voip_session_on_conn_error()
LEMMA OnConnErrorFine ==
    ASSUME NEW x, Solid(x), NEW e, e.conn \in Calls
    PROVE  LET o == OnConnError(x, e.conn) IN Handled(x, e, o.session, o.then)
<1>1. CASE x.conn = e.conn
  <2> DEFINE p == <<Stop(e.conn)>> \o <<Post(Disconnect(e.conn, FALSE))>>
  <2>1. OnConnError(x, e.conn) = Outcome(Idle, p)
    BY <1>1 DEF OnConnError, Finished, DisconnectLater
  <2>2. /\ p \in Seq(Steps) /\ p # <<>> /\ Head(p) = Stop(e.conn)
        /\ \A i \in 2 .. Len(p) : p[i].do = "post"
        /\ Promises(p, e.conn)
    <3> DEFINE w == Post(Disconnect(e.conn, FALSE))
    <3>1. Stop(e.conn) \in Steps /\ w \in Steps /\ w.do = "post" /\ Releases(w, e.conn)
      BY HandlerSteps
    <3> HIDE DEF w
    <3>2. QED
      BY <3>1, ThenPost DEF w
  <2> HIDE DEF p
  <2>3. Handled(x, e, Idle, p)
    <3>1. Stop(e.conn).do = "stop" /\ Stop(e.conn).conn = e.conn
      BY HandlerSteps
    <3>2. QED
      BY <1>1, <2>2, <3>1, IdleFine DEF Handled
  <2>4. QED
    BY <2>1, <2>3, OutcomeIs
<1>2. CASE x.conn # e.conn
  <2>1. OnConnError(x, e.conn) = Outcome(x, <<Release(e.conn, FALSE)>>)
    BY <1>2 DEF OnConnError
  <2>2. Handled(x, e, x, <<Release(e.conn, FALSE)>>)
    BY HandlerSteps, HandledOne
  <2>3. QED
    BY <2>1, <2>2, OutcomeIs
<1>3. QED
  BY <1>1, <1>2

\* wechat_voip_session_on_disconnected()
LEMMA OnDisconnectedFine ==
    ASSUME NEW x, Solid(x), NEW e, e.conn \in Calls, e.kind = "disconnected"
    PROVE  LET o == OnDisconnected(x, e.conn) IN Handled(x, e, o.session, o.then)
<1>1. CASE x.conn = e.conn
  <2>1. OnDisconnected(x, e.conn) = Outcome(Idle, <<Stop(e.conn)>>)
    BY <1>1 DEF OnDisconnected, Finished
  <2>2. Handled(x, e, Idle, <<Stop(e.conn)>>)
    BY <1>1, HandlerSteps, HandledOne, IdleFine
  <2>3. QED
    BY <2>1, <2>2, OutcomeIs
<1>2. CASE x.conn # e.conn
  <2>1. OnDisconnected(x, e.conn) = Outcome(x, <<>>)
    BY <1>2 DEF OnDisconnected
  <2>2. Handled(x, e, x, <<>>)
    BY NoStep DEF Handled
  <2>3. QED
    BY <2>1, <2>2, OutcomeIs
<1>3. QED
  BY <1>1, <1>2

\* What is crossed stays so, and is remembered.
LEMMA Remembering ==
    ASSUME SessionInv, NEW b \in BOOLEAN, Remembers(b)
    PROVE  /\ past' \in Past /\ past'.unserved = past.unserved
           /\ past.crossed => past'.crossed
           /\ past'.crossed \/ (~past.crossed /\ ~b)
<1>1. past \in Past
  BY DEF SessionInv, TypeOK
<1>2. QED
  BY <1>1 DEF Past, Remembers

LEMMA CallbackKeeps ==
    ASSUME SessionInv, Callback PROVE SessionInv'
<1> DEFINE e == Head(inbox)
           o == CASE e.kind \in {"connected", "hangup"} -> OnCommand(s, e)
                  [] e.kind = "error"                   -> OnConnError(s, e.conn)
                  [] e.kind = "disconnected"            -> OnDisconnected(s, e.conn)
           p == o.then
<1>1. /\ e \in Events /\ e.conn \in Calls
      /\ Met(e.conn) /\ (e.kind = "disconnected" => sdk[e.conn] = "closed")
  <2>1. inbox \in Seq(Events) /\ inbox # <<>>
    BY DEF SessionInv, TypeOK, Callback
  <2>2. e = inbox[1] /\ 1 \in 1 .. Len(inbox) /\ e \in Events
    BY <2>1, TailFacts
  <2>3. QED
    BY <2>2 DEF SessionInv, Told, Events
<1>2. Handled(s, e, o.session, p)
  <2>1. e.kind \in {"connected", "hangup", "error", "disconnected"}
    BY <1>1 DEF Events, Signals
  <2>2. CASE e.kind \in {"connected", "hangup"}
    <3>1. o = OnCommand(s, e)
      BY <2>2
    <3> HIDE DEF e, o
    <3>2. QED
      BY <1>1, <3>1, SessionFacts, OnCommandFine
  <2>3. CASE e.kind = "error"
    <3>1. o = OnConnError(s, e.conn)
      BY <2>3
    <3> HIDE DEF e, o
    <3>2. QED
      BY <1>1, <3>1, SessionFacts, OnConnErrorFine
  <2>4. CASE e.kind = "disconnected"
    <3>1. o = OnDisconnected(s, e.conn)
      BY <2>4
    <3> HIDE DEF e, o
    <3>2. QED
      BY <1>1, <2>4, <3>1, SessionFacts, OnDisconnectedFine
  <2>5. QED
    BY <2>1, <2>2, <2>3, <2>4
<1>3. /\ s' = o.session /\ Idling("callback") /\ todo' = [todo EXCEPT !["callback"] = p]
      /\ inbox # <<>> /\ inbox' = Tail(inbox)
      /\ Remembers(Adopts(s, e) /\ Crosses(e.conn))
      /\ UNCHANGED <<answering, work, media, sdk, env>>
  <2>1. p \o <<>> = p
    <3> HIDE DEF o
    <3>1. QED
      BY <1>2, NothingJoined DEF Handled
  <2>2. s' = o.session /\ todo' = [todo EXCEPT !["callback"] = p \o <<>>]
    BY DEF Callback, Section
  <2>3. QED
    BY <2>1, <2>2 DEF Callback
<1> HIDE DEF e, o
<1>4. /\ past' \in Past /\ past'.unserved = past.unserved /\ (past.crossed => past'.crossed)
      /\ past'.crossed \/ ~past.crossed
      /\ past'.crossed \/ ~(Adopts(s, e) /\ Crosses(e.conn))
  <2>1. (Adopts(s, e) /\ Crosses(e.conn)) \in BOOLEAN
    OBVIOUS
  <2>2. QED
    BY <1>3, <2>1, Remembering
<1> HIDE DEF p
<1>5. /\ Solid(s') /\ p \in Seq(Steps) /\ (s'.pending => s.pending)
      /\ \A i \in 2 .. Len(p) : p[i].do = "post"
      /\ p # <<>> => /\ Head(p).do \in {"connected", "hung up", "stop", "release"}
                     /\ Head(p).conn = e.conn
                     /\ Head(p).do = "connected" => s'.conn = e.conn
      /\ \/ s' = s
         \/ Adopts(s, e) /\ s' = [s EXCEPT !.conn = e.conn]
         \/ /\ s.conn = e.conn /\ s' = Idle
            /\ p # <<>> /\ Head(p).do = "stop"
            /\ (e.kind = "disconnected" \/ Promises(p, e.conn))
  BY <1>2, <1>3 DEF Handled, p
<1>6. ASSUME Adopts(s, e), s' = [s EXCEPT !.conn = e.conn]
      PROVE  /\ s.conn = 0 /\ s'.conn = e.conn /\ s'.state = s.state /\ s'.call = s.call
             /\ s.state \in {"connecting", "awaiting"}
  BY <1>6, SessionFacts DEF Adopts, Session
<1>7. /\ TypeOK' /\ Numbered' /\ Planned' /\ Told' /\ PendingIsServed'
      /\ todo'["callback"] = p
      /\ (AtStep("answer", "whip")' <=> AtStep("answer", "whip"))
      /\ ConnOf("answer")' = ConnOf("answer")
      /\ \A c \in Calls : WillRelease(c) => WillRelease(c)'
  <2>1. ~AtStep("callback", "spawn") /\ ~AtStep("callback", "roll back")
    BY <1>3 DEF AtStep
  <2>2. \A c \in Calls : Promises(todo["callback"], c) => Promises(p, c)
    BY <1>3, NoStep DEF Idling
  <2>3. s' \in Session /\ media' \in Media
    BY <1>3, <1>5 DEF Solid, SessionInv, TypeOK
  <2>4. QED
    BY <1>3, <1>4, <1>5, <2>1, <2>2, <2>3, HandlerGoesOn
<1>8. Shaped'
  <2>1. CASE s' = Idle
    BY <1>3, <2>1, IdleShaped
  <2>2. CASE s' = s
    <3>1. Ebbs(s, s')
      BY <2>2 DEF Ebbs
    <3>2. QED
      BY <1>3, <1>4, <1>5, <1>7, <3>1, SameOnward, EbbShaped
  <2>3. CASE Adopts(s, e) /\ s' = [s EXCEPT !.conn = e.conn]
    <3>1. past'.crossed \/ s.call = e.conn
      BY <1>4, <1>6, <2>3 DEF Crosses
    <3>2. Met(s.conn)'
      BY <1>1, <1>3, <1>6, <2>3 DEF Met
    <3>3. s'.call <= env'.calls
      BY <1>3, <1>6, <2>3 DEF SessionInv, Shaped
    <3>4. QED
      BY <1>5, <1>6, <2>3, <3>1, <3>2, <3>3 DEF Shaped
  <2>4. QED
    BY <1>5, <2>1, <2>2, <2>3
<1>9. Heard'
  <2>1. ~AtStep("callback", "start")'
    BY <1>5, <1>7 DEF AtStep, Idling
  <2>2. AtStep("callback", "connected")' => s'.conn = ConnOf("callback")'
    BY <1>5, <1>7 DEF AtStep, Idling, ConnOf
  <2>3. QED
    BY <2>1, <2>2 DEF Heard
<1>10. Sounding'
  <2> SUFFICES ASSUME ~past'.crossed, media.conn # 0
               PROVE  \/ s'.conn = media.conn /\ s'.state \in Audible
                      \/ AtStep("callback", "stop")' /\ ConnOf("callback")' = media.conn
    BY <1>3 DEF Sounding
  <2>1. s.conn = media.conn /\ s.state \in Audible
    BY <1>3, <1>4 DEF SessionInv, Sounding, AtStep
  <2>2. CASE s' = s
    BY <2>1, <2>2
  <2>3. CASE Adopts(s, e) /\ s' = [s EXCEPT !.conn = e.conn]
    BY <1>6, <2>1, <2>3
  <2>4. CASE s.conn = e.conn /\ p # <<>> /\ Head(p).do = "stop"
    BY <1>5, <1>7, <2>1, <2>4 DEF AtStep, Idling, ConnOf
  <2>5. QED
    BY <1>5, <2>2, <2>3, <2>4
<1>11. NoConnectionLeft'
  <2>1. \A c \in Calls : sdk'[c] = "open" => sdk[c] = "open"
    BY <1>3
  <2>2. ASSUME NEW c \in Calls, sdk'[c] = "open", s.conn = c
        PROVE  s'.conn = c \/ WillRelease(c)'
    <3>1. CASE s' = s
      BY <2>2, <3>1
    <3>2. CASE Adopts(s, e) /\ s' = [s EXCEPT !.conn = e.conn]
      BY <1>6, <2>2, <3>2, CallNumbers
    <3>3. CASE s.conn = e.conn /\ (e.kind = "disconnected" \/ Promises(p, e.conn))
      <4>1. Promises(todo'["callback"], c)
        BY <1>1, <1>3, <1>7, <2>2, <3>3
      <4>2. QED
        BY <4>1 DEF WillRelease, Promises, Releases, Tasks
    <3>4. QED
      BY <1>5, <3>1, <3>2, <3>3
  <2>3. QED
    BY <1>4, <1>7, <2>1, <2>2, Releasing
<1>12. QED
  BY <1>7, <1>8, <1>9, <1>10, <1>11 DEF SessionInv

\* The callback task goes on with q before the posts that remain.
LEMMA BeforePosts ==
    ASSUME SessionInv, NEW what \in Sobering, AtStep("callback", what), NEW q, Sober(q),
           \A i \in 2 .. Len(q) : q[i].do = "post", q = <<>> \/ Len(q) = 1
    PROVE  LET p == q \o Rest("callback") IN
           /\ p \in Seq(Steps) /\ \A i \in 2 .. Len(p) : p[i].do = "post"
           /\ \A c \in Calls : Promises(todo["callback"], c) => Promises(p, c)
           /\ p # <<>> => Head(p) = Head(q) \/ Head(p).do = "post"
<1> DEFINE r == Rest("callback")
           p == q \o r
<1>1. ~Idling("callback") /\ \A c \in Calls : ~Releases(Head(todo["callback"]), c)
  BY SoberHead DEF AtStep
<1>2. r \in Seq(Steps) /\ \A i \in 1 .. Len(r) : r[i].do = "post"
  BY <1>1, RestPosts
<1>3. p \in Seq(Steps) /\ \A c \in Calls : Promises(todo["callback"], c) => Promises(p, c)
  BY <1>1, SessionFacts, GoesOn DEF Tasks
<1> HIDE DEF r
<1>4. CASE q = <<>>
  <2>1. p = r
    BY <1>2, <1>4, NothingJoined
  <2>2. r # <<>> => Head(r) = r[1] /\ 1 \in 1 .. Len(r)
    BY <1>2, TailFacts
  <2>3. \A i \in 2 .. Len(r) : r[i].do = "post"
    BY <1>2
  <2>4. QED
    BY <1>2, <1>3, <2>1, <2>2, <2>3 DEF r
<1>5. CASE Len(q) = 1
  <2>1. /\ Len(p) = 1 + Len(r) /\ p[1] = q[1] /\ Len(r) \in Nat
        /\ \A i \in 1 .. Len(r) : p[1 + i] = r[i]
    BY <1>2, <1>5, JoinFacts DEF Sober
  <2> HIDE DEF p
  <2>2. Head(p) = Head(q)
    BY <1>3, <1>5, <2>1 DEF Sober
  <2>3. ASSUME NEW i \in 2 .. Len(p) PROVE p[i].do = "post"
    <3>1. i - 1 \in 1 .. Len(r) /\ p[1 + (i - 1)] = r[i - 1] /\ 1 + (i - 1) = i
      BY <2>1
    <3>2. QED
      BY <1>2, <3>1
  <2>4. QED
    BY <1>3, <2>2, <2>3 DEF p, r
<1>6. QED
  BY <1>4, <1>5

LEMMA StartSteps ==
    ASSUME NEW c \in Calls
    PROVE  /\ Sober(<<Start(c)>>) /\ Sober(<<Post(Disconnect(c, TRUE))>>)
           /\ Head(<<Start(c)>>) = Start(c) /\ Len(<<Start(c)>>) = 1
           /\ LET q == <<Post(Disconnect(c, TRUE))>> IN Head(q).do = "post" /\ Len(q) = 1
<1>1. Start(c).do = "start" /\ Start(c) \in Steps
  BY HandlerSteps
<1>2. Start(c).do \in Sobering
  BY <1>1 DEF Sobering
<1>3. Sober(<<Start(c)>>)
  BY <1>1, <1>2, SoberHead, OneStep DEF Sober
<1>4. Post(Disconnect(c, TRUE)).do = "post" /\ Post(Disconnect(c, TRUE)) \in Steps
  BY HandlerSteps
<1>5. \A x \in Steps : Head(<<x>>) = x /\ Len(<<x>>) = 1
  OBVIOUS
<1>6. QED
  BY <1>1, <1>3, <1>4, <1>5, SoberSteps

LEMMA AfterConnectedKeeps ==
    ASSUME SessionInv, AfterConnected PROVE SessionInv'
<1> DEFINE c == ConnOf("callback")
           p == <<Start(c)>> \o Rest("callback")
           y == IF s.state \in {"awaiting", "connecting"}
                THEN [s EXCEPT !.state = "in_call", !.armed = FALSE] ELSE s
<1>1. /\ AtStep("callback", "connected") /\ s' = y /\ todo' = [todo EXCEPT !["callback"] = p]
      /\ UNCHANGED <<answering, work, media, inbox, sdk, env, past>>
  BY DEF AfterConnected, Section, CallConnected, Outcome
<1>2. c \in Calls
  BY <1>1, SessionFacts, TailFacts, StepFacts DEF AtStep, Idling, ConnOf, Tasks
<1>3. Heard /\ Sounding /\ Solid(s)
  BY DEF SessionInv, Shaped
<1>4. /\ y.conn = s.conn /\ y.call = s.call /\ y.pending = s.pending
      /\ y.state = IF s.state \in {"awaiting", "connecting"} THEN "in_call" ELSE s.state
      /\ Solid(y)
  BY <1>3 DEF Solid, Session, States
<1> HIDE DEF y
<1>5. Ebbs(s, y) /\ Holds(s, y)
  BY <1>4 DEF Ebbs, Holds, Audible
<1>6. /\ p \in Seq(Steps) /\ \A i \in 2 .. Len(p) : p[i].do = "post"
      /\ \A d \in Calls : Promises(todo["callback"], d) => Promises(p, d)
      /\ p # <<>> => Head(p) = Start(c) \/ Head(p).do = "post"
  <2>1. "connected" \in Sobering
    BY DEF Sobering
  <2> DEFINE q == <<Start(c)>>
  <2>2. Sober(q) /\ Len(q) = 1 /\ Head(q) = Start(c)
    BY <1>2, StartSteps
  <2> HIDE DEF c, q
  <2>3. \A i \in 2 .. Len(q) : q[i].do = "post"
    BY <2>2
  <2>4. QED
    BY <1>1, <2>1, <2>2, <2>3, BeforePosts DEF q
<1> HIDE DEF p
<1>7. /\ TypeOK' /\ Numbered' /\ Planned' /\ Told' /\ PendingIsServed'
      /\ todo'["callback"] = p
      /\ (AtStep("answer", "whip")' <=> AtStep("answer", "whip"))
      /\ ConnOf("answer")' = ConnOf("answer")
      /\ \A d \in Calls : WillRelease(d) => WillRelease(d)'
  <2>1. ~AtStep("callback", "spawn") /\ ~AtStep("callback", "roll back")
    BY <1>1, OneHead
  <2>2. s' \in Session /\ media' \in Media /\ (s'.pending => s.pending)
    BY <1>1, <1>4 DEF Solid, SessionInv, TypeOK
  <2>3. QED
    BY <1>1, <1>6, <2>1, <2>2, SamePast, HandlerGoesOn
<1>8. Shaped'
  BY <1>1, <1>4, <1>5, <1>7, SameOnward, SamePast, EbbShaped
<1>9. Heard' /\ Sounding'
  <2>1. past.crossed => past'.crossed
    BY <1>1, SamePast
  <2>2. Start(c).do = "start" /\ Start(c).conn = c
    BY DEF Start
  <2>3. ~AtStep("callback", "connected")' /\ (AtStep("callback", "start")' => ConnOf("callback")' = c)
    BY <1>6, <1>7, <2>2 DEF AtStep, Idling, ConnOf
  <2>4. past.crossed \/ (s.conn = c /\ y.state \in Audible)
    <3>1. past.crossed \/ s.conn = c
      BY <1>1, <1>3 DEF Heard
    <3>2. s.conn = c => y.state \in Audible
      BY <1>2, <1>3, <1>4, CallNumbers DEF Solid, Session, States, Idle, Audible
    <3>3. QED
      BY <3>1, <3>2
  <2>5. Heard'
    BY <1>1, <1>4, <2>1, <2>3, <2>4 DEF Heard
  <2>6. ~AtStep("callback", "stop")
    BY <1>1, OneHead
  <2>7. past.crossed \/ media.conn = 0 \/ (s.conn = media.conn /\ s.state \in Audible)
    BY <1>3, <2>6 DEF Sounding
  <2>8. past.crossed \/ media.conn = 0 \/ (y.conn = media.conn /\ y.state \in Audible)
    BY <1>4, <2>7 DEF Audible
  <2>9. Sounding'
    BY <1>1, <2>1, <2>8 DEF Sounding
  <2>10. QED
    BY <2>5, <2>9
<1>10. NoConnectionLeft'
  <2>1. \A d \in Calls : sdk'[d] = "open" => sdk[d] = "open"
    BY <1>1
  <2>2. QED
    BY <1>1, <1>4, <1>7, <2>1, SamePast, Releasing
<1>11. QED
  BY <1>7, <1>8, <1>9, <1>10 DEF SessionInv

LEMMA AfterHungUpKeeps ==
    ASSUME SessionInv, AfterHungUp PROVE SessionInv'
<1> DEFINE c == ConnOf("callback")
           p == <<Post(Disconnect(c, TRUE))>> \o Rest("callback")
           y == IF s.conn = c THEN BeginClose(s) ELSE Idle
<1>1. /\ AtStep("callback", "hung up") /\ s' = y /\ todo' = [todo EXCEPT !["callback"] = p]
      /\ Remembers(s.conn # c /\ s.state # "idle")
      /\ UNCHANGED <<answering, work, media, inbox, sdk, env>>
  BY DEF AfterHungUp, Section, PeerHungUp, Outcome, Finished, DisconnectLater
<1>2. c \in Calls
  BY <1>1, SessionFacts, TailFacts, StepFacts DEF AtStep, Idling, ConnOf, Tasks
<1>3. /\ past' \in Past /\ past'.unserved = past.unserved /\ (past.crossed => past'.crossed)
      /\ past'.crossed \/ ~past.crossed
      /\ past'.crossed \/ s.conn = c \/ s.state = "idle"
  <2>1. (s.conn # c /\ s.state # "idle") \in BOOLEAN
    OBVIOUS
  <2>2. QED
    BY <1>1, <2>1, Remembering
<1>4. /\ Solid(y) /\ ~y.pending
      /\ s.conn = c => Ebbs(s, y)
      /\ s.conn # c => y = Idle
  BY <1>2, SessionFacts, CallNumbers, CloseFine, IdleFine
<1>5. s.state = "idle" => s.conn = 0
  BY SessionFacts DEF Solid, Idle
<1> HIDE DEF y
<1>6. /\ p \in Seq(Steps) /\ \A i \in 2 .. Len(p) : p[i].do = "post"
      /\ \A d \in Calls : Promises(todo["callback"], d) => Promises(p, d)
      /\ p # <<>> => Head(p).do = "post"
  <2>1. "hung up" \in Sobering
    BY DEF Sobering
  <2> DEFINE q == <<Post(Disconnect(c, TRUE))>>
  <2>2. Sober(q) /\ Len(q) = 1 /\ Head(q).do = "post"
    BY <1>2, StartSteps
  <2> HIDE DEF c, q
  <2>3. \A i \in 2 .. Len(q) : q[i].do = "post"
    BY <2>2
  <2>4. QED
    BY <1>1, <2>1, <2>2, <2>3, BeforePosts DEF q
<1> HIDE DEF p
<1>7. /\ TypeOK' /\ Numbered' /\ Planned' /\ Told' /\ PendingIsServed'
      /\ todo'["callback"] = p
      /\ (AtStep("answer", "whip")' <=> AtStep("answer", "whip"))
      /\ ConnOf("answer")' = ConnOf("answer")
      /\ \A d \in Calls : WillRelease(d) => WillRelease(d)'
  <2>1. ~AtStep("callback", "spawn") /\ ~AtStep("callback", "roll back")
    BY <1>1, OneHead
  <2>2. s' \in Session /\ media' \in Media /\ (s'.pending => s.pending)
    BY <1>1, <1>4 DEF Solid, SessionInv, TypeOK
  <2>3. QED
    BY <1>1, <1>3, <1>6, <2>1, <2>2, HandlerGoesOn
<1>8. Shaped'
  <2>1. CASE s.conn = c
    BY <1>1, <1>3, <1>4, <1>7, <2>1, SameOnward, EbbShaped
  <2>2. CASE s.conn # c
    BY <1>1, <1>4, <2>2, IdleShaped
  <2>3. QED
    BY <2>1, <2>2
<1>9. Heard'
  BY <1>6, <1>7 DEF Heard, AtStep, Idling
<1>10. Sounding'
  <2>1. past.crossed \/ media.conn = 0 \/ (s.conn = media.conn /\ s.state \in Audible)
    <3>1. ~AtStep("callback", "stop")
      BY <1>1, OneHead
    <3>2. QED
      BY <3>1 DEF SessionInv, Sounding
  <2>2. s.conn = c => Holds(s, y)
    BY <1>4, EbbHolds
  <2>3. past'.crossed \/ media.conn = 0 \/ (y.conn = media.conn /\ y.state \in Audible)
    BY <1>2, <1>3, <1>5, <2>1, <2>2, CallNumbers DEF Holds
  <2>4. QED
    BY <1>1, <2>3 DEF Sounding
<1>11. NoConnectionLeft'
  <2>1. \A d \in Calls : sdk'[d] = "open" => sdk[d] = "open"
    BY <1>1
  <2>2. \A d \in Calls : s.conn = d => s'.conn = d \/ past'.crossed
    <3>1. s.conn = c => y.conn = c
      BY <1>2, <1>4, EbbHolds, CallNumbers DEF Holds
    <3>2. QED
      BY <1>1, <1>3, <1>5, <3>1, CallNumbers
  <2>3. QED
    BY <1>3, <1>7, <2>1, <2>2, Releasing
<1>12. QED
  BY <1>7, <1>8, <1>9, <1>10, <1>11 DEF SessionInv

\* wechat_voip_media_start()
LEMMA StartMediaKeeps ==
    ASSUME SessionInv, StartMedia PROVE SessionInv'
<1> DEFINE c == ConnOf("callback")
           p == <<>> \o Rest("callback")
<1>1. /\ AtStep("callback", "start")
      /\ \/ media' = IF media.task # "none" THEN [media EXCEPT !.conn = c]
                     ELSE [conn |-> c, task |-> "sending"]
         \/ media' = [conn |-> 0, task |-> "none"]
      /\ UNCHANGED <<s, answering, work, inbox, sdk, env, past>>
  BY DEF StartMedia
<1>2. c \in Calls
  BY <1>1, SessionFacts, TailFacts, StepFacts DEF AtStep, Idling, ConnOf, Tasks
<1>3. media' \in Media /\ (media'.conn = c \/ media'.conn = 0)
  <2>1. media \in Media
    BY DEF SessionInv, TypeOK
  <2>2. c \in CallOrNone /\ 0 \in CallOrNone
    BY <1>2, CallNumbers
  <2> HIDE DEF c
  <2>3. QED
    BY <1>1, <2>1, <2>2 DEF Media
<1>4. todo' = [todo EXCEPT !["callback"] = p]
  <2>1. Rest("callback") \in Seq(Steps)
    BY <1>1, RestPosts DEF AtStep
  <2>2. QED
    BY <2>1, NothingJoined DEF StartMedia, Carry
<1>5. /\ p \in Seq(Steps) /\ \A i \in 2 .. Len(p) : p[i].do = "post"
      /\ \A d \in Calls : Promises(todo["callback"], d) => Promises(p, d)
      /\ p # <<>> => Head(p).do = "post"
  <2>1. p = Rest("callback") /\ ~Idling("callback")
    BY <1>1, RestPosts, NothingJoined DEF AtStep
  <2>2. Sober(<<>>) /\ "start" \in Sobering
    BY SoberSteps DEF Sobering
  <2>3. \A i \in 2 .. Len(<<>>) : <<>>[i].do = "post"
    BY NoStep
  <2>4. /\ p \in Seq(Steps) /\ \A i \in 2 .. Len(p) : p[i].do = "post"
        /\ \A d \in Calls : Promises(todo["callback"], d) => Promises(p, d)
    BY <1>1, <2>2, <2>3, BeforePosts
  <2> HIDE DEF p
  <2>5. p # <<>> => 1 \in 1 .. Len(p) /\ Head(p) = p[1]
    BY <2>4, TailFacts
  <2>6. QED
    BY <2>1, <2>4, <2>5, RestPosts
<1> HIDE DEF p
<1>6. /\ TypeOK' /\ Numbered' /\ Planned' /\ Told' /\ PendingIsServed'
      /\ todo'["callback"] = p
      /\ (AtStep("answer", "whip")' <=> AtStep("answer", "whip"))
      /\ ConnOf("answer")' = ConnOf("answer")
      /\ \A d \in Calls : WillRelease(d) => WillRelease(d)'
  <2>1. ~AtStep("callback", "spawn") /\ ~AtStep("callback", "roll back")
    BY <1>1, OneHead
  <2>2. s' \in Session /\ (s'.pending => s.pending)
    BY <1>1, SessionFacts
  <2>3. QED
    BY <1>1, <1>3, <1>4, <1>5, <2>1, <2>2, SamePast, HandlerGoesOn
<1>7. Shaped'
  <2>1. Ebbs(s, s')
    BY <1>1 DEF Ebbs
  <2>2. QED
    BY <1>1, <1>6, <2>1, SessionFacts, SameOnward, SamePast, EbbShaped
<1>8. Heard'
  BY <1>5, <1>6 DEF Heard, AtStep, Idling
<1>9. Sounding'
  <2>1. past.crossed \/ (s.conn = c /\ s.state \in Audible)
    BY <1>1 DEF SessionInv, Heard
  <2>2. past.crossed => past'.crossed
    BY <1>1, SamePast
  <2>3. QED
    BY <1>1, <1>3, <2>1, <2>2 DEF Sounding
<1>10. NoConnectionLeft'
  <2>1. \A d \in Calls : sdk'[d] = "open" => sdk[d] = "open"
    BY <1>1
  <2>2. QED
    BY <1>1, <1>6, <2>1, SamePast, Releasing
<1>11. QED
  BY <1>6, <1>7, <1>8, <1>9, <1>10 DEF SessionInv

------------------------------------------------------------------------------
(* What every task does: to post, to stop the media, to release             *)

LEMMA HeadOfTwo ==
    ASSUME NEW x \in Steps, NEW y \in Steps
    PROVE  Head(<<x>> \o <<y>>) = x
<1> DEFINE p == <<x>> \o <<y>>
<1>1. p \in Seq(Steps) /\ Len(p) = 2 /\ p[1] = x
  BY JoinFacts, OneStep
<1> HIDE DEF p
<1>2. Head(p) = x
  BY <1>1, TailFacts
<1>3. QED
  BY <1>2 DEF p

\* Task t goes on with p, and its plan is still one of its plans.
LEMMA TaskGoesOn ==
    ASSUME SessionInv, NEW t \in Tasks, NEW p \in Seq(Steps), ~Idling(t) \/ t = "work",
           ~AtStep(t, "spawn"), ~AtStep(t, "roll back"),
           todo' = [todo EXCEPT ![t] = p],
           t = "answer" => p = <<Just("answered")>>
                             \/ \E x \in Steps : p = <<x>> \o <<Just("answered")>>
                                                  /\ x.do \notin {"answered", "whip"},
           t = "callback" =>
                /\ \A i \in 2 .. Len(p) : p[i].do = "post"
                /\ p # <<>> => Head(p).do \in {"post", "stop"}
                /\ AtStep("callback", "stop") => media'.conn # ConnOf("callback"),
           t = "work" => \A i \in 1 .. Len(p) : p[i].do = "quiet" => Len(p) = 1,
           t = "boot" => Sober(p),
           work' \in Seq(Items), Len(work') <= WorkCap,
           media' \in Media, media'.conn \in {media.conn, 0},
           sdk' \in [Calls -> Links], Onward,
           past' \in Past, past.crossed => past'.crossed,
           UNCHANGED <<s, answering, inbox, env>>
    PROVE  /\ TypeOK' /\ Shaped' /\ Numbered' /\ Planned' /\ Told' /\ Heard' /\ Sounding'
           /\ PendingIsServed'
           /\ todo'[t] = p /\ \A u \in Tasks \ {t} : todo'[u] = todo[u]
<1>1. /\ todo' \in [Tasks -> Seq(Steps)] /\ todo'[t] = p
      /\ \A u \in Tasks \ {t} : todo'[u] = todo[u]
  BY SessionFacts, NewPlan
<1>2. TypeOK'
  BY <1>1 DEF SessionInv, TypeOK
<1>3. /\ AtStep("answer", "whip")' => AtStep("answer", "whip")
      /\ AtStep("answer", "whip")' => ConnOf("answer")' = ConnOf("answer")
  <2>1. CASE t = "answer"
    <3>1. ~AtStep("answer", "whip")'
      <4>1. CASE p = <<Just("answered")>>
        <5>1. Just("answered") \in Steps /\ Just("answered").do # "whip"
          BY MadeSteps DEF Just
        <5>2. Head(p) = Just("answered")
          BY <4>1, <5>1, OneIs
        <5>3. QED
          BY <1>1, <2>1, <5>1, <5>2 DEF AtStep
      <4>2. ASSUME NEW x \in Steps, p = <<x>> \o <<Just("answered")>>, x.do # "whip"
            PROVE  ~AtStep("answer", "whip")'
        <5>1. Head(p) = x
          <6>1. Just("answered") \in Steps
            BY MadeSteps
          <6>2. QED
            BY <4>2, <6>1, HeadOfTwo
        <5>2. QED
          BY <1>1, <2>1, <4>2, <5>1 DEF AtStep
      <4>3. QED
        BY <2>1, <4>1, <4>2
    <3>2. QED
      BY <3>1
  <2>2. CASE t # "answer"
    BY <1>1, <2>2, SamePlan DEF Tasks
  <2>3. QED
    BY <2>1, <2>2
<1>4. Shaped' /\ Numbered'
  <2>1. Ebbs(s, s') /\ Solid(s') /\ env'.calls = env.calls
    BY SessionFacts DEF Ebbs
  <2>2. QED
    BY <1>3, <2>1, EbbShaped
<1>5. Planned'
  <2>1. \/ todo'["answer"] = <<>>
        \/ /\ answering' # 0
           /\ \/ todo'["answer"] = <<Just("answered")>>
              \/ /\ todo'["answer"] = <<Head(todo'["answer"]), Just("answered")>>
                 /\ Head(todo'["answer"]).do # "answered"
    <3>1. CASE t = "answer"
      <4>1. todo["answer"] # <<>>
        BY <3>1 DEF Idling
      <4>2. answering # 0
        BY <4>1 DEF SessionInv, Planned
      <4>3. CASE p = <<Just("answered")>>
        BY <1>1, <3>1, <4>2, <4>3
      <4>4. ASSUME NEW x \in Steps, p = <<x>> \o <<Just("answered")>>, x.do # "answered"
            PROVE  p = <<Head(p), Just("answered")>> /\ Head(p).do # "answered"
        <5>1. Just("answered") \in Steps
          BY MadeSteps
        <5>2. p = <<x, Just("answered")>> /\ Head(p) = x
          BY <4>4, <5>1, TwoSteps, HeadOfTwo
        <5>3. QED
          BY <4>4, <5>2
      <4>5. QED
        BY <1>1, <3>1, <4>2, <4>3, <4>4
    <3>2. CASE t # "answer"
      BY <1>1, <3>2 DEF SessionInv, Planned, Tasks
    <3>3. QED
      BY <3>1, <3>2
  <2>2. \A i \in 2 .. Len(todo'["callback"]) : todo'["callback"][i].do = "post"
    BY <1>1 DEF SessionInv, Planned, Tasks
  <2>3. \A i \in 1 .. Len(todo'["work"]) :
            todo'["work"][i].do = "quiet" => Len(todo'["work"]) = 1
    BY <1>1 DEF SessionInv, Planned, Tasks
  <2>4. \A c \in Calls : ~Promises(todo'["boot"], c)
    BY <1>1 DEF SessionInv, Planned, Sober, Tasks
  <2>5. QED
    BY <2>1, <2>2, <2>3, <2>4 DEF Planned
<1>6. Told'
  BY StillTold
<1>7. Heard'
  <2>1. CASE t = "callback"
    BY <1>1, <2>1 DEF Heard, AtStep, Idling
  <2>2. CASE t # "callback"
    <3>1. \A what : (AtStep("callback", what)' <=> AtStep("callback", what))
      BY <1>1, <2>2, SamePlan DEF Tasks
    <3>2. ConnOf("callback")' = ConnOf("callback")
      BY <1>1, <2>2, SamePlan DEF Tasks
    <3>3. QED
      BY <3>1, <3>2 DEF SessionInv, Heard
  <2>3. QED
    BY <2>1, <2>2
<1>8. Sounding'
  <2>1. Sounding
    BY DEF SessionInv
  <2>2. CASE t = "callback" \/ media'.conn = 0
    BY <2>1, <2>2 DEF Sounding
  <2>3. CASE t # "callback" /\ media'.conn = media.conn
    <3>1. AtStep("callback", "stop")' <=> AtStep("callback", "stop")
      BY <1>1, <2>3, SamePlan DEF Tasks
    <3>2. ConnOf("callback")' = ConnOf("callback")
      BY <1>1, <2>3, SamePlan DEF Tasks
    <3>3. QED
      BY <2>1, <2>3, <3>1, <3>2 DEF Sounding
  <2>4. QED
    BY <2>2, <2>3
<1>9. PendingIsServed'
  BY <1>1, Serving
<1>10. QED
  BY <1>1, <1>2, <1>4, <1>5, <1>6, <1>7, <1>8, <1>9

\* The rest of a task's plan, behind a step that does not end it: alone, or with
\* the media to be stopped first.
LEMMA RestIsPlan ==
    ASSUME SessionInv, NEW t \in Tasks, ~Idling(t), Head(todo[t]).do # "answered",
           NEW p, p = Rest(t) \/ \E c \in Calls : p = <<Stop(c)>> \o Rest(t)
    PROVE  /\ p \in Seq(Steps)
           /\ t = "answer" => p = <<Just("answered")>>
                             \/ \E x \in Steps : p = <<x>> \o <<Just("answered")>>
                                                  /\ x.do \notin {"answered", "whip"}
           /\ t = "callback" =>
                /\ \A i \in 2 .. Len(p) : p[i].do = "post"
                /\ p # <<>> => Head(p).do \in {"post", "stop"}
           /\ t = "work" => \A i \in 1 .. Len(p) : p[i].do = "quiet" => Len(p) = 1
           /\ t = "boot" => Sober(p)
           /\ \A c \in Calls : Promises(p, c) <=> Promises(Rest(t), c)
<1> DEFINE r == Rest(t)
<1>1. todo[t] \in Seq(Steps) /\ todo[t] # <<>> /\ r = Tail(todo[t])
  BY SessionFacts DEF Idling, Rest
<1>2. /\ r \in Seq(Steps) /\ Len(r) \in Nat /\ Len(r) = Len(todo[t]) - 1
      /\ \A i \in 1 .. Len(r) : r[i] = todo[t][i + 1]
      /\ Len(todo[t]) \in Nat
  BY <1>1, TailFacts
<1>3. r # <<>> => Head(r) = r[1] /\ 1 \in 1 .. Len(r)
  BY <1>2, TailFacts
<1>4. t = "answer" => r = <<Just("answered")>>
  BY AnswerRest DEF AtStep
<1>5. t = "callback" => \A i \in 1 .. Len(r) : r[i].do = "post"
  BY RestPosts
<1>6. t = "work" => \A i \in 1 .. Len(r) : r[i].do # "quiet"
  <2> SUFFICES ASSUME t = "work", NEW i \in 1 .. Len(r), r[i].do = "quiet" PROVE FALSE
    OBVIOUS
  <2>1. i + 1 \in 1 .. Len(todo["work"]) /\ todo["work"][i + 1].do = "quiet"
    BY <1>2
  <2>2. Len(todo["work"]) = 1
    BY <2>1 DEF SessionInv, Planned
  <2>3. QED
    BY <1>2, <2>2
<1>7. t = "boot" => Sober(r)
  BY <1>1, <1>2, RestPromises, SessionFacts DEF Sober
<1> HIDE DEF r
<1>8. CASE p = r
  <2>1. t = "callback" => \A i \in 2 .. Len(p) : p[i].do = "post"
    BY <1>2, <1>5, <1>8
  <2>2. t = "callback" => (p # <<>> => Head(p).do \in {"post", "stop"})
    BY <1>3, <1>5, <1>8
  <2>3. QED
    BY <1>2, <1>4, <1>6, <1>7, <1>8, <2>1, <2>2 DEF r
<1>9. ASSUME NEW c \in Calls, p = <<Stop(c)>> \o r
      PROVE  /\ p \in Seq(Steps)
             /\ t = "answer" => \E x \in Steps : p = <<x>> \o <<Just("answered")>>
                                                  /\ x.do \notin {"answered", "whip"}
             /\ t = "callback" =>
                  /\ \A i \in 2 .. Len(p) : p[i].do = "post"
                  /\ p # <<>> => Head(p).do \in {"post", "stop"}
             /\ t = "work" => \A i \in 1 .. Len(p) : p[i].do = "quiet" => Len(p) = 1
             /\ t = "boot" => Sober(p)
             /\ \A d \in Calls : Promises(p, d) <=> Promises(r, d)
  <2> DEFINE x == Stop(c)
  <2>1. x \in Steps /\ x.do = "stop" /\ Sober(<<x>>)
    BY HandlerSteps, SoberSteps
  <2> HIDE DEF x
  <2>2. /\ p \in Seq(Steps) /\ Len(p) = 1 + Len(r) /\ p[1] = x
        /\ \A i \in 1 .. Len(r) : p[1 + i] = r[i]
    BY <1>2, <1>9, <2>1, OneStep, JoinFacts DEF x
  <2>3. Head(p) = x
    BY <1>2, <2>2, TailFacts
  <2>4. \A i \in 1 .. Len(p) : i = 1 \/ (i - 1 \in 1 .. Len(r) /\ p[i] = r[i - 1])
    <3>1. ASSUME NEW i \in 1 .. Len(p), i # 1
          PROVE  i - 1 \in 1 .. Len(r) /\ p[1 + (i - 1)] = r[i - 1] /\ 1 + (i - 1) = i
      BY <1>2, <2>2, <3>1
    <3>2. QED
      BY <3>1
  <2>5. t = "callback" => \A i \in 2 .. Len(p) : p[i].do = "post"
    BY <1>5, <2>4
  <2>6. t = "work" => \A i \in 1 .. Len(p) : p[i].do # "quiet"
    BY <1>6, <2>1, <2>2, <2>4
  <2>7. t = "boot" => Sober(p)
    BY <1>7, <1>9, <2>1, JoinSober DEF x
  <2>8. \A d \in Calls : Promises(p, d) <=> Promises(r, d)
    BY <1>2, <1>9, <2>1, JoinPromises DEF Sober, x
  <2>9. t = "answer" => p = <<x>> \o <<Just("answered")>>
    BY <1>4, <1>9 DEF x
  <2>10. QED
    BY <2>1, <2>2, <2>3, <2>5, <2>6, <2>7, <2>8, <2>9
<1>10. QED
  BY <1>8, <1>9 DEF r

\* wechat_voip_media_stop()
LEMMA StopMediaKeeps ==
    ASSUME SessionInv, NEW t \in Tasks, StopMedia(t) PROVE SessionInv'
<1> DEFINE p == Rest(t)
<1>1. /\ AtStep(t, "stop") /\ todo' = [todo EXCEPT ![t] = p]
      /\ media' = IF media.conn = ConnOf(t) THEN [media EXCEPT !.conn = 0] ELSE media
      /\ UNCHANGED <<s, answering, work, inbox, sdk, env, past>>
  BY DEF StopMedia, Carry
<1>2. ConnOf(t) \in Calls
  BY <1>1, SessionFacts, TailFacts, StepFacts DEF AtStep, Idling, ConnOf
<1>3. /\ media' \in Media /\ media'.conn \in {media.conn, 0} /\ media'.conn # ConnOf(t)
  BY <1>1, <1>2, CallNumbers DEF SessionInv, TypeOK, Media
<1>4. ~Idling(t) /\ Head(todo[t]).do # "answered" /\ ~AtStep(t, "spawn") /\ ~AtStep(t, "roll back")
  BY <1>1, OneHead DEF AtStep
<1>5. /\ p \in Seq(Steps)
      /\ t = "answer" => p = <<Just("answered")>>
                        \/ \E x \in Steps : p = <<x>> \o <<Just("answered")>>
                                             /\ x.do \notin {"answered", "whip"}
      /\ t = "callback" =>
           /\ \A i \in 2 .. Len(p) : p[i].do = "post"
           /\ p # <<>> => Head(p).do \in {"post", "stop"}
      /\ t = "work" => \A i \in 1 .. Len(p) : p[i].do = "quiet" => Len(p) = 1
      /\ t = "boot" => Sober(p)
  BY <1>4, RestIsPlan
<1>6. \A c \in Calls : Promises(todo[t], c) => Promises(p, c)
  <2>1. Head(todo[t]).do \in Sobering
    BY <1>1 DEF AtStep, Sobering
  <2>2. \A c \in Calls : ~Releases(Head(todo[t]), c)
    BY <2>1, SoberHead
  <2>3. QED
    BY <1>4, <2>2, SessionFacts, RestPromises DEF Idling, Rest
<1> HIDE DEF p
<1>7. work' \in Seq(Items) /\ Len(work') <= WorkCap
  BY <1>1 DEF SessionInv, TypeOK
<1>8. /\ TypeOK' /\ Shaped' /\ Numbered' /\ Planned' /\ Told' /\ Heard' /\ Sounding'
      /\ PendingIsServed'
      /\ todo'[t] = p /\ \A u \in Tasks \ {t} : todo'[u] = todo[u]
  BY <1>1, <1>3, <1>4, <1>5, <1>7, SamePast, SameSdk, SameOnward, TaskGoesOn
<1>9. NoConnectionLeft'
  <2>1. \A c \in Calls : WillRelease(c) => WillRelease(c)'
    BY <1>1, <1>6, <1>8, KeptPromises
  <2>2. QED
    BY <1>1, <2>1, SamePast, Releasing
<1>10. QED
  BY <1>8, <1>9 DEF SessionInv

\* What enqueue_work() does with item.
LEMMA AppendFacts ==
    ASSUME SessionInv, NEW x \in Items, Len(work) < WorkCap, work' = Append(work, x)
    PROVE  /\ work' \in Seq(Items) /\ Len(work') <= WorkCap
           /\ \A c : \/ \E i \in 1 .. Len(work) : work[i] = Disconnect(c, FALSE)
                     \/ x = Disconnect(c, FALSE)
                     => \E i \in 1 .. Len(work') : work'[i] = Disconnect(c, FALSE)
<1>1. work \in Seq(Items) /\ Len(work) \in Nat
  BY DEF SessionInv, TypeOK
<1>2. /\ work' \in Seq(Items) /\ Len(work') = Len(work) + 1
      /\ work'[Len(work) + 1] = x
      /\ \A i \in 1 .. Len(work) : work'[i] = work[i]
  BY <1>1
<1>3. WorkCap \in Nat
  BY SessionAssumption
<1>4. Len(work') <= WorkCap
  BY <1>1, <1>2, <1>3
<1>5. ASSUME NEW c, NEW i \in 1 .. Len(work), work[i] = Disconnect(c, FALSE)
      PROVE  \E j \in 1 .. Len(work') : work'[j] = Disconnect(c, FALSE)
  <2>1. i \in 1 .. Len(work')
    BY <1>1, <1>2
  <2>2. QED
    BY <1>2, <1>5, <2>1
<1>6. ASSUME NEW c, x = Disconnect(c, FALSE)
      PROVE  \E j \in 1 .. Len(work') : work'[j] = Disconnect(c, FALSE)
  <2>1. Len(work) + 1 \in 1 .. Len(work')
    BY <1>1, <1>2
  <2>2. QED
    BY <1>2, <1>6, <2>1
<1>7. QED
  BY <1>2, <1>4, <1>5, <1>6

LEMMA EnqueueKeeps ==
    ASSUME SessionInv, NEW t \in Tasks, Enqueue(t) PROVE SessionInv'
<1> DEFINE h == Head(todo[t])
           x == h.item
           full == Len(work) >= WorkCap
           stop == full /\ AtStep(t, "post or stop")
           p == IF stop THEN <<Stop(x.conn)>> \o Rest(t) ELSE Rest(t)
<1>1. /\ ~Idling(t) /\ h.do \in {"post", "post or stop"} /\ todo' = [todo EXCEPT ![t] = p]
      /\ work' = IF full THEN work ELSE Append(work, x)
      /\ past' = IF full /\ x.type = "disconnect"
                 THEN [past EXCEPT !.unserved = @ \cup {x.conn}] ELSE past
      /\ UNCHANGED <<s, answering, media, inbox, sdk, env>>
  BY DEF Enqueue
<1>1a. ~full => Len(work) < WorkCap /\ work' = Append(work, x)
  <2>1. Len(work) \in Nat /\ WorkCap \in Nat
    BY SessionAssumption DEF SessionInv, TypeOK
  <2>2. ~full => Len(work) < WorkCap
    BY <2>1
  <2>3. ~full => work' = Append(work, x)
    BY <1>1
  <2>4. QED
    BY <2>2, <2>3
<1>2. h \in Steps /\ todo[t] \in Seq(Steps) /\ todo[t] # <<>>
  BY <1>1, SessionFacts, TailFacts DEF Idling
<1>3. /\ x \in Items
      /\ h.do = "post or stop" => x.type = "hangup" /\ x.conn \in Calls
  BY <1>1, <1>2, StepFacts
<1>4. /\ h.do # "answered" /\ ~AtStep(t, "spawn") /\ ~AtStep(t, "roll back")
      /\ ~AtStep(t, "stop")
  BY <1>1 DEF AtStep
<1>5. p = Rest(t) \/ \E c \in Calls : p = <<Stop(c)>> \o Rest(t)
  BY <1>3 DEF AtStep
<1> HIDE DEF h, p
<1>6. /\ p \in Seq(Steps)
      /\ t = "answer" => p = <<Just("answered")>>
                        \/ \E y \in Steps : p = <<y>> \o <<Just("answered")>>
                                             /\ y.do \notin {"answered", "whip"}
      /\ t = "callback" =>
           /\ \A i \in 2 .. Len(p) : p[i].do = "post"
           /\ p # <<>> => Head(p).do \in {"post", "stop"}
      /\ t = "work" => \A i \in 1 .. Len(p) : p[i].do = "quiet" => Len(p) = 1
      /\ t = "boot" => Sober(p)
      /\ \A c \in Calls : Promises(p, c) <=> Promises(Rest(t), c)
  <2>1. Head(todo[t]).do # "answered"
    BY <1>4 DEF h
  <2>2. QED
    BY <1>1, <1>5, <2>1, RestIsPlan
<1>7. work' \in Seq(Items) /\ Len(work') <= WorkCap
  <2>1. CASE full
    BY <1>1, <2>1 DEF SessionInv, TypeOK
  <2>2. CASE ~full
    BY <1>3, <1>1a, <2>2, AppendFacts
  <2>3. QED
    BY <2>1, <2>2
<1>8. /\ past' \in Past /\ past.unserved \subseteq past'.unserved
      /\ past.crossed => past'.crossed
  <2>1. past \in Past
    BY DEF SessionInv, TypeOK
  <2>2. CASE full /\ x.type = "disconnect"
    <3>1. x.conn \in Calls /\ past' = [past EXCEPT !.unserved = @ \cup {x.conn}]
      BY <1>1, <1>3, <2>2, ItemFacts
    <3>2. QED
      BY <2>1, <3>1 DEF Past
  <2>3. CASE ~(full /\ x.type = "disconnect")
    <3>1. past' = past
      BY <1>1, <2>3
    <3>2. QED
      BY <3>1, SamePast
  <2>4. QED
    BY <2>2, <2>3
<1>9. /\ TypeOK' /\ Shaped' /\ Numbered' /\ Planned' /\ Told' /\ Heard' /\ Sounding'
      /\ PendingIsServed'
      /\ todo'[t] = p /\ \A u \in Tasks \ {t} : todo'[u] = todo[u]
  <2>1. media' \in Media /\ media'.conn \in {media.conn, 0}
    BY <1>1 DEF SessionInv, TypeOK
  <2>2. QED
    BY <1>1, <1>4, <1>6, <1>7, <1>8, <2>1, SameSdk, SameOnward, TaskGoesOn
<1>10. NoConnectionLeft'
  <2>1. ASSUME NEW c \in Calls, WillRelease(c), c \notin past'.unserved
        PROVE  WillRelease(c)'
    <3>1. ASSUME NEW i \in 1 .. Len(work), work[i] = Disconnect(c, FALSE)
          PROVE  \E j \in 1 .. Len(work') : work'[j] = Disconnect(c, FALSE)
      <4>1. CASE full
        BY <1>1, <3>1, <4>1
      <4>2. CASE ~full
        BY <1>3, <1>1a, <3>1, <4>2, AppendFacts
      <4>3. QED
        BY <4>1, <4>2
    <3>2. ASSUME Releases(h, c)
          PROVE  \E j \in 1 .. Len(work') : work'[j] = Disconnect(c, FALSE)
      <4>1. h = Post(Disconnect(c, FALSE))
        <5>1. Quiet(c, FALSE).do = "quiet" /\ Release(c, FALSE).do = "release"
          BY DEF Quiet, Release
        <5>2. QED
          BY <1>1, <3>2, <5>1 DEF Releases
      <4>2. x = Disconnect(c, FALSE)
        BY <4>1 DEF Post
      <4>3. x.type = "disconnect" /\ x.conn = c
        BY <4>2 DEF Disconnect
      <4>4. ~full
        <5> SUFFICES ASSUME full PROVE FALSE
          OBVIOUS
        <5>1. past' = [past EXCEPT !.unserved = @ \cup {c}] /\ past \in Past
          BY <1>1, <4>3 DEF SessionInv, TypeOK
        <5>2. c \in past'.unserved
          BY <5>1 DEF Past
        <5>3. QED
          BY <2>1, <5>2
      <4>5. QED
        BY <1>3, <1>1a, <4>2, <4>4, AppendFacts
    <3>3. ASSUME NEW u \in Tasks, Promises(todo[u], c)
          PROVE  Releases(h, c) \/ \E v \in Tasks : Promises(todo'[v], c)
      <4>1. CASE u = t
        <5>1. Releases(h, c) \/ Promises(Rest(t), c)
          BY <1>2, <3>3, <4>1, RestPromises DEF h, Rest
        <5>2. QED
          BY <1>6, <1>9, <5>1
      <4>2. CASE u # t
        BY <1>9, <3>3, <4>2
      <4>3. QED
        BY <4>1, <4>2
    <3>4. \/ \E i \in 1 .. Len(work) : work[i] = Disconnect(c, FALSE)
          \/ \E u \in Tasks : Promises(todo[u], c)
      BY <2>1, WillReleaseIs
    <3>5. \/ \E j \in 1 .. Len(work') : work'[j] = Disconnect(c, FALSE)
          \/ \E v \in Tasks : Promises(todo'[v], c)
      BY <3>1, <3>2, <3>3, <3>4
    <3>6. QED
      BY <3>5 DEF WillRelease, Promises, Releases
  <2>2. QED
    BY <1>1, <1>8, <2>1, Releasing
<1>11. QED
  BY <1>9, <1>10 DEF SessionInv

------------------------------------------------------------------------------
(* The work task and the media task                                        *)

\* The work task goes on with p, and nothing promised is lost.
LEMMA WorkGoesOn ==
    ASSUME SessionInv, NEW p \in Seq(Steps), todo' = [todo EXCEPT !["work"] = p],
           ~AtStep("work", "spawn"), ~AtStep("work", "roll back"),
           \A i \in 1 .. Len(p) : p[i].do = "quiet" => Len(p) = 1,
           work' \in Seq(Items), Len(work') <= WorkCap,
           \A c \in Calls : WillRelease(c) => Promises(p, c)
                \/ (\E i \in 1 .. Len(work') : work'[i] = Disconnect(c, FALSE))
                \/ (\E u \in Tasks \ {"work"} : Promises(todo[u], c)),
           UNCHANGED <<s, answering, media, inbox, sdk, env, past>>
    PROVE  SessionInv'
<1>1. /\ TypeOK' /\ Shaped' /\ Numbered' /\ Planned' /\ Told' /\ Heard' /\ Sounding'
      /\ PendingIsServed'
      /\ todo'["work"] = p /\ \A u \in Tasks \ {"work"} : todo'[u] = todo[u]
  <2>1. /\ media' \in Media /\ media'.conn \in {media.conn, 0}
        /\ "work" \in Tasks
    BY DEF SessionInv, TypeOK, Tasks
  <2>2. QED
    BY <2>1, SamePast, SameSdk, SameOnward, TaskGoesOn
<1>2. ASSUME NEW c \in Calls, WillRelease(c) PROVE WillRelease(c)'
  <2>1. \/ Promises(todo'["work"], c)
        \/ \E i \in 1 .. Len(work') : work'[i] = Disconnect(c, FALSE)
        \/ \E u \in Tasks : Promises(todo'[u], c)
    BY <1>1, <1>2
  <2>2. QED
    BY <2>1 DEF WillRelease, Promises, Releases, Tasks
<1>3. NoConnectionLeft'
  BY <1>2, SamePast, Releasing
<1>4. QED
  BY <1>1, <1>3 DEF SessionInv

LEMMA PairFacts ==
    ASSUME NEW x \in Steps, NEW y \in Steps
    PROVE  /\ <<x, y>> \in Seq(Steps) /\ Len(<<x, y>>) = 2
           /\ <<x, y>>[1] = x /\ <<x, y>>[2] = y
OBVIOUS

\* voip_work_task() takes the next item: what it has to do for it.
WorkPlan(item) ==
    CASE item.type = "hangup"     -> <<Tell(item.conn), Release(item.conn, TRUE)>>
      [] item.type = "disconnect" -> <<Quiet(item.conn, item.only)>>
      [] item.type = "reject"     -> <<>>

LEMMA WorkPlanFine ==
    ASSUME NEW x \in Items
    PROVE  LET p == WorkPlan(x) IN
           /\ p \in Seq(Steps)
           /\ \A i \in 1 .. Len(p) : p[i].do = "quiet" => Len(p) = 1
           /\ \A c \in Calls : x = Disconnect(c, FALSE) => Promises(p, c)
<1>1. /\ x.type \in {"disconnect", "hangup", "reject"}
      /\ x.type \in {"disconnect", "hangup"} => x.conn \in Calls
      /\ x.type = "disconnect" => x.only \in BOOLEAN
  BY ItemFacts
<1>2. \A c \in Calls : x = Disconnect(c, FALSE) =>
            x.type = "disconnect" /\ x.conn = c /\ x.only = FALSE
  BY DEF Disconnect
<1>3. CASE x.type = "hangup"
  <2> DEFINE p == <<Tell(x.conn), Release(x.conn, TRUE)>>
  <2>1. /\ Tell(x.conn) \in Steps /\ Tell(x.conn).do = "tell"
        /\ Release(x.conn, TRUE) \in Steps /\ Release(x.conn, TRUE).do = "release"
    BY <1>1, <1>3, MadeSteps DEF Tell, Release
  <2>2. /\ p \in Seq(Steps) /\ Len(p) = 2
        /\ p[1] = Tell(x.conn) /\ p[2] = Release(x.conn, TRUE)
    BY <2>1, PairFacts
  <2>3. WorkPlan(x) = p
    BY <1>3 DEF WorkPlan
  <2> HIDE DEF p
  <2>4. \A i \in 1 .. Len(p) : p[i].do # "quiet"
    <3>1. \A i \in 1 .. Len(p) : i = 1 \/ i = 2
      BY <2>2
    <3>2. QED
      BY <2>1, <2>2, <3>1
  <2>5. QED
    BY <1>2, <1>3, <2>2, <2>3, <2>4
<1>4. CASE x.type = "disconnect"
  <2>1. WorkPlan(x) = <<Quiet(x.conn, x.only)>> /\ Quiet(x.conn, x.only) \in Steps
    BY <1>1, <1>4, MadeSteps DEF WorkPlan
  <2>2. \A c \in Calls : x = Disconnect(c, FALSE) => Releases(Quiet(x.conn, x.only), c)
    BY <1>2 DEF Releases
  <2>3. QED
    BY <2>1, <2>2, OneStep
<1>5. CASE x.type = "reject"
  <2>1. WorkPlan(x) = <<>>
    BY <1>5 DEF WorkPlan
  <2>2. \A i \in 1 .. Len(<<>>) : FALSE
    BY NoStep
  <2>3. \A c \in Calls : x # Disconnect(c, FALSE)
    BY <1>2, <1>5
  <2>4. QED
    BY <2>1, <2>2, <2>3, NoStep
<1>6. QED
  BY <1>1, <1>3, <1>4, <1>5

LEMMA TakeWorkKeeps ==
    ASSUME SessionInv, TakeWork PROVE SessionInv'
<1> DEFINE x == Head(work)
           p == WorkPlan(x)
<1>1. /\ Idling("work") /\ work # <<>> /\ work' = Tail(work)
      /\ todo' = [todo EXCEPT !["work"] = p]
      /\ UNCHANGED <<s, answering, media, inbox, sdk, env, past>>
  BY DEF TakeWork, WorkPlan
<1>2. /\ work \in Seq(Items) /\ Len(work) \in Nat /\ Len(work) <= WorkCap
      /\ x \in Items /\ x = work[1] /\ work' \in Seq(Items) /\ Len(work') = Len(work) - 1
      /\ \A i \in 1 .. Len(work) - 1 : work'[i] = work[i + 1]
  <2>1. work \in Seq(Items) /\ Len(work) <= WorkCap
    BY DEF SessionInv, TypeOK
  <2>2. QED
    BY <1>1, <2>1, TailFacts
<1> HIDE DEF x
<1>3. /\ p \in Seq(Steps)
      /\ \A i \in 1 .. Len(p) : p[i].do = "quiet" => Len(p) = 1
      /\ \A c \in Calls : x = Disconnect(c, FALSE) => Promises(p, c)
  BY <1>2, WorkPlanFine
<1> HIDE DEF p
<1>4. Len(work') <= WorkCap
  <2>1. WorkCap \in Nat
    BY SessionAssumption
  <2>2. QED
    BY <1>2, <2>1
<1>5. ~AtStep("work", "spawn") /\ ~AtStep("work", "roll back")
  BY <1>1 DEF AtStep
<1>6. ASSUME NEW c \in Calls, WillRelease(c)
      PROVE  \/ Promises(p, c)
             \/ \E i \in 1 .. Len(work') : work'[i] = Disconnect(c, FALSE)
             \/ \E u \in Tasks \ {"work"} : Promises(todo[u], c)
  <2>1. CASE \E i \in 1 .. Len(work) : work[i] = Disconnect(c, FALSE)
    <3>1. PICK i \in 1 .. Len(work) : work[i] = Disconnect(c, FALSE)
      BY <2>1
    <3>2. CASE i = 1
      BY <1>2, <1>3, <3>1, <3>2
    <3>3. CASE i # 1
      <4>1. i - 1 \in 1 .. Len(work') /\ work'[i - 1] = work[(i - 1) + 1] /\ (i - 1) + 1 = i
        BY <1>2, <3>3
      <4>2. QED
        BY <3>1, <4>1
    <3>4. QED
      BY <3>2, <3>3
  <2>2. CASE \E u \in Tasks : Promises(todo[u], c)
    <3>1. ~Promises(todo["work"], c)
      BY <1>1, NoStep DEF Idling
    <3>2. QED
      BY <2>2, <3>1
  <2>3. QED
    BY <1>6, <2>1, <2>2, WillReleaseIs
<1>7. QED
  BY <1>1, <1>2, <1>3, <1>4, <1>5, <1>6, WorkGoesOn

\* VOIP_WORK_HANGUP
LEMMA TellPeerKeeps ==
    ASSUME SessionInv, TellPeer PROVE SessionInv'
<1> DEFINE c == ConnOf("work")
           p == IF Current(c) THEN <<Stop(c)>> \o Rest("work") ELSE Rest("work")
<1>1. /\ AtStep("work", "tell") /\ todo' = [todo EXCEPT !["work"] = p]
      /\ UNCHANGED <<s, answering, work, media, inbox, sdk, env, past>>
  BY DEF TellPeer
<1>2. c \in Calls
  BY <1>1, SessionFacts, TailFacts, StepFacts DEF AtStep, Idling, ConnOf, Tasks
<1>3. /\ ~AtStep("work", "spawn") /\ ~AtStep("work", "roll back")
      /\ ~Idling("work") /\ Head(todo["work"]).do # "answered"
      /\ "work" \in Tasks
  BY <1>1, OneHead DEF AtStep, Tasks
<1>4. p = Rest("work") \/ \E d \in Calls : p = <<Stop(d)>> \o Rest("work")
  BY <1>2
<1> HIDE DEF p
<1>5. /\ p \in Seq(Steps)
      /\ \A i \in 1 .. Len(p) : p[i].do = "quiet" => Len(p) = 1
      /\ \A d \in Calls : Promises(p, d) <=> Promises(Rest("work"), d)
  BY <1>3, <1>4, RestIsPlan
<1>6. \A d \in Calls : Promises(todo["work"], d) => Promises(p, d)
  <2>1. Head(todo["work"]).do \in Sobering
    BY <1>1 DEF AtStep, Sobering
  <2>2. \A d \in Calls : ~Releases(Head(todo["work"]), d)
    BY <2>1, SoberHead
  <2>3. QED
    BY <1>3, <1>5, <2>2, SessionFacts, RestPromises DEF Idling, Rest
<1>7. work' \in Seq(Items) /\ Len(work') <= WorkCap
  BY <1>1 DEF SessionInv, TypeOK
<1>8. ASSUME NEW d \in Calls, WillRelease(d)
      PROVE  \/ Promises(p, d)
             \/ \E i \in 1 .. Len(work') : work'[i] = Disconnect(d, FALSE)
             \/ \E u \in Tasks \ {"work"} : Promises(todo[u], d)
  BY <1>1, <1>6, <1>8, WillReleaseIs
<1>9. QED
  BY <1>1, <1>3, <1>5, <1>7, <1>8, WorkGoesOn

\* VOIP_WORK_DISCONNECT
LEMMA QuietFirstKeeps ==
    ASSUME SessionInv, QuietFirst PROVE SessionInv'
<1> DEFINE c    == ConnOf("work")
           only == Head(todo["work"]).only
           p == IF only /\ ~Current(c) THEN <<>> ELSE <<Stop(c), Release(c, only)>>
<1>1. /\ AtStep("work", "quiet") /\ todo' = [todo EXCEPT !["work"] = p]
      /\ UNCHANGED <<s, answering, work, media, inbox, sdk, env, past>>
  BY DEF QuietFirst
<1>2. /\ todo["work"] \in Seq(Steps) /\ todo["work"] # <<>>
      /\ Head(todo["work"]) = todo["work"][1] /\ Head(todo["work"]) \in Steps
      /\ Len(todo["work"]) \in Nat /\ Len(todo["work"]) >= 1
  BY <1>1, SessionFacts, TailFacts DEF AtStep, Idling, Tasks
<1>3. c \in Calls /\ only \in BOOLEAN
  BY <1>1, <1>2, StepFacts DEF AtStep, ConnOf
<1>4. Len(todo["work"]) = 1
  <2>1. 1 \in 1 .. Len(todo["work"]) /\ todo["work"][1].do = "quiet"
    BY <1>1, <1>2 DEF AtStep
  <2>2. QED
    BY <2>1 DEF SessionInv, Planned
<1>5. \A d \in Calls : Promises(todo["work"], d) => d = c /\ only = FALSE
  <2>1. ASSUME NEW d \in Calls, Promises(todo["work"], d) PROVE d = c /\ only = FALSE
    <3>1. Releases(Head(todo["work"]), d)
      <4>1. PICK i \in 1 .. Len(todo["work"]) : Releases(todo["work"][i], d)
        BY <2>1 DEF Promises
      <4>2. i = 1
        BY <1>4
      <4>3. QED
        BY <1>2, <4>1, <4>2
    <3>2. Head(todo["work"]) = Quiet(d, FALSE)
      <4>1. Post(Disconnect(d, FALSE)).do = "post" /\ Release(d, FALSE).do = "release"
        BY DEF Post, Release
      <4>2. QED
        BY <1>1, <3>1, <4>1 DEF Releases, AtStep
    <3>3. QED
      BY <3>2 DEF Quiet, ConnOf
  <2>2. QED
    BY <2>1
<1> HIDE DEF c, only
<1>6. /\ p \in Seq(Steps)
      /\ \A i \in 1 .. Len(p) : p[i].do = "quiet" => Len(p) = 1
      /\ only = FALSE => Promises(p, c)
  <2>1. CASE only /\ ~Current(c)
    BY <2>1, NoStep
  <2>2. CASE ~(only /\ ~Current(c))
    <3>1. /\ Stop(c) \in Steps /\ Stop(c).do = "stop"
          /\ Release(c, only) \in Steps /\ Release(c, only).do = "release"
      BY <1>3, MadeSteps DEF Stop, Release
    <3>2. p = <<Stop(c), Release(c, only)>>
      BY <2>2
    <3>3. /\ p \in Seq(Steps) /\ Len(p) = 2 /\ p[1] = Stop(c) /\ p[2] = Release(c, only)
      BY <3>1, <3>2, PairFacts
    <3> HIDE DEF p
    <3>4. \A i \in 1 .. Len(p) : i = 1 \/ i = 2
      BY <3>3
    <3>5. \A i \in 1 .. Len(p) : p[i].do # "quiet"
      BY <3>1, <3>3, <3>4
    <3>6. only = FALSE => Releases(p[2], c) /\ 2 \in 1 .. Len(p)
      <4>1. only = FALSE => p[2] = Release(c, FALSE)
        BY <3>3
      <4>2. only = FALSE => Releases(p[2], c)
        BY <4>1 DEF Releases
      <4>3. QED
        BY <3>3, <4>2
    <3>7. QED
      BY <3>3, <3>5, <3>6 DEF Promises
  <2>3. QED
    BY <2>1, <2>2
<1> HIDE DEF p
<1>7. ~AtStep("work", "spawn") /\ ~AtStep("work", "roll back")
  BY <1>1, OneHead
<1>8. work' \in Seq(Items) /\ Len(work') <= WorkCap
  BY <1>1 DEF SessionInv, TypeOK
<1>9. ASSUME NEW d \in Calls, WillRelease(d)
      PROVE  \/ Promises(p, d)
             \/ \E i \in 1 .. Len(work') : work'[i] = Disconnect(d, FALSE)
             \/ \E u \in Tasks \ {"work"} : Promises(todo[u], d)
  BY <1>1, <1>5, <1>6, <1>9, WillReleaseIs
<1>10. QED
  BY <1>1, <1>6, <1>7, <1>8, <1>9, WorkGoesOn

\* TiRtcDisconnect(), by the work task or by the callback task
LEMMA ReleaseConnKeeps ==
    ASSUME SessionInv, NEW t \in {"work", "callback"}, ReleaseConn(t) PROVE SessionInv'
<1> DEFINE h == Head(todo[t])
           c == ConnOf(t)
           p == Rest(t)
<1>1. /\ AtStep(t, "release") /\ todo' = [todo EXCEPT ![t] = p]
      /\ IF (h.only /\ ~Current(c)) \/ sdk[c] \notin {"opened", "open"}
         THEN UNCHANGED <<sdk, past>>
         ELSE \/ sdk' = [sdk EXCEPT ![c] = "leaving"] /\ UNCHANGED past
              \/ /\ past' = [past EXCEPT !.unserved = @ \cup {c}]
                 /\ UNCHANGED sdk
      /\ UNCHANGED <<s, answering, work, media, inbox, env>>
  BY DEF ReleaseConn, Carry
<1>2. h \in Steps /\ todo[t] \in Seq(Steps) /\ todo[t] # <<>> /\ h.do = "release" /\ c = h.conn
  BY <1>1, SessionFacts, TailFacts DEF AtStep, Idling, ConnOf, Tasks
<1>3. c \in Calls /\ h.only \in BOOLEAN /\ t \in Tasks
  BY <1>2, StepFacts DEF Tasks
<1>4. /\ ~AtStep(t, "spawn") /\ ~AtStep(t, "roll back") /\ ~AtStep(t, "stop")
      /\ ~Idling(t) /\ Head(todo[t]).do # "answered"
  BY <1>1, OneHead DEF AtStep
<1>5. /\ p \in Seq(Steps)
      /\ t = "callback" =>
           /\ \A i \in 2 .. Len(p) : p[i].do = "post"
           /\ p # <<>> => Head(p).do \in {"post", "stop"}
      /\ t = "work" => \A i \in 1 .. Len(p) : p[i].do = "quiet" => Len(p) = 1
  BY <1>3, <1>4, RestIsPlan
<1>6. \A d \in Calls : Promises(todo[t], d) => Promises(p, d) \/ (d = c /\ h.only = FALSE)
  <2>1. ASSUME NEW d \in Calls, Releases(h, d) PROVE d = c /\ h.only = FALSE
    <3>1. h = Release(d, FALSE)
      <4>1. Post(Disconnect(d, FALSE)).do = "post" /\ Quiet(d, FALSE).do = "quiet"
        BY DEF Post, Quiet
      <4>2. QED
        BY <1>2, <2>1, <4>1 DEF Releases
    <3>2. Release(d, FALSE).conn = d /\ Release(d, FALSE).only = FALSE
      BY DEF Release
    <3>3. QED
      BY <1>2, <3>1, <3>2
  <2>2. QED
    BY <1>2, <2>1, RestPromises DEF Rest
<1> HIDE DEF h, c, p
<1>7. /\ sdk' \in [Calls -> Links] /\ Onward
      /\ past' \in Past /\ past.unserved \subseteq past'.unserved
      /\ past.crossed => past'.crossed
      /\ \A d \in Calls : sdk'[d] = "open" => sdk[d] = "open"
      /\ (h.only = FALSE /\ sdk'[c] = "open") => c \in past'.unserved
  <2>1. sdk \in [Calls -> Links] /\ past \in Past
    BY DEF SessionInv, TypeOK
  <2>2. CASE UNCHANGED <<sdk, past>> /\ ((h.only /\ ~Current(c)) \/ sdk[c] \notin {"opened", "open"})
    <3>1. sdk' = sdk /\ past' = past
      BY <2>2
    <3>2. (h.only = FALSE /\ sdk'[c] = "open") => FALSE
      BY <2>2
    <3>3. QED
      BY <2>1, <3>1, <3>2, SamePast, SameOnward
  <2>3. CASE sdk[c] \in {"opened", "open"} /\ sdk' = [sdk EXCEPT ![c] = "leaving"] /\ past' = past
    <3>1. /\ sdk' \in [Calls -> Links] /\ Onward
          /\ sdk'[c] = "leaving" /\ \A d \in Calls \ {c} : sdk'[d] = sdk[d]
      BY <1>3, <2>3, OneMoves
    <3>2. QED
      BY <1>3, <2>3, <3>1, SamePast
  <2>4. CASE past' = [past EXCEPT !.unserved = @ \cup {c}] /\ sdk' = sdk
    <3>1. /\ past' \in Past /\ past.unserved \subseteq past'.unserved
          /\ past'.crossed = past.crossed /\ c \in past'.unserved
      BY <1>3, <2>1, <2>4 DEF Past
    <3>2. QED
      BY <2>1, <2>4, <3>1, SameOnward
  <2>5. QED
    BY <1>1, <2>2, <2>3, <2>4
<1>8. /\ TypeOK' /\ Shaped' /\ Numbered' /\ Planned' /\ Told' /\ Heard' /\ Sounding'
      /\ PendingIsServed'
      /\ todo'[t] = p /\ \A u \in Tasks \ {t} : todo'[u] = todo[u]
  <2>1. /\ work' \in Seq(Items) /\ Len(work') <= WorkCap
        /\ media' \in Media /\ media'.conn \in {media.conn, 0}
    BY <1>1 DEF SessionInv, TypeOK
  <2>2. t # "answer" /\ t # "boot"
    OBVIOUS
  <2>3. QED
    BY <1>1, <1>3, <1>4, <1>5, <1>7, <2>1, <2>2, TaskGoesOn
<1>9. NoConnectionLeft'
  <2>1. ASSUME NEW d \in Calls, sdk'[d] = "open", WillRelease(d)
        PROVE  WillRelease(d)' \/ d \in past'.unserved
    <3>1. CASE \E i \in 1 .. Len(work) : work[i] = Disconnect(d, FALSE)
      BY <1>1, <3>1 DEF WillRelease
    <3>2. ASSUME NEW u \in Tasks, Promises(todo[u], d), ~(d = c /\ h.only = FALSE)
          PROVE  WillRelease(d)'
      <4>1. Promises(todo'[u], d)
        BY <1>6, <1>8, <3>2
      <4>2. QED
        BY <4>1 DEF WillRelease, Promises, Releases
    <3>3. CASE d = c /\ h.only = FALSE
      BY <1>7, <2>1, <3>3
    <3>4. QED
      BY <2>1, <3>1, <3>2, <3>3, WillReleaseIs
  <2>2. QED
    BY <1>1, <1>7, <2>1, Releasing
<1>10. QED
  BY <1>8, <1>9 DEF SessionInv

\* pcma_task() comes to its end.
LEMMA PcmaKeeps ==
    ASSUME SessionInv, Pcma PROVE SessionInv'
<1>1. /\ media' \in Media /\ media'.conn = media.conn
      /\ UNCHANGED <<s, answering, work, inbox, todo, sdk, env, past>>
  BY DEF Pcma, MediaLeaves, MediaGone, SessionInv, TypeOK, Media
<1>2. TypeOK'
  BY <1>1 DEF SessionInv, TypeOK
<1>3. Ebbs(s, s') /\ Holds(s, s')
  BY <1>1 DEF Ebbs, Holds
<1>4. Shaped' /\ Numbered'
  BY <1>1, <1>3, SamePlan, SessionFacts, SameOnward, SamePast, EbbShaped
<1>5. Planned' /\ PendingIsServed' /\ Told'
  BY <1>1 DEF SessionInv, Planned, PendingIsServed, Told, Met, AtStep, Idling
<1>6. Heard' /\ Sounding'
  BY <1>1, <1>3, SamePast, Holding
<1>7. NoConnectionLeft'
  BY <1>1 DEF SessionInv, NoConnectionLeft, WillRelease
<1>8. QED
  BY <1>2, <1>4, <1>5, <1>6, <1>7 DEF SessionInv

------------------------------------------------------------------------------
(* Every step, and the theorems                                            *)

LEMMA InitHolds == Init => SessionInv
<1> SUFFICES ASSUME Init PROVE SessionInv
  OBVIOUS
<1>1. /\ s = Idle /\ answering = 0 /\ work = <<>> /\ media = [conn |-> 0, task |-> "none"]
      /\ inbox = <<>> /\ todo = [t \in Tasks |-> <<>>] /\ sdk = [c \in Calls |-> "none"]
      /\ past = [crossed |-> FALSE, unserved |-> {}, unheard |-> FALSE]
  BY DEF Init
<1>2. PICK x \in Scenarios : env = [calls |-> 0, sent |-> {}, left |-> x]
  BY DEF Init
<1>3. 0 \in CallOrNone /\ WorkCap \in Nat /\ InboxCap \in Nat /\ x \in ScenarioKinds
  BY CallNumbers, SessionAssumption
<1>4. Solid(s) /\ s.call = 0 /\ s.conn = 0 /\ s.state = "idle" /\ s.pending = FALSE
  BY <1>1, IdleFine DEF Idle
<1>5. \A t \in Tasks : todo[t] = <<>>
  BY <1>1
<1>6. env \in Env /\ env.calls = 0
  BY <1>2, <1>3 DEF Env
<1>7. TypeOK
  <2>1. s \in Session /\ answering \in CallOrNone
    BY <1>1, <1>3, <1>4 DEF Solid
  <2>2. /\ work \in Seq(Items) /\ Len(work) <= WorkCap
        /\ inbox \in Seq(Events) /\ Len(inbox) <= InboxCap
    BY <1>1, <1>3
  <2>3. media \in Media /\ past \in Past
    BY <1>1, <1>3 DEF Media, Past
  <2>4. todo \in [Tasks -> Seq(Steps)] /\ sdk \in [Calls -> Links]
    BY <1>1 DEF Links
  <2>5. QED
    BY <1>6, <2>1, <2>2, <2>3, <2>4 DEF TypeOK
<1>8. Shaped /\ Numbered
  <2>1. ~AtStep("answer", "whip")
    BY <1>5 DEF AtStep, Idling, Tasks
  <2>2. QED
    BY <1>1, <1>4, <1>6, <2>1 DEF Shaped, Numbered
<1>9. Planned
  <2>1. \A t \in Tasks : Len(todo[t]) = 0
    BY <1>5
  <2>2. todo["answer"] = <<>> /\ Len(todo["callback"]) = 0 /\ Len(todo["work"]) = 0
        /\ Len(todo["boot"]) = 0
    BY <1>5, <2>1 DEF Tasks
  <2>3. QED
    BY <2>2 DEF Planned, Promises
<1>10. Told
  <2>1. Len(inbox) = 0
    BY <1>1
  <2>2. QED
    BY <2>1 DEF Told
<1>11. Heard /\ Sounding
  BY <1>1, <1>5 DEF Heard, Sounding, AtStep, Idling, Tasks
<1>12. NoConnectionLeft /\ PendingIsServed
  BY <1>1, <1>4 DEF NoConnectionLeft, PendingIsServed
<1>13. QED
  BY <1>7, <1>8, <1>9, <1>10, <1>11, <1>12 DEF SessionInv

LEMMA ContinueKeeps ==
    ASSUME SessionInv, NEW t \in Tasks, Continue(t) PROVE SessionInv'
<1>1. CASE t = "callback" /\ (AfterConnected \/ AfterHungUp \/ StartMedia)
  BY <1>1, AfterConnectedKeeps, AfterHungUpKeeps, StartMediaKeeps
<1>2. CASE t \in {"boot", "socket"} /\ (Ask(t) \/ SpawnAnswer(t) \/ RollBack(t))
  BY <1>2, AskKeeps, SpawnAnswerKeeps, RollBackKeeps
<1>3. CASE Answer \/ WhipAccepted \/ WhipRefused \/ AnswerDone
  BY <1>3, AnswerKeeps, WhipAcceptedKeeps, WhipRefusedKeeps, AnswerDoneKeeps
<1>4. CASE AskClosing \/ AskIdle \/ HangUp \/ RejectIncoming
  BY <1>4, AskClosingKeeps, AskIdleKeeps, HangUpKeeps, RejectIncomingKeeps
<1>5. CASE TellPeer \/ QuietFirst
  BY <1>5, TellPeerKeeps, QuietFirstKeeps
<1>6. CASE t \in {"work", "callback"} /\ ReleaseConn(t)
  BY <1>6, ReleaseConnKeeps
<1>7. CASE Enqueue(t)
  BY <1>7, EnqueueKeeps
<1>8. CASE StopMedia(t)
  BY <1>8, StopMediaKeeps
<1>9. QED
  BY <1>1, <1>2, <1>3, <1>4, <1>5, <1>6, <1>7, <1>8 DEF Continue

LEMMA NextKeeps == SessionInv /\ [Next]_vars => SessionInv'
<1> SUFFICES ASSUME SessionInv, [Next]_vars PROVE SessionInv'
  OBVIOUS
<1>1. CASE Pcma
  BY <1>1, PcmaKeeps
<1>2. ASSUME NEW t \in Tasks, Run(t) PROVE SessionInv'
  BY <1>2, MaintainKeeps, CallbackKeeps, TakeWorkKeeps, ContinueKeeps DEF Run
<1>3. CASE Environment
  <2>1. CASE ShortPress \/ LongPress
    BY <2>1, ShortPressKeeps, LongPressKeeps
  <2>2. ASSUME NEW auto \in BOOLEAN, Invite(auto) PROVE SessionInv'
    BY <2>2, InviteKeeps
  <2>3. ASSUME NEW n \in Calls, Cancel(n) PROVE SessionInv'
    BY <2>3, CancelKeeps
  <2>4. ASSUME NEW c \in Calls,
               LinkOpens(c) \/ WhipSucceeds(c) \/ WhipFails(c) \/ LinkCloses(c)
        PROVE  SessionInv'
    BY <2>4, LinkOpensKeeps, WhipSucceedsKeeps, WhipFailsKeeps, LinkClosesKeeps
  <2>5. ASSUME NEW kind \in Signals, NEW c \in Calls, Signal(kind, c) PROVE SessionInv'
    BY <2>5, SignalKeeps
  <2>6. QED
    BY <1>3, <2>1, <2>2, <2>3, <2>4, <2>5 DEF Environment
<1>4. CASE UNCHANGED vars
  <2>1. UNCHANGED <<s, answering, work, media, inbox, todo, sdk, env, past>>
    BY <1>4 DEF vars
  <2>2. TypeOK'
    BY <2>1 DEF SessionInv, TypeOK
  <2>3. Shaped' /\ Numbered'
    <3>1. Ebbs(s, s')
      BY <2>1 DEF Ebbs
    <3>2. QED
      BY <2>1, <3>1, SamePlan, SessionFacts, SameOnward, SamePast, EbbShaped
  <2>4. Planned' /\ Told' /\ PendingIsServed'
    BY <2>1 DEF SessionInv, Planned, Told, Met, PendingIsServed, AtStep, Idling
  <2>5. Heard' /\ Sounding'
    <3>1. Holds(s, s')
      BY <2>1 DEF Holds
    <3>2. QED
      BY <2>1, <3>1, SamePast, Holding
  <2>6. NoConnectionLeft'
    BY <2>1 DEF SessionInv, NoConnectionLeft, WillRelease
  <2>7. QED
    BY <2>2, <2>3, <2>4, <2>5, <2>6 DEF SessionInv
<1>5. QED
  BY <1>1, <1>2, <1>3, <1>4 DEF Next, Device

\* wechat_voip_session.c, whatever its seven tasks do between their locked
\* sections: the session, the inbox, the work queue, the plans of the tasks and the
\* SDK's side of each connection stay in step.
THEOREM SessionHolds == Spec => []SessionInv
<1>1. QED
  BY InitHolds, NextKeeps, PTL DEF Spec

\* Every field of the session and every item, event and step has its kind, and
\* neither queue outgrows its length.
THEOREM SessionTypes == Spec => []TypeOK
<1>1. SessionInv => TypeOK
  BY DEF SessionInv
<1>2. QED
  BY <1>1, SessionHolds, PTL

\* on_whip_connect(), on_conn_error(), voip_work_task(): a connection the SDK has
\* handed over is the session's, or its release is under way, or a disconnect for it
\* was refused, or a call has met what was another's.
THEOREM ConnectionsReleased == Spec => []NoConnectionLeft
<1>1. SessionInv => NoConnectionLeft
  BY DEF SessionInv
<1>2. QED
  BY <1>1, SessionHolds, PTL

\* wechat_voip_media_start() and _stop(): while the callback task rests, the sample
\* audio is on the line of the session's own connection, confirmed or closing.
THEOREM AudioFollowsCall == Spec => []AudioWithItsCall
<1>1. SessionInv => AudioWithItsCall
  BY DEF SessionInv, Sounding, AudioWithItsCall, Audible, AtStep
<1>2. QED
  BY <1>1, SessionHolds, PTL

\* start_answer_task(): s_answer_pending is set only while a task is there to serve
\* the request, or about to be, or the request is being taken back: no later press
\* is ignored for ever.
THEOREM PressesServed == Spec => []PendingIsServed
<1>1. SessionInv => PendingIsServed
  BY DEF SessionInv
<1>2. QED
  BY <1>1, SessionHolds, PTL
=============================================================================
