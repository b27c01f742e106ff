----------------------- MODULE DesktopSession_proofs -----------------------
(***************************************************************************)
(* What holds of the sessions of the desktop demo in every state, for any  *)
(* number of connections and any failures.                                 *)
(*                                                                         *)
(* A thread's plan is a sequence; what the invariant says of it is which   *)
(* steps are in it, and its order.  The first part takes each action of a  *)
(* thread to the steps it takes from a plan and puts there; after that no  *)
(* sequence is looked into.                                                *)
(***************************************************************************)
EXTENDS DesktopSession, FiniteSetTheorems, TLAPS

\* The kinds of steps: a claim is known by its place.
EndKinds     == {"stop_sdk", "await_stop", "await_cleanup", "uninit", "exit"}
RawKinds     == {"launch_raw", "raw_disconnect"}
SessionKinds == {"register", "enable", "launch", "log", "mark", "unlist", "stop",
                 "join", "free", "disconnect"} \cup ClaimPlaces
Kinds        == SessionKinds \cup RawKinds \cup EndKinds

\* No connection: a step of main()'s end is for none.
NoConn == 0

Kind(p) == IF p.do = "claim" THEN p.where ELSE p.do
Of(p)   == IF p.do \in EndKinds THEN NoConn ELSE p.conn

\* A step of kind l may come after one of kind k in a plan: the order of the code.
MayFollow(k, l) ==
    \/ l \in EndKinds /\ k \in {"claim_on_shutdown", "launch", "log", "mark", "unlist", "stop",
                                "join", "free"}
    \/ k = "enable" /\ l = "claim_on_replacement"
    \/ k = "unlist" /\ l \in {"stop", "join", "free"}
    \/ k = "stop" /\ l \in {"join", "free", "disconnect"}
    \/ k = "join" /\ l \in {"free", "disconnect"}
    \/ k = "stop_sdk" /\ l \in {"await_stop", "await_cleanup", "uninit", "exit"}
    \/ k = "await_stop" /\ l \in {"await_cleanup", "uninit", "exit"}
    \/ k = "await_cleanup" /\ l \in {"uninit", "exit"}
    \/ k = "uninit" /\ l = "exit"

InOrder(plan) ==
    \A i, j \in 1 .. Len(plan) : i < j => MayFollow(Kind(plan[i]), Kind(plan[j]))

\* A step of kind k for connection c is in the plan.
In(plan, k, c) == \E i \in 1 .. Len(plan) : Kind(plan[i]) = k /\ Of(plan[i]) = c

\* Thread t has such a step to do.
Due(t, k, c) == In(todo[t], k, c)

Planned == \A t \in Threads : InOrder(todo[t])

\* Which threads have which steps.
Assigned ==
    /\ \A t \in Threads, c \in Conns :
           /\ \A k \in {"register", "enable", "launch_raw", "claim_on_replacement",
                       "claim_on_error"} : Due(t, k, c) => t = Sdk
           /\ Due(t, "claim_on_shutdown", c) => t = Main
           /\ \A k \in {"launch", "log"} : Due(t, k, c) => t \in {Main, Sdk}
           /\ \A k \in {"mark", "unlist", "stop", "join", "free"} :
                  Due(t, k, c) => t \in {Main, Sdk, Cleaner(c)}
           /\ Due(t, "disconnect", c) => t = Cleaner(c)
           /\ Due(t, "raw_disconnect", c) => t = Raw(c)
    /\ \A t \in Threads, k \in EndKinds : Due(t, k, NoConn) => t = Main

\* A teardown that is begun is in the plan to its end.
Whole ==
    \A t \in Threads, c \in Conns :
        /\ Due(t, "unlist", c) => Due(t, "stop", c) /\ Due(t, "free", c)
        /\ Due(t, "stop", c) => Due(t, "join", c)
        /\ Due(t, "join", c) => Due(t, "free", c) \/ Due(t, "disconnect", c)

\* So is the end of main().
Onward ==
    /\ Due(Main, "stop_sdk", NoConn) => Due(Main, "await_stop", NoConn)
    /\ Due(Main, "await_stop", NoConn) => Due(Main, "await_cleanup", NoConn)
    /\ Due(Main, "await_cleanup", NoConn) => Due(Main, "uninit", NoConn)
    /\ \A k \in Kinds, c \in ConnOrNone : Due(Main, k, c) => Due(Main, "exit", NoConn)
    /\ \A k \in SessionKinds, c \in Conns : Due(Main, k, c) => Due(Main, "stop_sdk", NoConn)

\* The SDK is disconnecting a connection with a session.
Closing(c) == link[c] = "closing" /\ session[c].memory # "none"

\* Thread t is to bring the session's end one step further.
Holds(t, c) == Due(t, "launch", c) \/ Due(t, "disconnect", c) \/ Due(t, "mark", c)

\* A session that is scheduled for its end is in one hand at a time, and in none
\* once it is finalized; then one thread is to free it.
Handed ==
    \A c \in Conns :
        /\ Closing(c) => session[c].scheduled /\ ~session[c].finalized
        /\ session[c].finalized => session[c].scheduled
        /\ \A t \in Threads : Holds(t, c) =>
               /\ session[c].scheduled /\ ~session[c].finalized
               /\ ~Closing(c)
               /\ \A u \in Threads : Holds(u, c) => u = t
        /\ \A t \in Threads : Due(t, "free", c) =>
               /\ session[c].finalized /\ session[c].memory = "held"
               /\ \A u \in Threads : Due(u, "free", c) => u = t

\* A session's memory, against the steps that are about it.
Referred ==
    \A c \in Conns :
        /\ \A t \in Threads, k \in SessionKinds : Due(t, k, c) => session[c].memory # "none"
        /\ \A k \in SessionKinds : Due(Main, k, c) => active # c /\ ~Due(Sdk, "register", c)
        /\ session[c].memory = "none" => ~session[c].scheduled
        /\ session[c].memory # "none" => link[c] # "none"
        /\ session[c].memory = "freed" => session[c].finalized
        /\ session[c].memory = "held" /\ session[c].finalized =>
               \E t \in Threads : Due(t, "free", c)
        /\ Due(Sdk, "register", c) =>
               session[c].memory = "held" /\ ~session[c].scheduled /\ active # c
        /\ Due(Sdk, "launch_raw", c) \/ Due(Raw(c), "raw_disconnect", c) =>
               session[c].memory = "none" /\ link[c] # "none" /\ "session" \in fails

\* The streamer's thread runs as long as the session's memory may be used by it.
Worked ==
    \A c \in Conns :
        /\ session[c].memory = "none" => session[c].worker = "none"
        /\ session[c].memory = "held" => session[c].worker # "none"
        /\ session[c].memory = "freed" => session[c].worker = "ended"
        /\ Closing(c) => session[c].worker = "ended"
        /\ Due(Cleaner(c), "mark", c) \/ Due(Cleaner(c), "free", c) => session[c].worker = "ended"
        /\ Due(Cleaner(c), "disconnect", c) /\ ~Due(Cleaner(c), "join", c) =>
               session[c].worker = "ended"
        /\ \A t \in Threads : Due(t, "free", c) /\ ~Due(t, "join", c) =>
               session[c].worker = "ended"

InTime  == "timeout" \notin fails
Leaving == Due(Main, "exit", NoConn)

\* main() on its way out, against the SDK.
Ending ==
    /\ sdk = "stopped" \/ (sdk = "gone" /\ InTime) => \A c \in Conns :
           /\ ~Due(Sdk, "register", c) /\ ~Due(Sdk, "enable", c) /\ ~Due(Sdk, "launch", c)
           /\ \A k \in ClaimPlaces : ~Due(Sdk, k, c)
           /\ Due(Sdk, "mark", c) \/ Due(Sdk, "free", c) => session[c].worker = "ended"
    /\ InTime /\ Leaving =>
           /\ ~Due(Main, "await_stop", NoConn) => sdk \in {"stopped", "gone"}
           /\ ~Due(Main, "await_cleanup", NoConn) => live = 0
    /\ sdk = "gone" => /\ Leaving
                       /\ \A k \in Kinds, c \in ConnOrNone : Due(Main, k, c) => k = "exit"
    /\ ~Leaving \/ Due(Main, "stop_sdk", NoConn) => sdk = "running"

\* What goes wrong only with a failure.
Failing ==
    \A c \in Conns :
        /\ fails \cap {"thread", "disconnect"} = {} =>
               /\ session[c].finalized => link[c] = "closed"
               /\ \A t \in Threads : Due(t, "mark", c) => link[c] = "closed"
        /\ "disconnect" \notin fails => ~Due(Cleaner(c), "mark", c) /\ ~Due(Cleaner(c), "free", c)
        /\ Due(Sdk, "register", c) \/ Due(Sdk, "enable", c) \/ Due(Sdk, "claim_on_error", c) =>
               link[c] # "closed"
        /\ Due(Sdk, "claim_on_replacement", c) =>
               /\ active # c
               /\ \A k \in SessionKinds : ~Due(Main, k, c)
               /\ "disconnect" \notin fails =>
                      ~session[c].finalized /\ \A t \in Threads : ~Due(t, "mark", c)

\* The list of sessions, in these terms.
OnList(c) ==
    /\ session[c].memory = "held"
    /\ ~Due(Sdk, "register", c)
    /\ session[c].finalized => \E t \in Threads : Due(t, "unlist", c)

Counted ==
    /\ live = Cardinality({c \in Conns : OnList(c)})
    /\ active \in Conns => OnList(active)

\* All of it but the place where the process may have been lost.
Kept ==
    /\ SessionTypeOK
    /\ Planned
    /\ Assigned
    /\ Whole
    /\ Onward
    /\ Handed
    /\ Referred
    /\ Worked
    /\ Ending
    /\ Failing
    /\ Counted

DesktopInv == Kept /\ TouchesAreKnown

------------------------------------------------------------------------------
(* Plans                                                                   *)

\* The kind of a step and its connection say which step it is.
LEMMA StepKinds ==
    ASSUME NEW p \in Steps
    PROVE  /\ Kind(p) \in Kinds /\ Of(p) \in ConnOrNone
           /\ Kind(p) \in EndKinds <=> Of(p) = NoConn
           /\ Kind(p) \in ClaimPlaces => p = Claim(Of(p), Kind(p))
           /\ Kind(p) \in EndKinds => p = Just(Kind(p))
           /\ Kind(p) \notin ClaimPlaces \cup EndKinds => p = [do |-> Kind(p), conn |-> Of(p)]
           /\ p.do = "claim" <=> Kind(p) \in ClaimPlaces
           /\ p.do # "claim" => Kind(p) = p.do
           /\ p.do \notin EndKinds => Of(p) = p.conn /\ Of(p) \in Conns
<1>1. NoConn \in ConnOrNone /\ NoConn \notin Conns /\ Conns \subseteq ConnOrNone
  BY DesktopAssumption DEF Conns, ConnOrNone, NoConn
<1>2. CASE p \in [do : {"claim"}, conn : Conns, where : ClaimPlaces]
  BY <1>1, <1>2 DEF Kind, Of, Kinds, SessionKinds, EndKinds, ClaimPlaces, Claim
<1>3. CASE p \in [do : {"stop_sdk", "await_stop", "await_cleanup", "uninit", "exit"}]
  BY <1>1, <1>3 DEF Kind, Of, Kinds, EndKinds, ClaimPlaces, Just
<1>4. CASE p \in [do : {"register", "enable", "launch", "launch_raw", "log", "mark", "unlist",
                        "stop", "join", "free", "disconnect", "raw_disconnect"}, conn : Conns]
  <2>1. p.do \in SessionKinds \cup RawKinds /\ p.do \notin ClaimPlaces \cup EndKinds \cup {"claim"}
    BY <1>4 DEF SessionKinds, RawKinds, EndKinds, ClaimPlaces
  <2>2. Kind(p) = p.do /\ Of(p) = p.conn /\ p.conn \in Conns
    BY <1>4, <2>1 DEF Kind, Of
  <2>3. p = [do |-> p.do, conn |-> p.conn]
    BY <1>4
  <2>4. QED
    BY <1>1, <2>1, <2>2, <2>3 DEF Kinds
<1>5. QED
  BY <1>2, <1>3, <1>4 DEF Steps

\* No kind of step comes twice in a plan.
LEMMA NeverTwice == \A k : ~MayFollow(k, k)
BY DEF MayFollow, EndKinds

\* What a plan holds once its first step is taken.
LEMMA TailHolds ==
    ASSUME NEW plan \in Seq(Steps), plan # <<>>, InOrder(plan)
    PROVE  /\ Head(plan) \in Steps /\ Tail(plan) \in Seq(Steps) /\ InOrder(Tail(plan))
           /\ In(plan, Kind(Head(plan)), Of(Head(plan)))
           /\ \A c : In(plan, Kind(Head(plan)), c) => c = Of(Head(plan))
           /\ \A k, c : In(Tail(plan), k, c) <=> In(plan, k, c) /\ k # Kind(Head(plan))
           /\ \A k, c : In(plan, k, c) /\ k # Kind(Head(plan)) => MayFollow(Kind(Head(plan)), k)
<1> DEFINE n == Len(plan)
           h == Kind(Head(plan))
<1>1. /\ n \in Nat /\ n >= 1 /\ Head(plan) = plan[1] /\ plan[1] \in Steps
      /\ Tail(plan) \in Seq(Steps) /\ Len(Tail(plan)) = n - 1
      /\ \A i \in 1 .. n - 1 : Tail(plan)[i] = plan[i + 1]
  OBVIOUS
<1>2. \A i \in 2 .. n : MayFollow(h, Kind(plan[i])) /\ Kind(plan[i]) # h
  BY <1>1, NeverTwice DEF InOrder
<1>3. h = Kind(plan[1])
  BY <1>1
<1> HIDE DEF h
<1>4. InOrder(Tail(plan))
  <2> SUFFICES ASSUME NEW i \in 1 .. n - 1, NEW j \in 1 .. n - 1, i < j
               PROVE  MayFollow(Kind(Tail(plan)[i]), Kind(Tail(plan)[j]))
    BY <1>1 DEF InOrder
  <2>1. i + 1 \in 1 .. n /\ j + 1 \in 1 .. n /\ i + 1 < j + 1
    BY <1>1
  <2>2. MayFollow(Kind(plan[i + 1]), Kind(plan[j + 1]))
    BY <2>1 DEF InOrder
  <2>3. QED
    BY <1>1, <2>2
<1>5. ASSUME NEW k, NEW c PROVE In(Tail(plan), k, c) <=> In(plan, k, c) /\ k # h
  <2>1. ASSUME NEW i \in 1 .. n - 1, Kind(Tail(plan)[i]) = k, Of(Tail(plan)[i]) = c
        PROVE  In(plan, k, c) /\ k # h
    <3>1. i + 1 \in 2 .. n /\ i + 1 \in 1 .. n /\ plan[i + 1] = Tail(plan)[i]
      BY <1>1
    <3>2. QED
      BY <1>2, <2>1, <3>1 DEF In
  <2>2. ASSUME NEW i \in 1 .. n, Kind(plan[i]) = k, Of(plan[i]) = c, k # h
        PROVE  In(Tail(plan), k, c)
    <3>1. i # 1
      BY <1>3, <2>2
    <3>2. i - 1 \in 1 .. n - 1 /\ Tail(plan)[i - 1] = plan[i]
      BY <1>1, <3>1
    <3>3. QED
      BY <1>1, <2>2, <3>2 DEF In
  <2>3. QED
    BY <1>1, <2>1, <2>2 DEF In
<1>6. ASSUME NEW k, NEW c, In(plan, k, c), k # h PROVE MayFollow(h, k)
  <2>1. PICK i \in 1 .. n : Kind(plan[i]) = k
    BY <1>6 DEF In
  <2>2. i # 1
    BY <1>3, <1>6, <2>1
  <2>3. i \in 2 .. n
    BY <1>1, <2>2
  <2>4. QED
    BY <1>2, <2>1, <2>3
<1>7. In(plan, h, Of(Head(plan)))
  BY <1>1, <1>3 DEF In
<1>8. ASSUME NEW c, In(plan, h, c) PROVE c = Of(Head(plan))
  <2>1. PICK i \in 1 .. n : Kind(plan[i]) = h /\ Of(plan[i]) = c
    BY <1>8 DEF In
  <2>2. i \notin 2 .. n
    BY <1>2, <2>1
  <2>3. i = 1
    BY <1>1, <2>2
  <2>4. QED
    BY <1>1, <2>1, <2>3
<1>9. QED
  BY <1>1, <1>4, <1>5, <1>6, <1>7, <1>8 DEF h

\* A step before a plan.
LEMMA ConsHolds ==
    ASSUME NEW x \in Steps, NEW b \in Seq(Steps), InOrder(b),
           \A k, c : In(b, k, c) => MayFollow(Kind(x), k)
    PROVE  /\ <<x>> \o b \in Seq(Steps) /\ InOrder(<<x>> \o b)
           /\ \A k, c : In(<<x>> \o b, k, c) <=> (k = Kind(x) /\ c = Of(x)) \/ In(b, k, c)
<1> DEFINE n == Len(b)
           ab == <<x>> \o b
<1>1. /\ n \in Nat /\ ab \in Seq(Steps) /\ Len(ab) = n + 1 /\ ab[1] = x
      /\ \A i \in 2 .. n + 1 : ab[i] = b[i - 1]
      /\ \A i \in 1 .. n : ab[i + 1] = b[i]
  OBVIOUS
<1> HIDE DEF ab
<1>2. InOrder(ab)
  <2> SUFFICES ASSUME NEW i \in 1 .. n + 1, NEW j \in 1 .. n + 1, i < j
               PROVE  MayFollow(Kind(ab[i]), Kind(ab[j]))
    BY <1>1 DEF InOrder
  <2>1. j \in 2 .. n + 1 /\ j - 1 \in 1 .. n /\ ab[j] = b[j - 1]
    BY <1>1
  <2>2. CASE i = 1
    <3>1. In(b, Kind(b[j - 1]), Of(b[j - 1]))
      BY <2>1 DEF In
    <3>2. QED
      BY <1>1, <2>1, <2>2, <3>1
  <2>3. CASE i # 1
    <3>1. i - 1 \in 1 .. n /\ ab[i] = b[i - 1] /\ i - 1 < j - 1
      BY <1>1, <2>3
    <3>2. MayFollow(Kind(b[i - 1]), Kind(b[j - 1]))
      BY <2>1, <3>1 DEF InOrder
    <3>3. QED
      BY <2>1, <3>1, <3>2
  <2>4. QED
    BY <2>2, <2>3
<1>3. ASSUME NEW k, NEW c PROVE In(ab, k, c) <=> (k = Kind(x) /\ c = Of(x)) \/ In(b, k, c)
  <2>1. ASSUME NEW i \in 1 .. n + 1, Kind(ab[i]) = k, Of(ab[i]) = c
        PROVE  (k = Kind(x) /\ c = Of(x)) \/ In(b, k, c)
    <3>1. CASE i = 1
      BY <1>1, <2>1, <3>1
    <3>2. CASE i # 1
      <4>1. i - 1 \in 1 .. n /\ b[i - 1] = ab[i]
        BY <1>1, <3>2
      <4>2. QED
        BY <2>1, <4>1 DEF In
    <3>3. QED
      BY <3>1, <3>2
  <2>2. In(ab, Kind(x), Of(x))
    BY <1>1 DEF In
  <2>3. ASSUME NEW i \in 1 .. n, Kind(b[i]) = k, Of(b[i]) = c PROVE In(ab, k, c)
    <3>1. i + 1 \in 1 .. n + 1 /\ ab[i + 1] = b[i]
      BY <1>1
    <3>2. QED
      BY <1>1, <2>3, <3>1 DEF In
  <2>4. QED
    BY <1>1, <2>1, <2>2, <2>3 DEF In
<1>4. QED
  BY <1>1, <1>2, <1>3 DEF ab

\* The plan of a thread that is done.
LEMMA EmptyPlan ==
    /\ <<>> \in Seq(Steps) /\ InOrder(<<>>)
    /\ \A k, c : ~In(<<>>, k, c)
BY DEF InOrder, In

------------------------------------------------------------------------------
(* Steps, threads, and the plans actions make                              *)

\* The steps actions put into plans, with their kinds and connections.
LEMMA MadeSteps ==
    ASSUME NEW c \in Conns
    PROVE  /\ Enable(c) \in Steps /\ Kind(Enable(c)) = "enable" /\ Of(Enable(c)) = c
           /\ Launch(c) \in Steps /\ Kind(Launch(c)) = "launch" /\ Of(Launch(c)) = c
           /\ Log(c) \in Steps /\ Kind(Log(c)) = "log" /\ Of(Log(c)) = c
           /\ Mark(c) \in Steps /\ Kind(Mark(c)) = "mark" /\ Of(Mark(c)) = c
           /\ Unlist(c) \in Steps /\ Kind(Unlist(c)) = "unlist" /\ Of(Unlist(c)) = c
           /\ Stop(c) \in Steps /\ Kind(Stop(c)) = "stop" /\ Of(Stop(c)) = c
           /\ Join(c) \in Steps /\ Kind(Join(c)) = "join" /\ Of(Join(c)) = c
           /\ Free(c) \in Steps /\ Kind(Free(c)) = "free" /\ Of(Free(c)) = c
           /\ Disconnect(c) \in Steps /\ Kind(Disconnect(c)) = "disconnect" /\ Of(Disconnect(c)) = c
           /\ Register(c) \in Steps /\ Kind(Register(c)) = "register" /\ Of(Register(c)) = c
           /\ LaunchRaw(c) \in Steps /\ Kind(LaunchRaw(c)) = "launch_raw" /\ Of(LaunchRaw(c)) = c
           /\ RawDisconnect(c) \in Steps /\ Kind(RawDisconnect(c)) = "raw_disconnect"
           /\ Of(RawDisconnect(c)) = c
BY DEF Steps, Kind, Of, EndKinds, Enable, Launch, Log, Mark, Unlist, Stop, Join, Free, Disconnect,
       Register, LaunchRaw, RawDisconnect

\* So for claims, whose kind is their place,
LEMMA MadeClaims ==
    ASSUME NEW c \in Conns, NEW where \in ClaimPlaces
    PROVE  Claim(c, where) \in Steps /\ Kind(Claim(c, where)) = where /\ Of(Claim(c, where)) = c
BY DEF Steps, Kind, Of, EndKinds, Claim

\* and for the steps of main()'s end.
LEMMA MadeEnds ==
    ASSUME NEW kind \in EndKinds
    PROVE  Just(kind) \in Steps /\ Kind(Just(kind)) = kind /\ Of(Just(kind)) = NoConn
BY DEF Steps, Kind, Of, EndKinds, Just

\* Connections are numbers from one, finitely many.
LEMMA ConnFacts ==
    /\ 0 \in ConnOrNone /\ 0 \notin Conns /\ Conns \subseteq ConnOrNone
    /\ NoConn \in ConnOrNone /\ NoConn \notin Conns
    /\ \A c \in ConnOrNone : c # 0 => c \in Conns
    /\ IsFiniteSet(Conns)
<1>1. IsFiniteSet(1 .. MaxConns)
  BY FS_Interval, DesktopAssumption
<1>2. QED
  BY <1>1, DesktopAssumption DEF Conns, ConnOrNone, NoConn

\* The threads are different ones, and no connection is none.
LEMMA Apart ==
    /\ NoConn \notin Conns /\ \A c \in ConnOrNone : c \in Conns \/ c = NoConn
    /\ Main \in Threads /\ Sdk \in Threads /\ Main # Sdk
    /\ \A c \in Conns :
           /\ Cleaner(c) \in Threads /\ Raw(c) \in Threads
           /\ Cleaner(c) \notin {Main, Sdk} /\ Raw(c) \notin {Main, Sdk}
    /\ \A c, d \in Conns :
           /\ Cleaner(c) = Cleaner(d) => c = d
           /\ Raw(c) = Raw(d) => c = d
           /\ Cleaner(c) # Raw(d)
BY ConnFacts DEF NoConn, Threads, Main, Sdk, Cleaner, Raw

\* Every thread not named is where it was.
Others(named) ==
    \A u \in Threads \ named : \A k, c : Due(u, k, c)' <=> Due(u, k, c)

\* All plans are as they were.
SamePlans == \A u \in Threads : \A k, c : Due(u, k, c)' <=> Due(u, k, c)

\* A step that leaves the plans alone.
LEMMA PlansKept ==
    ASSUME Planned, UNCHANGED todo
    PROVE  Planned' /\ SamePlans
BY DEF Planned, SamePlans, Due

\* A plan is replaced.
LEMMA PlanSet ==
    ASSUME SessionTypeOK, Planned, NEW t \in Threads, NEW plan \in Seq(Steps), InOrder(plan),
           todo' = [todo EXCEPT ![t] = plan]
    PROVE  /\ todo' \in [Threads -> Seq(Steps)] /\ Planned'
           /\ \A k, c : Due(t, k, c)' <=> In(plan, k, c)
           /\ Others({t})
<1>1. todo \in [Threads -> Seq(Steps)]
  BY DEF SessionTypeOK
<1>2. /\ todo' \in [Threads -> Seq(Steps)] /\ todo'[t] = plan
      /\ \A u \in Threads \ {t} : todo'[u] = todo[u]
  BY <1>1
<1>3. Planned'
  BY <1>2 DEF Planned
<1>4. QED
  BY <1>2, <1>3 DEF Due, Others

\* The plan of a thread that has something to do.
LEMMA PlanFacts ==
    ASSUME SessionTypeOK, Planned, NEW t \in Threads, ~Idling(t)
    PROVE  LET h == Head(todo[t])
               k == Kind(h)
               rest == Tail(todo[t])
           IN  /\ h \in Steps /\ rest \in Seq(Steps) /\ InOrder(rest)
               /\ Due(t, k, Of(h))
               /\ \A d : Due(t, k, d) => d = Of(h)
               /\ \A l, d : Due(t, l, d) /\ l # k => MayFollow(k, l)
               /\ \A l, d : In(rest, l, d) <=> Due(t, l, d) /\ l # k
<1>1. todo[t] \in Seq(Steps) /\ todo[t] # <<>> /\ InOrder(todo[t])
  BY DEF SessionTypeOK, Planned, Idling
<1>2. QED
  BY <1>1, TailHolds DEF Due

\* At a step of a session's.
LEMMA AtConn ==
    ASSUME SessionTypeOK, Planned, NEW t \in Threads,
           NEW what \in (SessionKinds \ ClaimPlaces) \cup RawKinds, AtStep(t, what)
    PROVE  LET c == ConnOf(t)
           IN  /\ ~Idling(t) /\ Running /\ Kind(Head(todo[t])) = what /\ Of(Head(todo[t])) = c
               /\ c \in Conns /\ Due(t, what, c)
               /\ \A d : Due(t, what, d) => d = c
               /\ \A k, d : Due(t, k, d) /\ k # what => MayFollow(what, k)
<1> DEFINE h == Head(todo[t])
<1>1. ~Idling(t) /\ Running /\ h.do = what /\ ConnOf(t) = h.conn
  BY DEF AtStep, ConnOf
<1>2. /\ h \in Steps /\ Due(t, Kind(h), Of(h))
      /\ \A d : Due(t, Kind(h), d) => d = Of(h)
      /\ \A l, d : Due(t, l, d) /\ l # Kind(h) => MayFollow(Kind(h), l)
  BY <1>1, PlanFacts
<1>3. what # "claim" /\ what \notin EndKinds
  BY DEF SessionKinds, RawKinds, EndKinds, ClaimPlaces
<1> HIDE DEF h
<1>4. Kind(h) = what /\ Of(h) = h.conn /\ Of(h) \in Conns
  BY <1>1, <1>2, <1>3, StepKinds
<1>5. QED
  BY <1>1, <1>2, <1>4 DEF h

\* At a claim.
LEMMA AtClaim ==
    ASSUME SessionTypeOK, Planned, NEW t \in Threads, AtStep(t, "claim")
    PROVE  LET c == ConnOf(t)
               where == Head(todo[t]).where
           IN  /\ ~Idling(t) /\ Running /\ Kind(Head(todo[t])) = where /\ where \in ClaimPlaces
               /\ c \in Conns /\ Due(t, where, c)
               /\ \A d : Due(t, where, d) => d = c
               /\ \A k, d : Due(t, k, d) /\ k # where => MayFollow(where, k)
<1> DEFINE h == Head(todo[t])
<1>1. ~Idling(t) /\ Running /\ h.do = "claim" /\ ConnOf(t) = h.conn
  BY DEF AtStep, ConnOf
<1>2. /\ h \in Steps /\ Due(t, Kind(h), Of(h))
      /\ \A d : Due(t, Kind(h), d) => d = Of(h)
      /\ \A l, d : Due(t, l, d) /\ l # Kind(h) => MayFollow(Kind(h), l)
  BY <1>1, PlanFacts
<1> HIDE DEF h
<1>3. "claim" \notin EndKinds
  BY DEF EndKinds
<1>4. Kind(h) \in ClaimPlaces /\ Of(h) = h.conn /\ Of(h) \in Conns
  BY <1>1, <1>2, <1>3, StepKinds
<1>5. Kind(h) = h.where
  BY <1>1 DEF Kind
<1>6. QED
  BY <1>1, <1>2, <1>4, <1>5 DEF h

\* At a step of main()'s end.
LEMMA AtEnd ==
    ASSUME SessionTypeOK, Planned, NEW what \in EndKinds, AtStep(Main, what)
    PROVE  /\ ~Idling(Main) /\ Running /\ Kind(Head(todo[Main])) = what
           /\ Due(Main, what, NoConn)
           /\ \A k, d : Due(Main, k, d) /\ k # what => MayFollow(what, k)
<1> DEFINE h == Head(todo[Main])
<1>1. ~Idling(Main) /\ Running /\ h.do = what
  BY DEF AtStep
<1>2. /\ h \in Steps /\ Due(Main, Kind(h), Of(h))
      /\ \A l, d : Due(Main, l, d) /\ l # Kind(h) => MayFollow(Kind(h), l)
  BY <1>1, PlanFacts, Apart
<1> HIDE DEF h
<1>3. what # "claim"
  BY DEF EndKinds
<1>4. Kind(h) = what
  BY <1>1, <1>2, <1>3, StepKinds
<1>5. Of(h) = NoConn
  BY <1>2, <1>4, StepKinds
<1>6. QED
  BY <1>1, <1>2, <1>4, <1>5 DEF h

\* A thread goes on to what comes next.
LEMMA CarryGoes ==
    ASSUME SessionTypeOK, Planned, NEW t \in Threads, ~Idling(t), Carry(t)
    PROVE  /\ todo' \in [Threads -> Seq(Steps)] /\ Planned'
           /\ \A k, c : Due(t, k, c)' <=> Due(t, k, c) /\ k # Kind(Head(todo[t]))
           /\ Others({t})
<1> DEFINE rest == Tail(todo[t])
<1>1. /\ rest \in Seq(Steps) /\ InOrder(rest)
      /\ \A l, d : In(rest, l, d) <=> Due(t, l, d) /\ l # Kind(Head(todo[t]))
  BY PlanFacts
<1>2. todo' = [todo EXCEPT ![t] = <<>> \o rest]
  BY DEF Carry, Then
<1> HIDE DEF rest
<1>3. <<>> \o rest = rest
  BY <1>1
<1>4. todo' = [todo EXCEPT ![t] = rest]
  BY <1>2, <1>3
<1>5. QED
  BY <1>1, <1>4, PlanSet

\* A thread has something to do first.
LEMMA ThenGoes ==
    ASSUME SessionTypeOK, Planned, NEW t \in Threads, ~Idling(t), NEW x \in Steps,
           Then(t, <<x>>),
           \A k, d : Due(t, k, d) /\ k # Kind(Head(todo[t])) => MayFollow(Kind(x), k)
    PROVE  /\ todo' \in [Threads -> Seq(Steps)] /\ Planned'
           /\ \A k, c : Due(t, k, c)' <=>
                  (k = Kind(x) /\ c = Of(x)) \/ (Due(t, k, c) /\ k # Kind(Head(todo[t])))
           /\ Others({t})
<1> DEFINE rest == Tail(todo[t])
           plan == <<x>> \o rest
<1>1. /\ rest \in Seq(Steps) /\ InOrder(rest)
      /\ \A l, d : In(rest, l, d) <=> Due(t, l, d) /\ l # Kind(Head(todo[t]))
  BY PlanFacts
<1>2. todo' = [todo EXCEPT ![t] = plan]
  BY DEF Then
<1> HIDE DEF rest
<1>3. /\ plan \in Seq(Steps) /\ InOrder(plan)
      /\ \A k, c : In(plan, k, c) <=> (k = Kind(x) /\ c = Of(x)) \/ In(rest, k, c)
  BY <1>1, ConsHolds
<1> HIDE DEF plan
<1>4. QED
  BY <1>1, <1>2, <1>3, PlanSet

\* A sequence with one element put before it, position by position.
LEMMA OneFirst ==
    ASSUME NEW S, NEW x \in S, NEW b \in Seq(S)
    PROVE  /\ <<x>> \o b \in Seq(S) /\ Len(<<x>> \o b) = Len(b) + 1
           /\ (<<x>> \o b)[1] = x
           /\ \A i \in 2 .. Len(b) + 1 : (<<x>> \o b)[i] = b[i - 1]
OBVIOUS

\* The four steps of a teardown are put before a plan one after the other.
LEMMA TeardownFirst ==
    ASSUME NEW c \in Conns, NEW b \in Seq(Steps)
    PROVE  Teardown(c) \o b
               = <<Unlist(c)>> \o (<<Stop(c)>> \o (<<Join(c)>> \o (<<Free(c)>> \o b)))
<1> DEFINE x == Unlist(c)
           y == Stop(c)
           z == Join(c)
           w == Free(c)
           b1 == <<w>> \o b
           b2 == <<z>> \o b1
           b3 == <<y>> \o b2
           b4 == <<x>> \o b3
           a  == <<x, y, z, w>> \o b
           n  == Len(b)
<1>0. x \in Steps /\ y \in Steps /\ z \in Steps /\ w \in Steps
  BY MadeSteps
<1>1. n \in Nat
  OBVIOUS
<1> HIDE DEF x, y, z, w
<1>2. /\ b1 \in Seq(Steps) /\ Len(b1) = n + 1 /\ b1[1] = w
      /\ \A i \in 2 .. n + 1 : b1[i] = b[i - 1]
  BY <1>0, OneFirst
<1> HIDE DEF b1
<1>3. /\ b2 \in Seq(Steps) /\ Len(b2) = n + 2 /\ b2[1] = z
      /\ \A i \in 2 .. n + 2 : b2[i] = b1[i - 1]
  BY <1>0, <1>1, <1>2, OneFirst
<1> HIDE DEF b2
<1>4. /\ b3 \in Seq(Steps) /\ Len(b3) = n + 3 /\ b3[1] = y
      /\ \A i \in 2 .. n + 3 : b3[i] = b2[i - 1]
  BY <1>0, <1>1, <1>3, OneFirst
<1> HIDE DEF b3
<1>5. /\ b4 \in Seq(Steps) /\ Len(b4) = n + 4 /\ b4[1] = x
      /\ \A i \in 2 .. n + 4 : b4[i] = b3[i - 1]
  BY <1>0, <1>1, <1>4, OneFirst
<1> HIDE DEF b4
<1>6. /\ a \in Seq(Steps) /\ Len(a) = n + 4
      /\ a[1] = x /\ a[2] = y /\ a[3] = z /\ a[4] = w
      /\ \A i \in 5 .. n + 4 : a[i] = b[i - 4]
  BY <1>0
<1> HIDE DEF a, n
<1>7. /\ b4[2] = y /\ b4[3] = z /\ b4[4] = w
      /\ \A i \in 5 .. n + 4 : b4[i] = b[i - 4]
  <2>1. b4[2] = y
    BY <1>1, <1>4, <1>5
  <2>2. b4[3] = z
    BY <1>1, <1>3, <1>4, <1>5
  <2>3. b4[4] = w
    BY <1>1, <1>2, <1>3, <1>4, <1>5
  <2>4. ASSUME NEW i \in 5 .. n + 4 PROVE b4[i] = b[i - 4]
    <3>1. /\ i \in 2 .. n + 4 /\ i - 1 \in 2 .. n + 3 /\ i - 2 \in 2 .. n + 2
          /\ i - 3 \in 2 .. n + 1
          /\ (i - 1) - 1 = i - 2 /\ (i - 2) - 1 = i - 3 /\ (i - 3) - 1 = i - 4
      BY <1>1
    <3>2. b4[i] = b3[i - 1] /\ b3[i - 1] = b2[(i - 1) - 1]
      BY <1>4, <1>5, <3>1
    <3>3. b2[i - 2] = b1[(i - 2) - 1] /\ b1[i - 3] = b[(i - 3) - 1]
      BY <1>2, <1>3, <3>1
    <3>4. QED
      BY <3>1, <3>2, <3>3
  <2>5. QED
    BY <2>1, <2>2, <2>3, <2>4
<1>8. \A i \in 1 .. n + 4 : a[i] = b4[i]
  <2> SUFFICES ASSUME NEW i \in 1 .. n + 4 PROVE a[i] = b4[i]
    OBVIOUS
  <2>1. i \in {1, 2, 3, 4} \/ i \in 5 .. n + 4
    BY <1>1
  <2>2. QED
    BY <2>1, <1>5, <1>6, <1>7
<1>9. a = b4
  BY <1>1, <1>5, <1>6, <1>8
<1>10. QED
  BY <1>9 DEF Teardown, a, b1, b2, b3, b4, x, y, z, w

\* session_finalize() before the end of main(), or before nothing.
LEMMA TeardownHolds ==
    ASSUME NEW c \in Conns, NEW b \in Seq(Steps), InOrder(b),
           \A k, d : In(b, k, d) => k \in EndKinds
    PROVE  /\ Teardown(c) \o b \in Seq(Steps) /\ InOrder(Teardown(c) \o b)
           /\ \A k, d : In(Teardown(c) \o b, k, d) <=>
                  (k \in {"unlist", "stop", "join", "free"} /\ d = c) \/ In(b, k, d)
<1> DEFINE b1 == <<Free(c)>> \o b
           b2 == <<Join(c)>> \o b1
           b3 == <<Stop(c)>> \o b2
           b4 == <<Unlist(c)>> \o b3
<1>1. /\ b1 \in Seq(Steps) /\ InOrder(b1)
      /\ \A k, d : In(b1, k, d) <=> (k = "free" /\ d = c) \/ In(b, k, d)
  <2>1. \A k, d : In(b, k, d) => MayFollow(Kind(Free(c)), k)
    BY MadeSteps DEF MayFollow
  <2>2. QED
    BY <2>1, MadeSteps, ConsHolds
<1>2. Teardown(c) \o b = b4
  BY TeardownFirst
<1> HIDE DEF b1
<1>3. /\ b2 \in Seq(Steps) /\ InOrder(b2)
      /\ \A k, d : In(b2, k, d) <=> (k = "join" /\ d = c) \/ In(b1, k, d)
  <2>1. \A k, d : In(b1, k, d) => MayFollow(Kind(Join(c)), k)
    BY <1>1, MadeSteps DEF MayFollow
  <2>2. QED
    BY <1>1, <2>1, MadeSteps, ConsHolds
<1> HIDE DEF b2
<1>4. /\ b3 \in Seq(Steps) /\ InOrder(b3)
      /\ \A k, d : In(b3, k, d) <=> (k = "stop" /\ d = c) \/ In(b2, k, d)
  <2>1. \A k, d : In(b2, k, d) => MayFollow(Kind(Stop(c)), k)
    BY <1>1, <1>3, MadeSteps DEF MayFollow
  <2>2. QED
    BY <1>3, <2>1, MadeSteps, ConsHolds
<1> HIDE DEF b3
<1>5. /\ b4 \in Seq(Steps) /\ InOrder(b4)
      /\ \A k, d : In(b4, k, d) <=> (k = "unlist" /\ d = c) \/ In(b3, k, d)
  <2>1. \A k, d : In(b3, k, d) => MayFollow(Kind(Unlist(c)), k)
    BY <1>1, <1>3, <1>4, MadeSteps DEF MayFollow
  <2>2. QED
    BY <1>4, <2>1, MadeSteps, ConsHolds
<1> HIDE DEF b4
<1>6. QED
  BY <1>1, <1>2, <1>3, <1>4, <1>5

\* A plan of one step.
LEMMA OnePlan ==
    ASSUME NEW x \in Steps
    PROVE  /\ <<x>> \in Seq(Steps) /\ InOrder(<<x>>)
           /\ \A k, d : In(<<x>>, k, d) <=> k = Kind(x) /\ d = Of(x)
<1>1. <<x>> \in Seq(Steps) /\ Len(<<x>>) = 1 /\ <<x>>[1] = x
  OBVIOUS
<1>2. QED
  BY <1>1 DEF InOrder, In

\* Only the empty plan has no step in it.
LEMMA NothingIn ==
    ASSUME NEW b \in Seq(Steps), \A k, d : ~In(b, k, d)
    PROVE  b = <<>>
<1>1. ASSUME Len(b) >= 1 PROVE FALSE
  <2>1. 1 \in 1 .. Len(b)
    BY <1>1
  <2>2. In(b, Kind(b[1]), Of(b[1]))
    BY <2>1 DEF In
  <2>3. QED
    BY <2>2
<1>2. QED
  BY <1>1

\* Nothing is put behind a plan.
LEMMA NothingMore == ASSUME NEW b \in Seq(Steps) PROVE b \o <<>> = b
OBVIOUS

\* The plan of a new disconnect_worker_main().
LEMMA CleanupHolds ==
    ASSUME NEW c \in Conns
    PROVE  /\ Cleanup(c) \in Seq(Steps) /\ InOrder(Cleanup(c))
           /\ \A k, d : In(Cleanup(c), k, d) <=> k \in {"stop", "join", "disconnect"} /\ d = c
<1> DEFINE x == Stop(c)
           y == Join(c)
           z == Disconnect(c)
           p == <<x, y, z>>
<1>1. /\ x \in Steps /\ Kind(x) = "stop" /\ Of(x) = c
      /\ y \in Steps /\ Kind(y) = "join" /\ Of(y) = c
      /\ z \in Steps /\ Kind(z) = "disconnect" /\ Of(z) = c
  BY MadeSteps
<1>2. Cleanup(c) = p
  BY DEF Cleanup
<1> HIDE DEF x, y, z
<1>3. p \in Seq(Steps) /\ Len(p) = 3 /\ p[1] = x /\ p[2] = y /\ p[3] = z
  BY <1>1
<1> HIDE DEF p
<1>4. InOrder(p)
  <2> SUFFICES ASSUME NEW i \in 1 .. 3, NEW j \in 1 .. 3, i < j
               PROVE  MayFollow(Kind(p[i]), Kind(p[j]))
    BY <1>3 DEF InOrder
  <2>1. (i = 1 /\ j = 2) \/ (i = 1 /\ j = 3) \/ (i = 2 /\ j = 3)
    OBVIOUS
  <2>2. QED
    BY <1>1, <1>3, <2>1 DEF MayFollow
<1>5. \A k, d : In(p, k, d) <=> k \in {"stop", "join", "disconnect"} /\ d = c
  <2> SUFFICES ASSUME NEW k, NEW d
               PROVE  In(p, k, d) <=> k \in {"stop", "join", "disconnect"} /\ d = c
    OBVIOUS
  <2>1. \A i \in 1 .. 3 : i = 1 \/ i = 2 \/ i = 3
    OBVIOUS
  <2>2. In(p, k, d) => k \in {"stop", "join", "disconnect"} /\ d = c
    BY <1>1, <1>3, <2>1 DEF In
  <2>3. In(p, "stop", c) /\ In(p, "join", c) /\ In(p, "disconnect", c)
    BY <1>1, <1>3 DEF In
  <2>4. QED
    BY <2>2, <2>3
<1>6. QED
  BY <1>2, <1>3, <1>4, <1>5

\* main()'s last steps.
LastSteps == <<Just("stop_sdk"), Just("await_stop"), Just("await_cleanup"),
               Just("uninit"), Just("exit")>>

\* It is in order, and of the kinds of the end.
LEMMA LastHolds ==
    /\ LastSteps \in Seq(Steps) /\ InOrder(LastSteps)
    /\ \A k \in EndKinds : In(LastSteps, k, NoConn)
    /\ \A k, d : In(LastSteps, k, d) => k \in EndKinds
<1> DEFINE v == Just("stop_sdk")
           w == Just("await_stop")
           x == Just("await_cleanup")
           y == Just("uninit")
           z == Just("exit")
           p == <<v, w, x, y, z>>
<1>1. /\ v \in Steps /\ Kind(v) = "stop_sdk" /\ Of(v) = NoConn
      /\ w \in Steps /\ Kind(w) = "await_stop" /\ Of(w) = NoConn
      /\ x \in Steps /\ Kind(x) = "await_cleanup" /\ Of(x) = NoConn
      /\ y \in Steps /\ Kind(y) = "uninit" /\ Of(y) = NoConn
      /\ z \in Steps /\ Kind(z) = "exit" /\ Of(z) = NoConn
  <2>1. /\ "stop_sdk" \in EndKinds /\ "await_stop" \in EndKinds /\ "await_cleanup" \in EndKinds
        /\ "uninit" \in EndKinds /\ "exit" \in EndKinds
    BY DEF EndKinds
  <2>2. QED
    BY <2>1, MadeEnds
<1>2. LastSteps = p
  BY DEF LastSteps
<1> HIDE DEF v, w, x, y, z
<1>3. /\ p \in Seq(Steps) /\ Len(p) = 5
      /\ p[1] = v /\ p[2] = w /\ p[3] = x /\ p[4] = y /\ p[5] = z
  <2>1. v \in Steps /\ w \in Steps /\ x \in Steps /\ y \in Steps /\ z \in Steps
    BY <1>1
  <2>2. p \in Seq(Steps)
    BY <2>1
  <2>3. Len(p) = 5
    OBVIOUS
  <2>4. p[1] = v /\ p[2] = w /\ p[3] = x /\ p[4] = y /\ p[5] = z
    OBVIOUS
  <2>5. QED
    BY <2>2, <2>3, <2>4
<1> HIDE DEF p
<1>4. /\ Kind(p[1]) = "stop_sdk" /\ Kind(p[2]) = "await_stop" /\ Kind(p[3]) = "await_cleanup"
      /\ Kind(p[4]) = "uninit" /\ Kind(p[5]) = "exit"
  BY <1>1, <1>3
<1>5. InOrder(p)
  <2> SUFFICES ASSUME NEW i \in 1 .. 5, NEW j \in 1 .. 5, i < j
               PROVE  MayFollow(Kind(p[i]), Kind(p[j]))
    BY <1>3 DEF InOrder
  <2>1. CASE i = 1
    <3>1. j = 2 \/ j = 3 \/ j = 4 \/ j = 5
      BY <2>1
    <3>2. QED
      BY <1>4, <2>1, <3>1 DEF MayFollow
  <2>2. CASE i = 2
    <3>1. j = 3 \/ j = 4 \/ j = 5
      BY <2>2
    <3>2. QED
      BY <1>4, <2>2, <3>1 DEF MayFollow
  <2>3. CASE i = 3
    <3>1. j = 4 \/ j = 5
      BY <2>3
    <3>2. QED
      BY <1>4, <2>3, <3>1 DEF MayFollow
  <2>4. CASE i = 4
    <3>1. j = 5
      BY <2>4
    <3>2. QED
      BY <1>4, <2>4, <3>1 DEF MayFollow
  <2>5. i = 1 \/ i = 2 \/ i = 3 \/ i = 4
    OBVIOUS
  <2>6. QED
    BY <2>1, <2>2, <2>3, <2>4, <2>5
<1>6. /\ \A k \in EndKinds : In(p, k, NoConn)
      /\ \A k, d : In(p, k, d) => k \in EndKinds
  <2>1. \A i \in 1 .. 5 : i = 1 \/ i = 2 \/ i = 3 \/ i = 4 \/ i = 5
    OBVIOUS
  <2>2. \A i \in 1 .. 5 : Of(p[i]) = NoConn /\ Kind(p[i]) \in EndKinds
    BY <1>1, <1>3, <2>1 DEF EndKinds
  <2>3. \A k, d : In(p, k, d) => k \in EndKinds
    BY <1>3, <2>2 DEF In
  <2>4. /\ In(p, "stop_sdk", NoConn) /\ In(p, "await_stop", NoConn) /\ In(p, "await_cleanup", NoConn)
        /\ In(p, "uninit", NoConn) /\ In(p, "exit", NoConn)
    <3>1. \A i \in 1 .. 5 : In(p, Kind(p[i]), NoConn)
      BY <1>3, <2>2 DEF In
    <3>2. 1 \in 1 .. 5 /\ 2 \in 1 .. 5 /\ 3 \in 1 .. 5 /\ 4 \in 1 .. 5 /\ 5 \in 1 .. 5
      OBVIOUS
    <3>3. QED
      BY <1>4, <3>1, <3>2
  <2>5. QED
    BY <2>3, <2>4 DEF EndKinds
<1>7. QED
  BY <1>2, <1>3, <1>5, <1>6

\* The two plans of a thread and of the worker it creates.
LEMMA PlansSet ==
    ASSUME SessionTypeOK, Planned, NEW t \in Threads, NEW v \in Threads, t # v,
           NEW p \in Seq(Steps), InOrder(p), NEW q \in Seq(Steps), InOrder(q),
           todo' = [todo EXCEPT ![t] = p, ![v] = q]
    PROVE  /\ todo' \in [Threads -> Seq(Steps)] /\ Planned'
           /\ \A k, d : Due(t, k, d)' <=> In(p, k, d)
           /\ \A k, d : Due(v, k, d)' <=> In(q, k, d)
           /\ Others({t, v})
<1>1. todo \in [Threads -> Seq(Steps)]
  BY DEF SessionTypeOK
<1>2. /\ todo' \in [Threads -> Seq(Steps)] /\ todo'[t] = p /\ todo'[v] = q
      /\ \A u \in Threads \ {t, v} : todo'[u] = todo[u]
  BY <1>1
<1>3. Planned'
  BY <1>2 DEF Planned
<1>4. QED
  BY <1>2, <1>3 DEF Due, Others

\* session_finalize() begins.
LEMMA TeardownGoes ==
    ASSUME SessionTypeOK, Planned, NEW t \in Threads, NEW c \in Conns, AtStep(t, "mark"),
           Then(t, Teardown(c))
    PROVE  /\ todo' \in [Threads -> Seq(Steps)] /\ Planned'
           /\ \A k, d : Due(t, k, d)' <=>
                  (k \in {"unlist", "stop", "join", "free"} /\ d = c) \/ (Due(t, k, d) /\ k # "mark")
           /\ Others({t})
<1> DEFINE rest == Tail(todo[t])
           plan == Teardown(c) \o rest
<1>1. "mark" \in (SessionKinds \ ClaimPlaces) \cup RawKinds
  BY DEF SessionKinds, ClaimPlaces
<1>2. ~Idling(t) /\ Kind(Head(todo[t])) = "mark"
  BY <1>1, AtConn
<1>3. /\ rest \in Seq(Steps) /\ InOrder(rest)
      /\ \A k, d : In(rest, k, d) <=> Due(t, k, d) /\ k # "mark"
      /\ \A k, d : Due(t, k, d) /\ k # "mark" => MayFollow("mark", k)
  BY <1>2, PlanFacts
<1>4. todo' = [todo EXCEPT ![t] = plan]
  BY DEF Then
<1> HIDE DEF rest
<1>5. \A k, d : In(rest, k, d) => k \in EndKinds
  BY <1>3 DEF MayFollow
<1>6. /\ plan \in Seq(Steps) /\ InOrder(plan)
      /\ \A k, d : In(plan, k, d) <=>
             (k \in {"unlist", "stop", "join", "free"} /\ d = c) \/ In(rest, k, d)
  BY <1>3, <1>5, TeardownHolds
<1> HIDE DEF plan
<1>7. QED
  BY <1>3, <1>4, <1>6, PlanSet

\* pthread_create() for disconnect_worker_main(), and for raw_disconnect_worker_main().
Launches(t, c) ==
    todo' = [todo EXCEPT ![t] = <<Log(c)>> \o Tail(@), ![Cleaner(c)] = Cleanup(c)]

LaunchesRaw(t, c) ==
    todo' = [todo EXCEPT ![t] = Tail(@), ![Raw(c)] = <<RawDisconnect(c)>>]

\* A worker is created for a session.
LEMMA LaunchGoes ==
    ASSUME SessionTypeOK, Planned, NEW t \in Threads, NEW c \in Conns, AtStep(t, "launch"),
           t # Cleaner(c), Launches(t, c)
    PROVE  /\ todo' \in [Threads -> Seq(Steps)] /\ Planned'
           /\ \A k, d : Due(t, k, d)' <=>
                  (k = "log" /\ d = c) \/ (Due(t, k, d) /\ k # "launch")
           /\ \A k, d : Due(Cleaner(c), k, d)' <=> k \in {"stop", "join", "disconnect"} /\ d = c
           /\ Others({t, Cleaner(c)})
<1> DEFINE rest == Tail(todo[t])
           plan == <<Log(c)>> \o rest
<1>1. "launch" \in (SessionKinds \ ClaimPlaces) \cup RawKinds
  BY DEF SessionKinds, ClaimPlaces
<1>2. ~Idling(t) /\ Kind(Head(todo[t])) = "launch"
  BY <1>1, AtConn
<1>3. /\ rest \in Seq(Steps) /\ InOrder(rest)
      /\ \A k, d : In(rest, k, d) <=> Due(t, k, d) /\ k # "launch"
      /\ \A k, d : Due(t, k, d) /\ k # "launch" => MayFollow("launch", k)
  BY <1>2, PlanFacts
<1>4. todo' = [todo EXCEPT ![t] = plan, ![Cleaner(c)] = Cleanup(c)]
  BY DEF Launches
<1> HIDE DEF rest
<1>5. \A k, d : In(rest, k, d) => MayFollow(Kind(Log(c)), k)
  BY <1>3, MadeSteps DEF MayFollow
<1>6. /\ plan \in Seq(Steps) /\ InOrder(plan)
      /\ \A k, d : In(plan, k, d) <=> (k = "log" /\ d = c) \/ In(rest, k, d)
  BY <1>3, <1>5, MadeSteps, ConsHolds
<1> HIDE DEF plan
<1> DEFINE q == Cleanup(c)
           v == Cleaner(c)
<1>7. v \in Threads
  BY Apart
<1>8. /\ q \in Seq(Steps) /\ InOrder(q)
      /\ \A k, d : In(q, k, d) <=> k \in {"stop", "join", "disconnect"} /\ d = c
  BY CleanupHolds
<1>9. todo' = [todo EXCEPT ![t] = plan, ![v] = q] /\ t # v
  BY <1>4
<1> HIDE DEF q, v
<1>10. /\ todo' \in [Threads -> Seq(Steps)] /\ Planned'
       /\ \A k, d : Due(t, k, d)' <=> In(plan, k, d)
       /\ \A k, d : Due(v, k, d)' <=> In(q, k, d)
       /\ Others({t, v})
  BY <1>6, <1>7, <1>8, <1>9, PlansSet
<1>11. QED
  BY <1>3, <1>6, <1>8, <1>10 DEF v

\* A worker is created for a connection without a session.
LEMMA LaunchRawGoes ==
    ASSUME SessionTypeOK, Planned, NEW t \in Threads, NEW c \in Conns, AtStep(t, "launch_raw"),
           t # Raw(c), LaunchesRaw(t, c)
    PROVE  /\ todo' \in [Threads -> Seq(Steps)] /\ Planned'
           /\ \A k, d : Due(t, k, d)' <=> Due(t, k, d) /\ k # "launch_raw"
           /\ \A k, d : Due(Raw(c), k, d)' <=> k = "raw_disconnect" /\ d = c
           /\ Others({t, Raw(c)})
<1> DEFINE rest == Tail(todo[t])
           q == <<RawDisconnect(c)>>
<1>1. "launch_raw" \in (SessionKinds \ ClaimPlaces) \cup RawKinds
  BY DEF RawKinds
<1>2. ~Idling(t) /\ Kind(Head(todo[t])) = "launch_raw"
  BY <1>1, AtConn
<1>3. /\ rest \in Seq(Steps) /\ InOrder(rest)
      /\ \A k, d : In(rest, k, d) <=> Due(t, k, d) /\ k # "launch_raw"
  BY <1>2, PlanFacts
<1>4. todo' = [todo EXCEPT ![t] = rest, ![Raw(c)] = q]
  BY DEF LaunchesRaw
<1> HIDE DEF rest
<1>5. /\ q \in Seq(Steps) /\ InOrder(q)
      /\ \A k, d : In(q, k, d) <=> k = "raw_disconnect" /\ d = c
  <2> DEFINE x == RawDisconnect(c)
  <2>1. x \in Steps /\ Kind(x) = "raw_disconnect" /\ Of(x) = c
    BY MadeSteps
  <2> HIDE DEF x
  <2>2. /\ <<x>> \in Seq(Steps) /\ InOrder(<<x>>)
        /\ \A k, d : In(<<x>>, k, d) <=> k = Kind(x) /\ d = Of(x)
    BY <2>1, OnePlan
  <2>3. QED
    BY <2>1, <2>2 DEF x
<1> HIDE DEF q
<1>6. Raw(c) \in Threads
  BY Apart
<1>7. QED
  BY <1>3, <1>4, <1>5, <1>6, PlansSet

\* on_conn_accepted() once the session is listed, before another or none.
LEMMA RegisterGoes ==
    ASSUME SessionTypeOK, Planned, NEW t \in Threads, NEW c \in Conns, AtStep(t, "register"),
           Then(t, <<Enable(c)>> \o
                   IF active = 0 THEN <<>> ELSE <<Claim(active, "claim_on_replacement")>>)
    PROVE  /\ todo' \in [Threads -> Seq(Steps)] /\ Planned'
           /\ \A k, d : Due(t, k, d)' <=>
                  \/ k = "enable" /\ d = c
                  \/ k = "claim_on_replacement" /\ d = active /\ active \in Conns
           /\ Others({t})
<1> DEFINE rest  == Tail(todo[t])
           claim == IF active = 0 THEN <<>> ELSE <<Claim(active, "claim_on_replacement")>>
           plan  == <<Enable(c)>> \o claim
<1>1. "register" \in (SessionKinds \ ClaimPlaces) \cup RawKinds
  BY DEF SessionKinds, ClaimPlaces
<1>2. ~Idling(t) /\ Kind(Head(todo[t])) = "register"
  BY <1>1, AtConn
<1>3. /\ todo[t] \in Seq(Steps) /\ todo[t] # <<>> /\ rest \in Seq(Steps)
      /\ \A k, d : In(rest, k, d) <=> Due(t, k, d) /\ k # "register"
      /\ \A k, d : Due(t, k, d) /\ k # "register" => MayFollow("register", k)
  BY <1>2, PlanFacts DEF SessionTypeOK, Idling
<1>4. todo' = [todo EXCEPT ![t] = plan \o rest]
  BY DEF Then
<1> HIDE DEF rest
<1>5. rest = <<>>
  <2>1. \A k, d : ~In(rest, k, d)
    BY <1>3 DEF MayFollow, EndKinds
  <2>2. rest \in Seq(Steps)
    BY <1>3
  <2>3. QED
    BY <2>1, <2>2, NothingIn
<1>6. /\ claim \in Seq(Steps) /\ InOrder(claim)
      /\ \A k, d : In(claim, k, d) <=> k = "claim_on_replacement" /\ d = active /\ active \in Conns
  <2>1. CASE active = 0
    BY <2>1, EmptyPlan, ConnFacts
  <2>2. CASE active # 0
    <3>1. active \in Conns /\ "claim_on_replacement" \in ClaimPlaces
      BY <2>2, ConnFacts DEF SessionTypeOK, ClaimPlaces
    <3> DEFINE x == Claim(active, "claim_on_replacement")
    <3>2. x \in Steps /\ Kind(x) = "claim_on_replacement" /\ Of(x) = active
      BY <3>1, MadeClaims
    <3>3. claim = <<x>>
      BY <2>2
    <3> HIDE DEF x, claim
    <3>4. QED
      BY <3>1, <3>2, <3>3, OnePlan
  <2>3. QED
    BY <2>1, <2>2
<1> HIDE DEF claim
<1>7. /\ Enable(c) \in Steps /\ Kind(Enable(c)) = "enable" /\ Of(Enable(c)) = c
  BY MadeSteps
<1>8. /\ plan \in Seq(Steps) /\ InOrder(plan)
      /\ \A k, d : In(plan, k, d) <=> (k = "enable" /\ d = c) \/ In(claim, k, d)
  <2> DEFINE x == Enable(c)
  <2>1. plan = <<x>> \o claim
    OBVIOUS
  <2>2. x \in Steps /\ Kind(x) = "enable" /\ Of(x) = c
    BY <1>7
  <2> HIDE DEF x, plan
  <2>3. \A k, d : In(claim, k, d) => MayFollow(Kind(x), k)
    BY <1>6, <2>2 DEF MayFollow
  <2>4. QED
    BY <1>6, <2>1, <2>2, <2>3, ConsHolds
<1> HIDE DEF plan
<1>9. todo' = [todo EXCEPT ![t] = plan]
  <2>1. plan \in Seq(Steps)
    BY <1>8
  <2>2. plan \o <<>> = plan
    BY <2>1, NothingMore
  <2>3. QED
    BY <1>4, <1>5, <2>2
<1>10. QED
  BY <1>6, <1>8, <1>9, PlanSet

\* A signal: main() has its last steps to do, and the active session to claim.
LEMMA SignalGoes ==
    ASSUME SessionTypeOK, Planned, todo' = [todo EXCEPT ![Main] = ShutDown(active)]
    PROVE  /\ todo' \in [Threads -> Seq(Steps)] /\ Planned'
           /\ \A k \in EndKinds : Due(Main, k, NoConn)'
           /\ \A k, d : Due(Main, k, d)' =>
                  k \in EndKinds \/ (k = "claim_on_shutdown" /\ d = active /\ active \in Conns)
           /\ Others({Main})
<1> DEFINE plan == ShutDown(active)
<1>1. /\ plan \in Seq(Steps) /\ InOrder(plan)
      /\ \A k \in EndKinds : In(plan, k, NoConn)
      /\ \A k, d : In(plan, k, d) =>
             k \in EndKinds \/ (k = "claim_on_shutdown" /\ d = active /\ active \in Conns)
  <2>1. plan = (IF active = 0 THEN <<>> ELSE <<Claim(active, "claim_on_shutdown")>>) \o LastSteps
    BY DEF ShutDown, LastSteps
  <2>2. CASE active = 0
    <3>1. plan = <<>> \o LastSteps
      BY <2>1, <2>2
    <3>2. plan = LastSteps
      BY <3>1, LastHolds
    <3> HIDE DEF plan
    <3>3. QED
      BY <3>2, LastHolds
  <2>3. CASE active # 0
    <3> DEFINE x == Claim(active, "claim_on_shutdown")
    <3>1. active \in Conns /\ "claim_on_shutdown" \in ClaimPlaces
      BY <2>3, ConnFacts DEF SessionTypeOK, ClaimPlaces
    <3>2. x \in Steps /\ Kind(x) = "claim_on_shutdown" /\ Of(x) = active
      BY <3>1, MadeClaims
    <3>3. plan = <<x>> \o LastSteps
      BY <2>1, <2>3
    <3> HIDE DEF x, plan
    <3>4. \A k, d : In(LastSteps, k, d) => MayFollow(Kind(x), k)
      BY <3>2, LastHolds DEF MayFollow
    <3>5. /\ plan \in Seq(Steps) /\ InOrder(plan)
          /\ \A k, d : In(plan, k, d) <=> (k = Kind(x) /\ d = Of(x)) \/ In(LastSteps, k, d)
      BY <3>2, <3>3, <3>4, LastHolds, ConsHolds
    <3>6. QED
      BY <3>1, <3>2, <3>5, LastHolds
  <2>4. QED
    BY <2>2, <2>3
<1> HIDE DEF plan
<1>2. todo' = [todo EXCEPT ![Main] = plan]
  BY DEF plan
<1>3. Main \in Threads
  BY Apart
<1>4. /\ todo' \in [Threads -> Seq(Steps)] /\ Planned'
      /\ \A k, d : Due(Main, k, d)' <=> In(plan, k, d)
      /\ Others({Main})
  BY <1>1, <1>2, <1>3, PlanSet
<1>5. QED
  BY <1>1, <1>4

\* A thread at rest has nothing to do, and a callback gives it one step.
LEMMA IdleGoes ==
    ASSUME NEW t, Idling(t)
    PROVE  \A k, d : ~Due(t, k, d)
BY EmptyPlan DEF Idling, Due

------------------------------------------------------------------------------
(* A session that changes                                                  *)

\* streaming_enabled is set.
LEMMA EnabledSet ==
    ASSUME SessionTypeOK, NEW c \in Conns,
           session' = [session EXCEPT ![c].enabled = TRUE]
    PROVE  /\ session' \in [Conns -> Session]
           /\ \A d \in Conns :
                  /\ session'[d].memory = session[d].memory
                  /\ session'[d].scheduled <=> session[d].scheduled
                  /\ session'[d].finalized <=> session[d].finalized
                  /\ session'[d].worker = session[d].worker
<1>1. /\ session \in [Conns -> Session] /\ session[c] \in Session
      /\ session' = [session EXCEPT ![c] = [session[c] EXCEPT !.enabled = TRUE]]
  BY DEF SessionTypeOK
<1> DEFINE s == [session[c] EXCEPT !.enabled = TRUE]
<1>2. s \in Session
  BY <1>1 DEF Session
<1>3. /\ s.memory = session[c].memory /\ s.scheduled = session[c].scheduled
      /\ s.finalized = session[c].finalized /\ s.worker = session[c].worker
  BY <1>1 DEF Session
<1> HIDE DEF s
<1>4. session' = [session EXCEPT ![c] = s]
  BY <1>1 DEF s
<1>5. /\ session' \in [Conns -> Session] /\ session'[c] = s
      /\ \A d \in Conns : d # c => session'[d] = session[d]
  BY <1>1, <1>2, <1>4
<1>6. QED
  BY <1>3, <1>5

\* stop_requested is set.
LEMMA StopSet ==
    ASSUME SessionTypeOK, NEW c \in Conns,
           session' = [session EXCEPT ![c].stop = TRUE]
    PROVE  /\ session' \in [Conns -> Session]
           /\ \A d \in Conns :
                  /\ session'[d].memory = session[d].memory
                  /\ session'[d].scheduled <=> session[d].scheduled
                  /\ session'[d].finalized <=> session[d].finalized
                  /\ session'[d].worker = session[d].worker
<1>1. /\ session \in [Conns -> Session] /\ session[c] \in Session
      /\ session' = [session EXCEPT ![c] = [session[c] EXCEPT !.stop = TRUE]]
  BY DEF SessionTypeOK
<1> DEFINE s == [session[c] EXCEPT !.stop = TRUE]
<1>2. s \in Session
  BY <1>1 DEF Session
<1>3. /\ s.memory = session[c].memory /\ s.scheduled = session[c].scheduled
      /\ s.finalized = session[c].finalized /\ s.worker = session[c].worker
  BY <1>1 DEF Session
<1> HIDE DEF s
<1>4. session' = [session EXCEPT ![c] = s]
  BY <1>1 DEF s
<1>5. /\ session' \in [Conns -> Session] /\ session'[c] = s
      /\ \A d \in Conns : d # c => session'[d] = session[d]
  BY <1>1, <1>2, <1>4
<1>6. QED
  BY <1>3, <1>5

\* disconnect_scheduled is set.
LEMMA ScheduledSet ==
    ASSUME SessionTypeOK, NEW c \in Conns,
           session' = [session EXCEPT ![c].scheduled = TRUE]
    PROVE  /\ session' \in [Conns -> Session] /\ session'[c].scheduled
           /\ \A d \in Conns :
                  /\ session'[d].memory = session[d].memory
                  /\ d # c => (session'[d].scheduled <=> session[d].scheduled)
                  /\ session'[d].finalized <=> session[d].finalized
                  /\ session'[d].worker = session[d].worker
<1>1. /\ session \in [Conns -> Session] /\ session[c] \in Session
      /\ session' = [session EXCEPT ![c] = [session[c] EXCEPT !.scheduled = TRUE]]
  BY DEF SessionTypeOK
<1> DEFINE s == [session[c] EXCEPT !.scheduled = TRUE]
<1>2. s \in Session
  BY <1>1 DEF Session
<1>3. /\ s.memory = session[c].memory /\ s.scheduled = TRUE
      /\ s.finalized = session[c].finalized /\ s.worker = session[c].worker
  BY <1>1 DEF Session
<1> HIDE DEF s
<1>4. session' = [session EXCEPT ![c] = s]
  BY <1>1 DEF s
<1>5. /\ session' \in [Conns -> Session] /\ session'[c] = s
      /\ \A d \in Conns : d # c => session'[d] = session[d]
  BY <1>1, <1>2, <1>4
<1>6. QED
  BY <1>3, <1>5

\* finalized is set.
LEMMA FinalizedSet ==
    ASSUME SessionTypeOK, NEW c \in Conns,
           session' = [session EXCEPT ![c].finalized = TRUE]
    PROVE  /\ session' \in [Conns -> Session] /\ session'[c].finalized
           /\ \A d \in Conns :
                  /\ session'[d].memory = session[d].memory
                  /\ session'[d].scheduled <=> session[d].scheduled
                  /\ d # c => (session'[d].finalized <=> session[d].finalized)
                  /\ session'[d].worker = session[d].worker
<1>1. /\ session \in [Conns -> Session] /\ session[c] \in Session
      /\ session' = [session EXCEPT ![c] = [session[c] EXCEPT !.finalized = TRUE]]
  BY DEF SessionTypeOK
<1> DEFINE s == [session[c] EXCEPT !.finalized = TRUE]
<1>2. s \in Session
  BY <1>1 DEF Session
<1>3. /\ s.memory = session[c].memory /\ s.scheduled = session[c].scheduled
      /\ s.finalized = TRUE /\ s.worker = session[c].worker
  BY <1>1 DEF Session
<1> HIDE DEF s
<1>4. session' = [session EXCEPT ![c] = s]
  BY <1>1 DEF s
<1>5. /\ session' \in [Conns -> Session] /\ session'[c] = s
      /\ \A d \in Conns : d # c => session'[d] = session[d]
  BY <1>1, <1>2, <1>4
<1>6. QED
  BY <1>3, <1>5

\* The memory is freed.
LEMMA MemorySet ==
    ASSUME SessionTypeOK, NEW c \in Conns,
           session' = [session EXCEPT ![c].memory = "freed"]
    PROVE  /\ session' \in [Conns -> Session] /\ session'[c].memory = "freed"
           /\ \A d \in Conns :
                  /\ d # c => session'[d].memory = session[d].memory
                  /\ session'[d].scheduled <=> session[d].scheduled
                  /\ session'[d].finalized <=> session[d].finalized
                  /\ session'[d].worker = session[d].worker
<1>1. /\ session \in [Conns -> Session] /\ session[c] \in Session
      /\ session' = [session EXCEPT ![c] = [session[c] EXCEPT !.memory = "freed"]]
  BY DEF SessionTypeOK
<1> DEFINE s == [session[c] EXCEPT !.memory = "freed"]
<1>2. s \in Session
  BY <1>1 DEF Session
<1>3. /\ s.memory = "freed" /\ s.scheduled = session[c].scheduled
      /\ s.finalized = session[c].finalized /\ s.worker = session[c].worker
  BY <1>1 DEF Session
<1> HIDE DEF s
<1>4. session' = [session EXCEPT ![c] = s]
  BY <1>1 DEF s
<1>5. /\ session' \in [Conns -> Session] /\ session'[c] = s
      /\ \A d \in Conns : d # c => session'[d] = session[d]
  BY <1>1, <1>2, <1>4
<1>6. QED
  BY <1>3, <1>5

\* The streamer's thread has ended.
LEMMA WorkerSet ==
    ASSUME SessionTypeOK, NEW c \in Conns,
           session' = [session EXCEPT ![c].worker = "ended"]
    PROVE  /\ session' \in [Conns -> Session] /\ session'[c].worker = "ended"
           /\ \A d \in Conns :
                  /\ session'[d].memory = session[d].memory
                  /\ session'[d].scheduled <=> session[d].scheduled
                  /\ session'[d].finalized <=> session[d].finalized
                  /\ d # c => session'[d].worker = session[d].worker
<1>1. /\ session \in [Conns -> Session] /\ session[c] \in Session
      /\ session' = [session EXCEPT ![c] = [session[c] EXCEPT !.worker = "ended"]]
  BY DEF SessionTypeOK
<1> DEFINE s == [session[c] EXCEPT !.worker = "ended"]
<1>2. s \in Session
  BY <1>1 DEF Session
<1>3. /\ s.memory = session[c].memory /\ s.scheduled = session[c].scheduled
      /\ s.finalized = session[c].finalized /\ s.worker = "ended"
  BY <1>1 DEF Session
<1> HIDE DEF s
<1>4. session' = [session EXCEPT ![c] = s]
  BY <1>1 DEF s
<1>5. /\ session' \in [Conns -> Session] /\ session'[c] = s
      /\ \A d \in Conns : d # c => session'[d] = session[d]
  BY <1>1, <1>2, <1>4
<1>6. QED
  BY <1>3, <1>5

------------------------------------------------------------------------------
(* What each step of a thread keeps                                        *)

\* A thread at a step of a session's goes on to what comes next.
LEMMA CarryAt ==
    ASSUME SessionTypeOK, Planned, NEW t \in Threads,
           NEW what \in (SessionKinds \ ClaimPlaces) \cup RawKinds, AtStep(t, what), Carry(t)
    PROVE  /\ todo' \in [Threads -> Seq(Steps)] /\ Planned'
           /\ \A u \in Threads : \A k, d :
                  Due(u, k, d)' <=> Due(u, k, d) /\ ~(u = t /\ k = what)
<1>1. ~Idling(t) /\ Kind(Head(todo[t])) = what
  BY AtConn
<1>2. /\ todo' \in [Threads -> Seq(Steps)] /\ Planned'
      /\ \A k, c : Due(t, k, c)' <=> Due(t, k, c) /\ k # Kind(Head(todo[t]))
      /\ Others({t})
  BY <1>1, CarryGoes
<1>3. QED
  BY <1>1, <1>2 DEF Others

\* Nothing changes but, maybe, the fate of the process.
LEMMA FateKept ==
    ASSUME Kept, fate' \in Fates, UNCHANGED <<active, live, session, link, sdk, todo, fails>>
    PROVE  Kept'
<1>1. SessionTypeOK'
  BY DEF Kept, SessionTypeOK
<1>2. Planned' /\ Assigned' /\ Whole' /\ Onward'
  BY DEF Kept, Planned, Assigned, Whole, Onward, Due
<1>3. Handed' /\ Referred'
  BY DEF Kept, Handed, Holds, Closing, Referred, Due
<1>4. Worked' /\ Failing'
  BY DEF Kept, Worked, Failing, Closing, Due
<1>5. Ending' /\ Counted'
  BY DEF Kept, Ending, Leaving, InTime, Counted, OnList, Due
<1>6. QED
  BY <1>1, <1>2, <1>3, <1>4, <1>5 DEF Kept

\* The process is lost, and the rest is as it was.
LEMMA LostKept ==
    ASSUME Kept, NEW where \in Places, Lost(where)
    PROVE  Kept'
BY FateKept DEF Lost, Fates

\* What is on the list stays.
LEMMA ListKept ==
    ASSUME Counted, UNCHANGED <<active, live>>,
           \A d \in Conns : OnList(d)' <=> OnList(d)
    PROVE  Counted'
<1>1. {d \in Conns : OnList(d)'} = {d \in Conns : OnList(d)}
  OBVIOUS
<1>2. QED
  BY <1>1 DEF Counted

\* A thread at a step of a session's has another to do in its place.
LEMMA ThenAt ==
    ASSUME SessionTypeOK, Planned, NEW t \in Threads,
           NEW what \in (SessionKinds \ ClaimPlaces) \cup RawKinds, AtStep(t, what),
           NEW x \in Steps, Then(t, <<x>>),
           \A k, d : Due(t, k, d) /\ k # what => MayFollow(Kind(x), k)
    PROVE  /\ todo' \in [Threads -> Seq(Steps)] /\ Planned'
           /\ \A u \in Threads : \A k, d :
                  Due(u, k, d)' <=> \/ u = t /\ k = Kind(x) /\ d = Of(x)
                                    \/ Due(u, k, d) /\ ~(u = t /\ k = what)
<1>1. ~Idling(t) /\ Kind(Head(todo[t])) = what
  BY AtConn
<1>2. /\ todo' \in [Threads -> Seq(Steps)] /\ Planned'
      /\ \A k, c : Due(t, k, c)' <=>
             (k = Kind(x) /\ c = Of(x)) \/ (Due(t, k, c) /\ k # Kind(Head(todo[t])))
      /\ Others({t})
  BY <1>1, ThenGoes
<1>3. QED
  BY <1>1, <1>2 DEF Others

\* A callback gives the SDK's thread one step to do.
Called(x) == todo' = [todo EXCEPT ![Sdk] = <<x>>]

\* What every thread then has.
LEMMA CallGoes ==
    ASSUME SessionTypeOK, Planned, Idling(Sdk), NEW x \in Steps, Called(x)
    PROVE  /\ todo' \in [Threads -> Seq(Steps)] /\ Planned'
           /\ \A k, d : ~Due(Sdk, k, d)
           /\ \A u \in Threads : \A k, d :
                  Due(u, k, d)' <=> Due(u, k, d) \/ (u = Sdk /\ k = Kind(x) /\ d = Of(x))
<1>1. /\ <<x>> \in Seq(Steps) /\ InOrder(<<x>>)
      /\ \A k, d : In(<<x>>, k, d) <=> k = Kind(x) /\ d = Of(x)
  BY OnePlan
<1> DEFINE plan == <<x>>
<1>2. todo' = [todo EXCEPT ![Sdk] = plan]
  BY DEF Called
<1> HIDE DEF plan
<1>3. /\ todo' \in [Threads -> Seq(Steps)] /\ Planned'
      /\ \A k, c : Due(Sdk, k, c)' <=> In(plan, k, c)
      /\ Others({Sdk})
  BY <1>1, <1>2, PlanSet, Apart DEF plan
<1>4. \A k, d : ~Due(Sdk, k, d)
  BY IdleGoes
<1>5. QED
  BY <1>1, <1>3, <1>4 DEF Others, plan

\* A callback that leaves it with nothing.
LEMMA CallEnds ==
    ASSUME SessionTypeOK, Planned, Idling(Sdk), todo' = [todo EXCEPT ![Sdk] = <<>>]
    PROVE  /\ todo' \in [Threads -> Seq(Steps)] /\ Planned'
           /\ \A k, d : ~Due(Sdk, k, d)
           /\ \A u \in Threads : \A k, d : Due(u, k, d)' <=> Due(u, k, d)
<1>1. \A k, d : ~Due(Sdk, k, d)
  BY IdleGoes
<1>2. todo' = todo
  BY DEF SessionTypeOK, Idling
<1>3. QED
  BY <1>1, <1>2 DEF SessionTypeOK, Planned, Due

\* A thread at a claim goes on.
LEMMA CarryClaim ==
    ASSUME SessionTypeOK, Planned, NEW t \in Threads, AtStep(t, "claim"), Carry(t)
    PROVE  /\ todo' \in [Threads -> Seq(Steps)] /\ Planned'
           /\ \A u \in Threads : \A k, d :
                  Due(u, k, d)' <=> Due(u, k, d) /\ ~(u = t /\ k = Head(todo[t]).where)
<1>1. ~Idling(t) /\ Kind(Head(todo[t])) = Head(todo[t]).where
  BY AtClaim
<1>2. /\ todo' \in [Threads -> Seq(Steps)] /\ Planned'
      /\ \A k, c : Due(t, k, c)' <=> Due(t, k, c) /\ k # Kind(Head(todo[t]))
      /\ Others({t})
  BY <1>1, CarryGoes
<1>3. QED
  BY <1>1, <1>2 DEF Others

\* A thread at a claim goes on to create the worker.
LEMMA ThenClaim ==
    ASSUME SessionTypeOK, Planned, NEW t \in Threads, AtStep(t, "claim"),
           Then(t, <<Launch(ConnOf(t))>>)
    PROVE  /\ todo' \in [Threads -> Seq(Steps)] /\ Planned'
           /\ \A u \in Threads : \A k, d :
                  Due(u, k, d)' <=> \/ u = t /\ k = "launch" /\ d = ConnOf(t)
                                    \/ Due(u, k, d) /\ ~(u = t /\ k = Head(todo[t]).where)
<1> DEFINE w == Head(todo[t]).where
           x == Launch(ConnOf(t))
<1>1. /\ ~Idling(t) /\ Kind(Head(todo[t])) = w /\ w \in ClaimPlaces /\ ConnOf(t) \in Conns
      /\ \A k, d : Due(t, k, d) /\ k # w => MayFollow(w, k)
  BY AtClaim
<1>2. x \in Steps /\ Kind(x) = "launch" /\ Of(x) = ConnOf(t)
  BY <1>1, MadeSteps
<1>3. Then(t, <<x>>)
  OBVIOUS
<1> HIDE DEF w, x
<1>4. \A k, d : Due(t, k, d) /\ k # w => k \in EndKinds
  BY <1>1 DEF MayFollow, ClaimPlaces
<1>5. \A k, d : Due(t, k, d) /\ k # Kind(Head(todo[t])) => MayFollow(Kind(x), k)
  BY <1>1, <1>2, <1>4 DEF MayFollow
<1>6. /\ todo' \in [Threads -> Seq(Steps)] /\ Planned'
      /\ \A k, c : Due(t, k, c)' <=>
             (k = Kind(x) /\ c = Of(x)) \/ (Due(t, k, c) /\ k # Kind(Head(todo[t])))
      /\ Others({t})
  BY <1>1, <1>2, <1>3, <1>5, ThenGoes
<1>7. QED
  BY <1>1, <1>2, <1>6 DEF Others, w

\* A thread with a step of a session's to do.
LEMMA AtWork ==
    ASSUME Kept, NEW t \in Threads, NEW c \in Conns, NEW k \in SessionKinds, Due(t, k, c)
    PROVE  /\ session[c].memory # "none" /\ link[c] # "none"
           /\ t = Main => /\ Due(Main, "exit", NoConn) /\ Due(Main, "stop_sdk", NoConn)
                          /\ active # c /\ sdk = "running"
                          /\ ~Due(Sdk, "register", c) /\ ~Due(Sdk, "claim_on_replacement", c)
<1>1. session[c].memory # "none" /\ link[c] # "none"
  BY DEF Kept, Referred
<1>2. ASSUME t = Main
      PROVE  /\ Due(Main, "exit", NoConn) /\ Due(Main, "stop_sdk", NoConn)
             /\ active # c /\ sdk = "running"
             /\ ~Due(Sdk, "register", c) /\ ~Due(Sdk, "claim_on_replacement", c)
  <2>1. k \in Kinds /\ c \in ConnOrNone
    BY ConnFacts DEF Kinds
  <2>2. Due(Main, "exit", NoConn) /\ Due(Main, "stop_sdk", NoConn)
    BY <1>2, <2>1 DEF Kept, Onward
  <2>3. sdk = "running"
    BY <2>2 DEF Kept, Ending
  <2>4. active # c /\ ~Due(Sdk, "register", c) /\ ~Due(Sdk, "claim_on_replacement", c)
    BY <1>2 DEF Kept, Referred, Failing
  <2>5. QED
    BY <2>2, <2>3, <2>4
<1>3. QED
  BY <1>1, <1>2

\* device_demo_streamer_stop(), the join.
LEMMA JoinStep ==
    ASSUME Kept, NEW t \in Threads, NEW c, c = ConnOf(t), AtStep(t, "join"), Carry(t),
           session[c].worker = "ended",
           UNCHANGED <<active, live, session, link, sdk, fails, fate>>
    PROVE  Kept'
<1>0. "join" \in (SessionKinds \ ClaimPlaces) \cup RawKinds
  BY DEF SessionKinds, RawKinds, ClaimPlaces
<1>1. /\ c \in Conns /\ Due(t, "join", c) /\ \A d : Due(t, "join", d) => d = c
  BY <1>0, AtConn DEF Kept
<1>m. \A k, d : Due(t, k, d) /\ k # "join" => MayFollow("join", k)
  BY <1>0, AtConn DEF Kept
<1>2. /\ todo' \in [Threads -> Seq(Steps)] /\ Planned'
      /\ \A u \in Threads : \A k, d :
             Due(u, k, d)' <=> Due(u, k, d) /\ ~(u = t /\ k = "join")
  BY <1>0, CarryAt DEF Kept
<1>3. session[c].worker = "ended"
  OBVIOUS
<1>4. \A k, d : Due(t, k, d) => k # "unlist" /\ k # "stop"
  BY <1>m DEF MayFollow, EndKinds
<1>5. SessionTypeOK'
  BY <1>1, <1>2, <1>3, <1>4, Apart DEF Kept, SessionTypeOK, Session
<1>6. Assigned'
  BY <1>1, <1>2, <1>3, <1>4, Apart DEF Kept, Assigned
<1>7. Whole'
  BY <1>1, <1>2, <1>3, <1>4, Apart DEF Kept, Whole
<1>8. Onward'
  BY <1>1, <1>2, <1>3, <1>4, Apart DEF Kept, Onward
<1>9. Handed'
  BY <1>1, <1>2, <1>3, <1>4, Apart DEF Kept, Handed, Holds, Closing
<1>10. Referred'
  BY <1>1, <1>2, <1>3, <1>4, Apart DEF Kept, Referred
<1>11. Worked'
  BY <1>1, <1>2, <1>3, <1>4, Apart DEF Kept, Worked, Closing
<1>12. Ending'
  BY <1>1, <1>2, <1>3, <1>4, Apart DEF Kept, Ending, Leaving, InTime
<1>13. Failing'
  BY <1>1, <1>2, <1>3, <1>4, Apart DEF Kept, Failing
<1>14. Counted'
  BY <1>1, <1>2, <1>3, <1>4, Apart DEF Kept, Counted, OnList
<1>15. QED
  BY <1>2, <1>5, <1>6, <1>7, <1>8, <1>9, <1>10, <1>11, <1>12, <1>13, <1>14 DEF Kept

\* A thread writes the line about what it scheduled.
LEMMA LogStep ==
    ASSUME Kept, NEW t \in Threads, NEW c, c = ConnOf(t), AtStep(t, "log"), Carry(t),
           UNCHANGED <<active, live, session, link, sdk, fails, fate>>
    PROVE  Kept'
<1>0. "log" \in (SessionKinds \ ClaimPlaces) \cup RawKinds
  BY DEF SessionKinds, RawKinds, ClaimPlaces
<1>1. /\ c \in Conns /\ Due(t, "log", c) /\ \A d : Due(t, "log", d) => d = c
  BY <1>0, AtConn DEF Kept
<1>m. \A k, d : Due(t, k, d) /\ k # "log" => MayFollow("log", k)
  BY <1>0, AtConn DEF Kept
<1>2. /\ todo' \in [Threads -> Seq(Steps)] /\ Planned'
      /\ \A u \in Threads : \A k, d :
             Due(u, k, d)' <=> Due(u, k, d) /\ ~(u = t /\ k = "log")
  BY <1>0, CarryAt DEF Kept
<1>3. \A k, d : Due(t, k, d) => k \in {"log"} \cup EndKinds
  BY <1>m DEF MayFollow
<1>4. SessionTypeOK'
  BY <1>1, <1>2, <1>3, Apart DEF Kept, SessionTypeOK, Session
<1>5. Assigned'
  BY <1>1, <1>2, <1>3, Apart DEF Kept, Assigned
<1>6. Whole'
  BY <1>1, <1>2, <1>3, Apart DEF Kept, Whole
<1>7. Onward'
  BY <1>1, <1>2, <1>3, Apart DEF Kept, Onward
<1>8. Handed'
  BY <1>1, <1>2, <1>3, Apart DEF Kept, Handed, Holds, Closing
<1>9. Referred'
  BY <1>1, <1>2, <1>3, Apart DEF Kept, Referred
<1>10. Worked'
  BY <1>1, <1>2, <1>3, Apart DEF Kept, Worked, Closing
<1>11. Ending'
  BY <1>1, <1>2, <1>3, Apart DEF Kept, Ending, Leaving, InTime
<1>12. Failing'
  BY <1>1, <1>2, <1>3, Apart DEF Kept, Failing
<1>13. Counted'
  BY <1>1, <1>2, <1>3, Apart DEF Kept, Counted, OnList
<1>14. QED
  BY <1>2, <1>4, <1>5, <1>6, <1>7, <1>8, <1>9, <1>10, <1>11, <1>12, <1>13 DEF Kept

\* device_demo_streamer_set_streaming_enabled().
LEMMA EnableStep ==
    ASSUME Kept, NEW t \in Threads, NEW c, c = ConnOf(t), AtStep(t, "enable"), Carry(t),
           session' = [session EXCEPT ![c].enabled = TRUE],
           UNCHANGED <<active, live, link, sdk, fails, fate>>
    PROVE  Kept'
<1>0. "enable" \in (SessionKinds \ ClaimPlaces) \cup RawKinds
  BY DEF SessionKinds, RawKinds, ClaimPlaces
<1>1. /\ c \in Conns /\ Due(t, "enable", c) /\ \A d : Due(t, "enable", d) => d = c
  BY <1>0, AtConn DEF Kept
<1>m. \A k, d : Due(t, k, d) /\ k # "enable" => MayFollow("enable", k)
  BY <1>0, AtConn DEF Kept
<1>2. /\ todo' \in [Threads -> Seq(Steps)] /\ Planned'
      /\ \A u \in Threads : \A k, d :
             Due(u, k, d)' <=> Due(u, k, d) /\ ~(u = t /\ k = "enable")
  BY <1>0, CarryAt DEF Kept
<1>3. /\ session' \in [Conns -> Session]
      /\ \A d \in Conns :
             /\ session'[d].memory = session[d].memory
             /\ session'[d].scheduled <=> session[d].scheduled
             /\ session'[d].finalized <=> session[d].finalized
             /\ session'[d].worker = session[d].worker
  BY <1>1, EnabledSet DEF Kept
<1>4. \A k, d : Due(t, k, d) => k \in {"enable", "claim_on_replacement"}
  BY <1>m DEF MayFollow, EndKinds
<1>5. SessionTypeOK'
  BY <1>1, <1>2, <1>3, <1>4, Apart DEF Kept, SessionTypeOK, Session
<1>6. Assigned'
  BY <1>1, <1>2, <1>3, <1>4, Apart DEF Kept, Assigned
<1>7. Whole'
  BY <1>1, <1>2, <1>3, <1>4, Apart DEF Kept, Whole
<1>8. Onward'
  BY <1>1, <1>2, <1>3, <1>4, Apart DEF Kept, Onward
<1>9. Handed'
  BY <1>1, <1>2, <1>3, <1>4, Apart DEF Kept, Handed, Holds, Closing
<1>10. Referred'
  BY <1>1, <1>2, <1>3, <1>4, Apart DEF Kept, Referred
<1>11. Worked'
  BY <1>1, <1>2, <1>3, <1>4, Apart DEF Kept, Worked, Closing
<1>12. Ending'
  BY <1>1, <1>2, <1>3, <1>4, Apart DEF Kept, Ending, Leaving, InTime
<1>13. Failing'
  BY <1>1, <1>2, <1>3, <1>4, Apart DEF Kept, Failing
<1>14. Counted'
  <2>1. \A d \in Conns : OnList(d)' <=> OnList(d)
    BY <1>1, <1>2, <1>3, <1>4, Apart DEF OnList
  <2>2. QED
    BY <2>1, ListKept DEF Kept
<1>15. QED
  BY <1>2, <1>5, <1>6, <1>7, <1>8, <1>9, <1>10, <1>11, <1>12, <1>13, <1>14 DEF Kept

\* device_demo_streamer_stop(), the request.
LEMMA StopStep ==
    ASSUME Kept, NEW t \in Threads, NEW c, c = ConnOf(t), AtStep(t, "stop"), Carry(t),
           session' = [session EXCEPT ![c].stop = TRUE],
           UNCHANGED <<active, live, link, sdk, fails, fate>>
    PROVE  Kept'
<1>0. "stop" \in (SessionKinds \ ClaimPlaces) \cup RawKinds
  BY DEF SessionKinds, RawKinds, ClaimPlaces
<1>1. /\ c \in Conns /\ Due(t, "stop", c) /\ \A d : Due(t, "stop", d) => d = c
  BY <1>0, AtConn DEF Kept
<1>m. \A k, d : Due(t, k, d) /\ k # "stop" => MayFollow("stop", k)
  BY <1>0, AtConn DEF Kept
<1>2. /\ todo' \in [Threads -> Seq(Steps)] /\ Planned'
      /\ \A u \in Threads : \A k, d :
             Due(u, k, d)' <=> Due(u, k, d) /\ ~(u = t /\ k = "stop")
  BY <1>0, CarryAt DEF Kept
<1>3. /\ session' \in [Conns -> Session]
      /\ \A d \in Conns :
             /\ session'[d].memory = session[d].memory
             /\ session'[d].scheduled <=> session[d].scheduled
             /\ session'[d].finalized <=> session[d].finalized
             /\ session'[d].worker = session[d].worker
  BY <1>1, StopSet DEF Kept
<1>4. \A k, d : Due(t, k, d) => k # "unlist"
  BY <1>m DEF MayFollow, EndKinds
<1>5. SessionTypeOK'
  BY <1>1, <1>2, <1>3, <1>4, Apart DEF Kept, SessionTypeOK, Session
<1>6. Assigned'
  BY <1>1, <1>2, <1>3, <1>4, Apart DEF Kept, Assigned
<1>7. Whole'
  <2>1. QED
    BY <1>2, <1>4, Apart DEF Kept, Whole
<1>8. Onward'
  BY <1>1, <1>2, <1>3, <1>4, Apart DEF Kept, Onward
<1>9. Handed'
  BY <1>1, <1>2, <1>3, <1>4, Apart DEF Kept, Handed, Holds, Closing
<1>10. Referred'
  BY <1>1, <1>2, <1>3, <1>4, Apart DEF Kept, Referred
<1>11. Worked'
  BY <1>1, <1>2, <1>3, <1>4, Apart DEF Kept, Worked, Closing
<1>12. Ending'
  BY <1>1, <1>2, <1>3, <1>4, Apart DEF Kept, Ending, Leaving, InTime
<1>13. Failing'
  BY <1>1, <1>2, <1>3, <1>4, Apart DEF Kept, Failing
<1>14. Counted'
  <2>1. \A d \in Conns : OnList(d)' <=> OnList(d)
    BY <1>1, <1>2, <1>3, <1>4, Apart DEF OnList
  <2>2. QED
    BY <2>1, ListKept DEF Kept
<1>15. QED
  BY <1>2, <1>5, <1>6, <1>7, <1>8, <1>9, <1>10, <1>11, <1>12, <1>13, <1>14 DEF Kept

\* raw_disconnect_worker_main(), refused.
LEMMA RawStep ==
    ASSUME Kept, NEW t \in Threads, NEW c, c = ConnOf(t), AtStep(t, "raw_disconnect"), Carry(t),
           UNCHANGED <<active, live, session, link, sdk, fails, fate>>
    PROVE  Kept'
<1>0. "raw_disconnect" \in (SessionKinds \ ClaimPlaces) \cup RawKinds
  BY DEF SessionKinds, RawKinds, ClaimPlaces
<1>1. /\ c \in Conns /\ Due(t, "raw_disconnect", c) /\ \A d : Due(t, "raw_disconnect", d) => d = c
  BY <1>0, AtConn DEF Kept
<1>m. \A k, d : Due(t, k, d) /\ k # "raw_disconnect" => MayFollow("raw_disconnect", k)
  BY <1>0, AtConn DEF Kept
<1>2. /\ todo' \in [Threads -> Seq(Steps)] /\ Planned'
      /\ \A u \in Threads : \A k, d :
             Due(u, k, d)' <=> Due(u, k, d) /\ ~(u = t /\ k = "raw_disconnect")
  BY <1>0, CarryAt DEF Kept
<1>3. \A k, d : Due(t, k, d) => k = "raw_disconnect"
  BY <1>m DEF MayFollow, EndKinds
<1>4. SessionTypeOK'
  BY <1>1, <1>2, <1>3, Apart DEF Kept, SessionTypeOK, Session
<1>5. Assigned'
  BY <1>1, <1>2, <1>3, Apart DEF Kept, Assigned
<1>6. Whole'
  BY <1>1, <1>2, <1>3, Apart DEF Kept, Whole
<1>7. Onward'
  BY <1>1, <1>2, <1>3, Apart DEF Kept, Onward
<1>8. Handed'
  BY <1>1, <1>2, <1>3, Apart DEF Kept, Handed, Holds, Closing
<1>9. Referred'
  BY <1>1, <1>2, <1>3, Apart DEF Kept, Referred
<1>10. Worked'
  BY <1>1, <1>2, <1>3, Apart DEF Kept, Worked, Closing
<1>11. Ending'
  BY <1>1, <1>2, <1>3, Apart DEF Kept, Ending, Leaving, InTime
<1>12. Failing'
  BY <1>1, <1>2, <1>3, Apart DEF Kept, Failing
<1>13. Counted'
  BY <1>1, <1>2, <1>3, Apart DEF Kept, Counted, OnList
<1>14. QED
  BY <1>2, <1>4, <1>5, <1>6, <1>7, <1>8, <1>9, <1>10, <1>11, <1>12, <1>13 DEF Kept

\* raw_disconnect_worker_main(), taken.
LEMMA RawTakenStep ==
    ASSUME Kept, NEW t \in Threads, NEW c, c = ConnOf(t), AtStep(t, "raw_disconnect"), Carry(t),
           link' = [link EXCEPT ![c] = "closing"],
           UNCHANGED <<active, live, session, sdk, fails, fate>>
    PROVE  Kept'
<1>0. "raw_disconnect" \in (SessionKinds \ ClaimPlaces) \cup RawKinds
  BY DEF SessionKinds, RawKinds, ClaimPlaces
<1>1. /\ c \in Conns /\ Due(t, "raw_disconnect", c) /\ \A d : Due(t, "raw_disconnect", d) => d = c
  BY <1>0, AtConn DEF Kept
<1>m. \A k, d : Due(t, k, d) /\ k # "raw_disconnect" => MayFollow("raw_disconnect", k)
  BY <1>0, AtConn DEF Kept
<1>2. /\ todo' \in [Threads -> Seq(Steps)] /\ Planned'
      /\ \A u \in Threads : \A k, d :
             Due(u, k, d)' <=> Due(u, k, d) /\ ~(u = t /\ k = "raw_disconnect")
  BY <1>0, CarryAt DEF Kept
<1>3. \A k, d : Due(t, k, d) => k = "raw_disconnect"
  BY <1>m DEF MayFollow, EndKinds
<1>4. /\ link' \in [Conns -> {"none", "open", "broken", "closing", "closed"}]
      /\ link'[c] = "closing" /\ \A d \in Conns : d # c => link'[d] = link[d]
      /\ session[c].memory = "none" /\ ~session[c].finalized
      /\ \A u \in Threads : ~Due(u, "mark", c)
  BY <1>1 DEF Kept, SessionTypeOK, Referred, Assigned, Handed, SessionKinds
<1>5. SessionTypeOK'
  BY <1>1, <1>2, <1>3, <1>4, Apart DEF Kept, SessionTypeOK, Session
<1>6. Assigned'
  BY <1>1, <1>2, <1>3, <1>4, Apart DEF Kept, Assigned
<1>7. Whole'
  BY <1>1, <1>2, <1>3, <1>4, Apart DEF Kept, Whole
<1>8. Onward'
  BY <1>1, <1>2, <1>3, <1>4, Apart DEF Kept, Onward
<1>9. Handed'
  BY <1>1, <1>2, <1>3, <1>4, Apart DEF Kept, Handed, Holds, Closing
<1>10. Referred'
  BY <1>1, <1>2, <1>3, <1>4, Apart DEF Kept, Referred
<1>11. Worked'
  BY <1>1, <1>2, <1>3, <1>4, Apart DEF Kept, Worked, Closing
<1>12. Ending'
  BY <1>1, <1>2, <1>3, <1>4, Apart DEF Kept, Ending, Leaving, InTime
<1>13. Failing'
  BY <1>1, <1>2, <1>3, <1>4, Apart DEF Kept, Failing
<1>14. Counted'
  BY <1>1, <1>2, <1>3, <1>4, Apart DEF Kept, Counted, OnList
<1>15. QED
  BY <1>2, <1>5, <1>6, <1>7, <1>8, <1>9, <1>10, <1>11, <1>12, <1>13, <1>14 DEF Kept

\* schedule_raw_disconnect(), without a thread.
LEMMA RawRefusedStep ==
    ASSUME Kept, NEW t \in Threads, NEW c, c = ConnOf(t), AtStep(t, "launch_raw"), Carry(t),
           UNCHANGED <<active, live, session, link, sdk, fails, fate>>
    PROVE  Kept'
<1>0. "launch_raw" \in (SessionKinds \ ClaimPlaces) \cup RawKinds
  BY DEF SessionKinds, RawKinds, ClaimPlaces
<1>1. /\ c \in Conns /\ Due(t, "launch_raw", c) /\ \A d : Due(t, "launch_raw", d) => d = c
  BY <1>0, AtConn DEF Kept
<1>m. \A k, d : Due(t, k, d) /\ k # "launch_raw" => MayFollow("launch_raw", k)
  BY <1>0, AtConn DEF Kept
<1>2. /\ todo' \in [Threads -> Seq(Steps)] /\ Planned'
      /\ \A u \in Threads : \A k, d :
             Due(u, k, d)' <=> Due(u, k, d) /\ ~(u = t /\ k = "launch_raw")
  BY <1>0, CarryAt DEF Kept
<1>3. \A k, d : Due(t, k, d) => k = "launch_raw"
  BY <1>m DEF MayFollow, EndKinds
<1>4. SessionTypeOK'
  BY <1>1, <1>2, <1>3, Apart DEF Kept, SessionTypeOK, Session
<1>5. Assigned'
  BY <1>1, <1>2, <1>3, Apart DEF Kept, Assigned
<1>6. Whole'
  BY <1>1, <1>2, <1>3, Apart DEF Kept, Whole
<1>7. Onward'
  BY <1>1, <1>2, <1>3, Apart DEF Kept, Onward
<1>8. Handed'
  BY <1>1, <1>2, <1>3, Apart DEF Kept, Handed, Holds, Closing
<1>9. Referred'
  BY <1>1, <1>2, <1>3, Apart DEF Kept, Referred
<1>10. Worked'
  BY <1>1, <1>2, <1>3, Apart DEF Kept, Worked, Closing
<1>11. Ending'
  BY <1>1, <1>2, <1>3, Apart DEF Kept, Ending, Leaving, InTime
<1>12. Failing'
  BY <1>1, <1>2, <1>3, Apart DEF Kept, Failing
<1>13. Counted'
  BY <1>1, <1>2, <1>3, Apart DEF Kept, Counted, OnList
<1>14. QED
  BY <1>2, <1>4, <1>5, <1>6, <1>7, <1>8, <1>9, <1>10, <1>11, <1>12, <1>13 DEF Kept

\* device_demo_streamer_destroy() frees, and session_finalize() ends.
LEMMA FreeStep ==
    ASSUME Kept, NEW t \in Threads, NEW c, c = ConnOf(t), AtStep(t, "free"), Carry(t),
           session' = [session EXCEPT ![c].memory = "freed"],
           UNCHANGED <<active, live, link, sdk, fails, fate>>
    PROVE  Kept'
<1>0. "free" \in (SessionKinds \ ClaimPlaces) \cup RawKinds
  BY DEF SessionKinds, RawKinds, ClaimPlaces
<1>1. /\ c \in Conns /\ Due(t, "free", c) /\ \A d : Due(t, "free", d) => d = c
  BY <1>0, AtConn DEF Kept
<1>m. \A k, d : Due(t, k, d) /\ k # "free" => MayFollow("free", k)
  BY <1>0, AtConn DEF Kept
<1>2. /\ todo' \in [Threads -> Seq(Steps)] /\ Planned'
      /\ \A u \in Threads : \A k, d :
             Due(u, k, d)' <=> Due(u, k, d) /\ ~(u = t /\ k = "free")
  BY <1>0, CarryAt DEF Kept
<1>3. /\ session' \in [Conns -> Session] /\ session'[c].memory = "freed"
      /\ \A d \in Conns :
             /\ d # c => session'[d].memory = session[d].memory
             /\ session'[d].scheduled <=> session[d].scheduled
             /\ session'[d].finalized <=> session[d].finalized
             /\ session'[d].worker = session[d].worker
  BY <1>1, MemorySet DEF Kept
<1>4. \A k, d : Due(t, k, d) => k \in {"free"} \cup EndKinds
  BY <1>m DEF MayFollow
<1>5. /\ session[c].memory = "held" /\ session[c].finalized /\ session[c].scheduled
      /\ session[c].worker = "ended" /\ ~Due(Sdk, "register", c)
      /\ \A u \in Threads : (Due(u, "free", c) => u = t) /\ ~Due(u, "unlist", c)
  <2>1. ~Due(t, "unlist", c) /\ ~Due(t, "join", c)
    BY <1>4 DEF EndKinds
  <2>2. session[c].memory = "held" /\ session[c].finalized
    BY <1>1 DEF Kept, Handed
  <2>3. \A u \in Threads : Due(u, "free", c) => u = t
    BY <1>1 DEF Kept, Handed
  <2>4. session[c].scheduled /\ session[c].worker = "ended"
    BY <1>1, <2>1, <2>2 DEF Kept, Handed, Worked
  <2>5. ~Due(Sdk, "register", c)
    BY <1>1, <2>4 DEF Kept, Referred
  <2>6. \A u \in Threads : ~Due(u, "unlist", c)
    BY <1>1, <2>1, <2>3 DEF Kept, Whole
  <2>7. QED
    BY <2>2, <2>3, <2>4, <2>5, <2>6
<1>6. \A d : ~Due(t, "unlist", d) /\ ~Due(t, "join", d) /\ ~Due(t, "stop", d)
  BY <1>4 DEF EndKinds
<1>7. SessionTypeOK'
  BY <1>1, <1>2, <1>3, <1>4, <1>5, <1>6, Apart DEF Kept, SessionTypeOK, Session
<1>8. Assigned'
  BY <1>1, <1>2, <1>3, <1>4, <1>5, <1>6, Apart DEF Kept, Assigned
<1>9. Whole'
  <2>1. QED
    BY <1>2, <1>6, Apart DEF Kept, Whole
<1>10. Onward'
  BY <1>1, <1>2, <1>3, <1>4, <1>5, <1>6, Apart DEF Kept, Onward
<1>11. Handed'
  BY <1>1, <1>2, <1>3, <1>4, <1>5, <1>6, Apart DEF Kept, Handed, Holds, Closing
<1>12. Referred'
  BY <1>1, <1>2, <1>3, <1>4, <1>5, <1>6, Apart DEF Kept, Referred
<1>13. Worked'
  BY <1>1, <1>2, <1>3, <1>4, <1>5, <1>6, Apart DEF Kept, Worked, Closing
<1>14. Ending'
  BY <1>1, <1>2, <1>3, <1>4, <1>5, <1>6, Apart DEF Kept, Ending, Leaving, InTime
<1>15. Failing'
  BY <1>1, <1>2, <1>3, <1>4, <1>5, <1>6, Apart DEF Kept, Failing
<1>16. Counted'
  <2>1. \A d \in Conns : OnList(d)' <=> OnList(d)
    BY <1>1, <1>2, <1>3, <1>4, <1>5, <1>6, Apart DEF Kept, Counted, OnList
  <2>2. QED
    BY <2>1, ListKept DEF Kept
<1>17. QED
  BY <1>2, <1>7, <1>8, <1>9, <1>10, <1>11, <1>12, <1>13, <1>14, <1>15, <1>16 DEF Kept

\* schedule_session_disconnect(), with nothing to do.
LEMMA ClaimPassed ==
    ASSUME Kept, NEW t \in Threads, NEW c, c = ConnOf(t), AtStep(t, "claim"), Carry(t),
           UNCHANGED <<active, live, session, link, sdk, fails, fate>>
    PROVE  Kept'
<1> DEFINE w == Head(todo[t]).where
<1>1. /\ c \in Conns /\ w \in ClaimPlaces /\ Due(t, w, c) /\ \A d : Due(t, w, d) => d = c
  BY AtClaim DEF Kept
<1>m. \A k, d : Due(t, k, d) /\ k # w => MayFollow(w, k)
  BY AtClaim DEF Kept
<1>2. /\ todo' \in [Threads -> Seq(Steps)] /\ Planned'
      /\ \A u \in Threads : \A k, d : Due(u, k, d)' <=> Due(u, k, d) /\ ~(u = t /\ k = w)
  BY CarryClaim DEF Kept
<1> HIDE DEF w
<1>3. w \in {"claim_on_shutdown", "claim_on_replacement", "claim_on_error"}
  BY <1>1 DEF ClaimPlaces
<1>4. /\ \A u \in Threads : \A k, d : Due(u, k, d)' => Due(u, k, d)
      /\ \A u \in Threads : \A k, d :
             k \notin {"claim_on_shutdown", "claim_on_replacement", "claim_on_error"} =>
                 (Due(u, k, d)' <=> Due(u, k, d))
  BY <1>2, <1>3
<1>5. SessionTypeOK'
  BY <1>1, <1>2, <1>3, <1>4, Apart DEF Kept, SessionTypeOK, Session
<1>6. Assigned'
  BY <1>1, <1>2, <1>3, <1>4, Apart DEF Kept, Assigned
<1>7. Whole'
  <2>1. QED
    BY <1>4, Apart DEF Kept, Whole
<1>8. Onward'
  BY <1>1, <1>2, <1>3, <1>4, Apart DEF Kept, Onward
<1>9. Handed'
  BY <1>1, <1>2, <1>3, <1>4, Apart DEF Kept, Handed, Holds, Closing
<1>10. Referred'
  BY <1>1, <1>2, <1>3, <1>4, Apart DEF Kept, Referred
<1>11. Worked'
  BY <1>1, <1>2, <1>3, <1>4, Apart DEF Kept, Worked, Closing
<1>12. Ending'
  BY <1>1, <1>2, <1>3, <1>4, Apart DEF Kept, Ending, Leaving, InTime
<1>13. Failing'
  BY <1>1, <1>2, <1>3, <1>4, Apart DEF Kept, Failing
<1>14. Counted'
  BY <1>1, <1>2, <1>3, <1>4, Apart DEF Kept, Counted, OnList
<1>15. QED
  BY <1>2, <1>5, <1>6, <1>7, <1>8, <1>9, <1>10, <1>11, <1>12, <1>13, <1>14 DEF Kept

\* schedule_session_disconnect(), for the first of its callers.
LEMMA ClaimStep ==
    ASSUME Kept, NEW t \in Threads, NEW c, c = ConnOf(t), AtStep(t, "claim"),
           Then(t, <<Launch(c)>>), session[c].memory = "held",
           ~session[c].scheduled, ~session[c].finalized,
           session' = [session EXCEPT ![c].scheduled = TRUE],
           UNCHANGED <<active, live, link, sdk, fails, fate>>
    PROVE  Kept'
<1> DEFINE w == Head(todo[t]).where
<1>1. /\ c \in Conns /\ w \in ClaimPlaces /\ Due(t, w, c) /\ \A d : Due(t, w, d) => d = c
  BY AtClaim DEF Kept
<1>m. \A k, d : Due(t, k, d) /\ k # w => MayFollow(w, k)
  BY AtClaim DEF Kept
<1>2. /\ todo' \in [Threads -> Seq(Steps)] /\ Planned'
      /\ \A u \in Threads : \A k, d :
             Due(u, k, d)' <=> \/ u = t /\ k = "launch" /\ d = c
                               \/ Due(u, k, d) /\ ~(u = t /\ k = w)
  BY ThenClaim DEF Kept
<1>3. /\ session' \in [Conns -> Session] /\ session'[c].scheduled
      /\ \A d \in Conns :
             /\ session'[d].memory = session[d].memory
             /\ d # c => (session'[d].scheduled <=> session[d].scheduled)
             /\ session'[d].finalized <=> session[d].finalized
             /\ session'[d].worker = session[d].worker
  BY <1>1, ScheduledSet DEF Kept
<1>4. session[c].memory = "held" /\ ~session[c].scheduled /\ ~session[c].finalized
  OBVIOUS
<1> HIDE DEF w
<1>5. w \in {"claim_on_shutdown", "claim_on_replacement", "claim_on_error"}
  BY <1>1 DEF ClaimPlaces
<1>6. \A k, d : Due(t, k, d) /\ k # w => k \in EndKinds
  BY <1>m, <1>5 DEF MayFollow
<1>7. t \in {Main, Sdk} /\ ~Due(Sdk, "register", c)
  <2>1. CASE w = "claim_on_shutdown"
    <3>1. t = Main
      BY <1>1, <2>1 DEF Kept, Assigned
    <3>2. QED
      BY <1>1, <2>1, <3>1 DEF Kept, Referred, SessionKinds, ClaimPlaces
  <2>2. CASE w # "claim_on_shutdown"
    <3>1. t = Sdk
      BY <1>1, <1>5, <2>2 DEF Kept, Assigned
    <3>2. QED
      BY <1>5, <1>6, <3>1 DEF EndKinds
  <2>3. QED
    BY <2>1, <2>2
<1>8. /\ \A u \in Threads : ~Holds(u, c) /\ ~Due(u, "free", c)
      /\ ~Closing(c)
  BY <1>1, <1>4 DEF Kept, Handed
<1>9. /\ \A u \in Threads : \A k, d :
             Due(u, k, d)' => Due(u, k, d) \/ (u = t /\ k = "launch" /\ d = c)
      /\ \A u \in Threads : \A k, d :
             k \notin {"claim_on_shutdown", "claim_on_replacement", "claim_on_error", "launch"} =>
                 (Due(u, k, d)' <=> Due(u, k, d))
      /\ \A u \in Threads : \A d :
             Due(u, "launch", d)' <=> Due(u, "launch", d) \/ (u = t /\ d = c)
  <2>1. w # "launch"
    BY <1>5
  <2>2. \A u \in Threads : \A d :
            Due(u, "launch", d)' <=> Due(u, "launch", d) \/ (u = t /\ d = c)
    BY <1>2, <2>1
  <2>3. \A u \in Threads : \A k, d :
             k \notin {"claim_on_shutdown", "claim_on_replacement", "claim_on_error", "launch"} =>
                 (Due(u, k, d)' <=> Due(u, k, d))
    BY <1>2, <1>5
  <2>4. \A u \in Threads : \A k, d :
             Due(u, k, d)' => Due(u, k, d) \/ (u = t /\ k = "launch" /\ d = c)
    BY <1>2
  <2>5. QED
    BY <2>2, <2>3, <2>4
<1>10. SessionTypeOK'
  BY <1>1, <1>2, <1>3, <1>4, <1>7, <1>8, <1>9, Apart DEF Kept, SessionTypeOK, Session
<1>11. Assigned'
  <2>1. QED
    BY <1>1, <1>7, <1>9, Apart DEF Kept, Assigned, EndKinds
<1>12. Whole'
  BY <1>1, <1>2, <1>3, <1>4, <1>7, <1>8, <1>9, Apart DEF Kept, Whole
<1>13. Onward'
  <2>1. w \in SessionKinds /\ w \in Kinds /\ c \in ConnOrNone
    BY <1>1, <1>5, ConnFacts DEF Kinds, SessionKinds, ClaimPlaces
  <2>2. t = Main => Due(Main, "exit", NoConn) /\ Due(Main, "stop_sdk", NoConn)
    BY <1>1, <2>1 DEF Kept, Onward
  <2>3. QED
    BY <1>9, <2>2, Apart DEF Kept, Onward
<1>14. Handed'
  BY <1>1, <1>2, <1>3, <1>4, <1>7, <1>8, <1>9, Apart DEF Kept, Handed, Holds, Closing
<1>15. Referred'
  <2>1. w \in SessionKinds
    BY <1>1, <1>5 DEF SessionKinds, ClaimPlaces
  <2>2. t = Main => active # c
    BY <1>1, <2>1 DEF Kept, Referred
  <2>3. QED
    BY <1>3, <1>4, <1>7, <1>8, <1>9, <2>2, Apart DEF Kept, Referred
<1>16. Worked'
  BY <1>1, <1>2, <1>3, <1>4, <1>7, <1>8, <1>9, Apart DEF Kept, Worked, Closing
<1>17. Ending'
  <2>1. w \in Kinds /\ c \in ConnOrNone /\ w # "exit"
    BY <1>1, <1>5, ConnFacts DEF Kinds, SessionKinds, ClaimPlaces
  <2>2. /\ sdk = "stopped" \/ (sdk = "gone" /\ InTime) => t # Sdk
        /\ sdk = "gone" => t # Main
    BY <1>1, <2>1 DEF Kept, Ending
  <2>3. QED
    BY <1>3, <1>9, <2>2, Apart DEF Kept, Ending, Leaving, InTime
<1>18. Failing'
  <2>1. w \in SessionKinds
    BY <1>1, <1>5 DEF SessionKinds, ClaimPlaces
  <2>2. Due(Sdk, "claim_on_replacement", c) => t # Main
    BY <1>1, <2>1 DEF Kept, Failing
  <2>3. QED
    BY <1>3, <1>8, <1>9, <2>2, Apart DEF Kept, Failing
<1>19. Counted'
  <2>1. \A d \in Conns : OnList(d)' <=> OnList(d)
    BY <1>1, <1>2, <1>3, <1>4, <1>5, <1>6, <1>7, <1>8, <1>9, Apart DEF OnList
  <2>2. QED
    BY <2>1, ListKept DEF Kept
<1>20. QED
  BY <1>2, <1>10, <1>11, <1>12, <1>13, <1>14, <1>15, <1>16, <1>17, <1>18, <1>19 DEF Kept

\* session_finalize() begins: what it leaves to do.
LEMMA TeardownAt ==
    ASSUME SessionTypeOK, Planned, NEW t \in Threads, NEW c \in Conns, AtStep(t, "mark"),
           Then(t, Teardown(c))
    PROVE  /\ todo' \in [Threads -> Seq(Steps)] /\ Planned'
           /\ \A u \in Threads : \A k, d :
                  Due(u, k, d)' <=> \/ u = t /\ k \in {"unlist", "stop", "join", "free"} /\ d = c
                                    \/ Due(u, k, d) /\ ~(u = t /\ k = "mark")
BY TeardownGoes DEF Others

\* A worker is created for a session: what is left to do.
LEMMA LaunchAt ==
    ASSUME SessionTypeOK, Planned, NEW t \in Threads, NEW c \in Conns, AtStep(t, "launch"),
           t # Cleaner(c), Launches(t, c)
    PROVE  /\ todo' \in [Threads -> Seq(Steps)] /\ Planned'
           /\ \A u \in Threads : \A k, d :
                  u # Cleaner(c) =>
                      (Due(u, k, d)' <=> \/ u = t /\ k = "log" /\ d = c
                                         \/ Due(u, k, d) /\ ~(u = t /\ k = "launch"))
           /\ \A k, d : Due(Cleaner(c), k, d)' <=> k \in {"stop", "join", "disconnect"} /\ d = c
<1>1. /\ todo' \in [Threads -> Seq(Steps)] /\ Planned'
      /\ \A k, d : Due(t, k, d)' <=> (k = "log" /\ d = c) \/ (Due(t, k, d) /\ k # "launch")
      /\ \A k, d : Due(Cleaner(c), k, d)' <=> k \in {"stop", "join", "disconnect"} /\ d = c
      /\ Others({t, Cleaner(c)})
  BY LaunchGoes
<1>2. ASSUME NEW u \in Threads, u # Cleaner(c), NEW k, NEW d
      PROVE  Due(u, k, d)' <=> \/ u = t /\ k = "log" /\ d = c
                               \/ Due(u, k, d) /\ ~(u = t /\ k = "launch")
  BY <1>1, <1>2 DEF Others
<1>3. QED
  BY <1>1, <1>2

\* And for a connection without a session.
LEMMA LaunchRawAt ==
    ASSUME SessionTypeOK, Planned, NEW t \in Threads, NEW c \in Conns, AtStep(t, "launch_raw"),
           t # Raw(c), LaunchesRaw(t, c)
    PROVE  /\ todo' \in [Threads -> Seq(Steps)] /\ Planned'
           /\ \A u \in Threads : \A k, d :
                  u # Raw(c) => (Due(u, k, d)' <=> Due(u, k, d) /\ ~(u = t /\ k = "launch_raw"))
           /\ \A k, d : Due(Raw(c), k, d)' <=> k = "raw_disconnect" /\ d = c
BY LaunchRawGoes DEF Others

\* session_finalize(), under the mutex of the application.
LEMMA UnlistStep ==
    ASSUME Kept, NEW t \in Threads, NEW c, c = ConnOf(t), AtStep(t, "unlist"), Carry(t),
           active' = IF active = c THEN 0 ELSE active,
           live' = IF live > 0 THEN live - 1 ELSE live,
           UNCHANGED <<session, link, sdk, fails, fate>>
    PROVE  Kept'
<1>0. "unlist" \in (SessionKinds \ ClaimPlaces) \cup RawKinds
  BY DEF SessionKinds, RawKinds, ClaimPlaces
<1>1. /\ c \in Conns /\ Due(t, "unlist", c) /\ \A d : Due(t, "unlist", d) => d = c
  BY <1>0, AtConn DEF Kept
<1>m. \A k, d : Due(t, k, d) /\ k # "unlist" => MayFollow("unlist", k)
  BY <1>0, AtConn DEF Kept
<1>2. /\ todo' \in [Threads -> Seq(Steps)] /\ Planned'
      /\ \A u \in Threads : \A k, d :
             Due(u, k, d)' <=> Due(u, k, d) /\ ~(u = t /\ k = "unlist")
  BY <1>0, CarryAt DEF Kept
<1>3. \A d : ~Due(t, "unlist", d)'
  BY <1>2
<1>4. /\ active' \in ConnOrNone /\ active' # c
      /\ \A d \in Conns : d # c => (active' = d <=> active = d)
  BY <1>1, ConnFacts DEF Kept, SessionTypeOK
<1>5. live' = IF live > 0 THEN live - 1 ELSE live
  OBVIOUS
<1>6. /\ session[c].memory = "held" /\ ~Due(Sdk, "register", c)
      /\ \A u \in Threads : Due(u, "unlist", c) => u = t
  <2>1. Due(t, "free", c) /\ \A u \in Threads : Due(u, "unlist", c) => Due(u, "free", c)
    BY <1>1 DEF Kept, Whole
  <2>2. /\ session[c].memory = "held" /\ session[c].finalized /\ session[c].scheduled
        /\ \A u \in Threads : Due(u, "free", c) => u = t
    BY <1>1, <2>1 DEF Kept, Handed
  <2>3. ~Due(Sdk, "register", c)
    BY <1>1, <2>2 DEF Kept, Referred
  <2>4. QED
    BY <2>1, <2>2, <2>3
<1>7. OnList(c)
  BY <1>1, <1>6 DEF OnList
<1>8. ~OnList(c)'
  <2>1. session[c].finalized
    BY <1>1 DEF Kept, Whole, Handed
  <2>2. \A u \in Threads : ~Due(u, "unlist", c)'
    BY <1>2, <1>6
  <2>3. session'[c].finalized
    BY <2>1
  <2>4. QED
    BY <2>2, <2>3 DEF OnList
<1>9. \A d \in Conns : d # c => (OnList(d)' <=> OnList(d))
  BY <1>1, <1>2, Apart DEF OnList
<1>10. live' = Cardinality({d \in Conns : OnList(d)}) - 1 /\ live' \in Nat /\ live > 0
  <2> DEFINE S == {d \in Conns : OnList(d)}
  <2>1. c \in S /\ IsFiniteSet(S)
    BY <1>1, <1>7, ConnFacts, FS_Subset
  <2>2. live = Cardinality(S) /\ live \in Nat
    BY DEF Kept, Counted, SessionTypeOK
  <2> HIDE DEF S
  <2>3. Cardinality(S) # 0
    BY <2>1, FS_EmptySet
  <2>4. QED
    BY <1>5, <2>2, <2>3 DEF S
<1>11. SessionTypeOK'
  BY <1>1, <1>2, <1>4, <1>10, Apart DEF Kept, SessionTypeOK, Session
<1>12. Assigned'
  BY <1>1, <1>2, <1>4, <1>10, Apart DEF Kept, Assigned
<1>13. Whole'
  BY <1>1, <1>2, <1>4, <1>10, Apart DEF Kept, Whole
<1>14. Onward'
  BY <1>1, <1>2, <1>4, <1>10, Apart DEF Kept, Onward
<1>15. Handed'
  BY <1>1, <1>2, <1>4, <1>10, Apart DEF Kept, Handed, Holds, Closing
<1>16. Referred'
  BY <1>1, <1>2, <1>4, <1>10, Apart DEF Kept, Referred
<1>17. Worked'
  BY <1>1, <1>2, <1>4, <1>10, Apart DEF Kept, Worked, Closing
<1>18. Ending'
  BY <1>1, <1>2, <1>4, <1>10, Apart DEF Kept, Ending, Leaving, InTime
<1>19. Failing'
  BY <1>1, <1>2, <1>4, <1>10, Apart DEF Kept, Failing
<1>20. Counted'
  <2> DEFINE S == {d \in Conns : OnList(d)}
  <2>1. c \in S /\ IsFiniteSet(S)
    BY <1>1, <1>7, ConnFacts, FS_Subset
  <2>2. {d \in Conns : OnList(d)'} = S \ {c}
    BY <1>8, <1>9
  <2> HIDE DEF S
  <2>3. Cardinality(S \ {c}) = Cardinality(S) - 1
    BY <2>1, FS_RemoveElement
  <2>4. live' = Cardinality(S) - 1
    BY <1>10 DEF S
  <2>5. live' = Cardinality({d \in Conns : OnList(d)'})
    BY <2>2, <2>3, <2>4
  <2>6. ASSUME NEW d \in Conns, d = active' PROVE OnList(d)'
    <3>1. d # c /\ d = active
      BY <1>4, <2>6
    <3>2. OnList(d)
      BY <3>1 DEF Kept, Counted
    <3>3. QED
      BY <1>9, <3>1, <3>2
  <2>7. active' \in Conns => OnList(active)'
    BY <2>6 DEF OnList
  <2>8. QED
    BY <2>5, <2>7 DEF Counted
<1>21. QED
  BY <1>2, <1>11, <1>12, <1>13, <1>14, <1>15, <1>16, <1>17, <1>18, <1>19, <1>20 DEF Kept

\* session_finalize(), under the session's mutex.
LEMMA MarkStep ==
    ASSUME Kept, NEW t \in Threads, NEW c, c = ConnOf(t), AtStep(t, "mark"),
           Then(t, Teardown(c)), session[c].memory = "held",
           session' = [session EXCEPT ![c].finalized = TRUE],
           UNCHANGED <<active, live, link, sdk, fails, fate>>
    PROVE  Kept'
<1>0. "mark" \in (SessionKinds \ ClaimPlaces) \cup RawKinds
  BY DEF SessionKinds, RawKinds, ClaimPlaces
<1>1. /\ c \in Conns /\ Due(t, "mark", c) /\ \A d : Due(t, "mark", d) => d = c
  BY <1>0, AtConn DEF Kept
<1>m. \A k, d : Due(t, k, d) /\ k # "mark" => MayFollow("mark", k)
  BY <1>0, AtConn DEF Kept
<1>2. /\ todo' \in [Threads -> Seq(Steps)] /\ Planned'
      /\ \A u \in Threads : \A k, d :
             Due(u, k, d)' <=> \/ u = t /\ k \in {"unlist", "stop", "join", "free"} /\ d = c
                               \/ Due(u, k, d) /\ ~(u = t /\ k = "mark")
  BY <1>1, TeardownAt DEF Kept
<1>3. /\ session' \in [Conns -> Session] /\ session'[c].finalized
      /\ \A d \in Conns :
             /\ session'[d].memory = session[d].memory
             /\ session'[d].scheduled <=> session[d].scheduled
             /\ d # c => (session'[d].finalized <=> session[d].finalized)
             /\ session'[d].worker = session[d].worker
  BY <1>1, FinalizedSet DEF Kept
<1>4. session[c].memory = "held"
  OBVIOUS
<1>5. \A k, d : Due(t, k, d) => k \in {"mark"} \cup EndKinds
  BY <1>m DEF MayFollow
<1>6. /\ ~session[c].finalized /\ session[c].scheduled /\ ~Closing(c)
      /\ ~Due(Sdk, "register", c)
      /\ \A u \in Threads : (Holds(u, c) => u = t) /\ ~Due(u, "free", c) /\ ~Due(u, "unlist", c)
  <2>1. Holds(t, c)
    BY <1>1 DEF Holds
  <2>2. /\ ~session[c].finalized /\ session[c].scheduled /\ ~Closing(c)
        /\ \A u \in Threads : Holds(u, c) => u = t
    BY <1>1, <2>1 DEF Kept, Handed
  <2>3. \A u \in Threads : ~Due(u, "free", c)
    BY <1>1, <2>2 DEF Kept, Handed
  <2>4. \A u \in Threads : ~Due(u, "unlist", c)
    BY <1>1, <2>3 DEF Kept, Whole
  <2>5. ~Due(Sdk, "register", c)
    BY <1>1, <2>2 DEF Kept, Referred
  <2>6. QED
    BY <2>2, <2>3, <2>4, <2>5
<1>7. ~Due(t, "launch", c) /\ ~Due(t, "disconnect", c)
  BY <1>5 DEF EndKinds
<1>8. /\ t \in {Main, Sdk, Cleaner(c)}
      /\ t = Main => /\ Due(Main, "exit", NoConn) /\ Due(Main, "stop_sdk", NoConn)
                     /\ active # c /\ sdk = "running" /\ ~Due(Sdk, "claim_on_replacement", c)
      /\ t = Sdk => ~Due(Sdk, "claim_on_replacement", c)
  BY <1>1, <1>5, AtWork DEF Kept, Assigned, SessionKinds, EndKinds
<1>9. \A u \in Threads : \A k, d :
          Due(u, k, d)' => \/ Due(u, k, d)
                           \/ u = t /\ d = c /\ k \in {"unlist", "stop", "join", "free"}
  BY <1>2
<1>10. SessionTypeOK'
  BY <1>1, <1>2, <1>3, <1>4, <1>6, <1>7, <1>8, Apart DEF Kept, SessionTypeOK, Session
<1>11. Assigned'
  <2>1. QED
    BY <1>1, <1>8, <1>9, Apart DEF Kept, Assigned
<1>12. Whole'
  BY <1>1, <1>2, <1>3, <1>4, <1>6, <1>7, <1>8, Apart DEF Kept, Whole
<1>13. Onward'
  BY <1>1, <1>2, <1>3, <1>4, <1>6, <1>7, <1>8, Apart DEF Kept, Onward
<1>14. Handed'
  <2>1. \A u \in Threads : ~Holds(u, c)'
    BY <1>2, <1>6, <1>7 DEF Holds
  <2>2. \A u \in Threads, d \in Conns : Holds(u, d)' => Holds(u, d)
    BY <1>2 DEF Holds
  <2>3. \A d \in Conns : Closing(d)' <=> Closing(d)
    BY <1>3 DEF Closing
  <2>4. \A u \in Threads, d \in Conns :
            Due(u, "free", d)' <=> Due(u, "free", d) \/ (u = t /\ d = c)
    BY <1>2
  <2>5. QED
    BY <1>1, <1>3, <1>4, <1>6, <2>1, <2>2, <2>3, <2>4 DEF Kept, Handed
<1>15. Referred'
  <2>1. \A u \in Threads : \A k : \A d \in Conns :
            Due(u, k, d)' => Due(u, k, d) \/ (u = t /\ d = c)
    BY <1>9
  <2>2. \A u \in Threads, d \in Conns :
            Due(u, "free", d)' <=> Due(u, "free", d) \/ (u = t /\ d = c)
    BY <1>2
  <2>3. \A u \in Threads, d \in Conns :
            /\ Due(u, "register", d)' <=> Due(u, "register", d)
            /\ Due(u, "launch_raw", d)' <=> Due(u, "launch_raw", d)
            /\ Due(u, "raw_disconnect", d)' <=> Due(u, "raw_disconnect", d)
    BY <1>2
  <2>4. QED
    BY <1>1, <1>3, <1>4, <1>6, <1>8, <2>1, <2>2, <2>3, Apart DEF Kept, Referred
<1>16. Worked'
  BY <1>1, <1>2, <1>3, <1>4, <1>6, <1>7, <1>8, Apart DEF Kept, Worked, Closing
<1>17. Ending'
  <2>1. sdk = "stopped" \/ (sdk = "gone" /\ InTime) =>
            (t = Sdk => session[c].worker = "ended")
    BY <1>1 DEF Kept, Ending
  <2>2. \A u \in Threads : \A k, d :
            k \notin {"mark", "unlist", "stop", "join", "free"} =>
                (Due(u, k, d)' <=> Due(u, k, d))
    BY <1>2
  <2>3. QED
    BY <1>3, <1>8, <1>9, <2>1, <2>2, Apart DEF Kept, Ending, Leaving, InTime, ClaimPlaces
<1>18. Failing'
  <2>1. /\ fails \cap {"thread", "disconnect"} = {} => link[c] = "closed"
        /\ "disconnect" \notin fails => t # Cleaner(c) /\ ~Due(Sdk, "claim_on_replacement", c)
    BY <1>1, <1>8 DEF Kept, Failing
  <2>2. \A u \in Threads : \A k, d :
            k \notin {"mark", "unlist", "stop", "join", "free"} =>
                (Due(u, k, d)' <=> Due(u, k, d))
    BY <1>2
  <2>3. QED
    BY <1>1, <1>3, <1>8, <1>9, <2>1, <2>2, Apart DEF Kept, Failing
<1>19. Counted'
  <2>1. \A d \in Conns : OnList(d)' <=> OnList(d)
    BY <1>1, <1>2, <1>3, <1>4, <1>5, <1>6, <1>7, <1>8, Apart DEF OnList
  <2>2. QED
    BY <2>1, ListKept DEF Kept
<1>20. QED
  BY <1>2, <1>10, <1>11, <1>12, <1>13, <1>14, <1>15, <1>16, <1>17, <1>18, <1>19 DEF Kept

\* schedule_session_disconnect() creates its worker.
LEMMA LaunchStep ==
    ASSUME Kept, NEW t \in Threads, NEW c, c = ConnOf(t), AtStep(t, "launch"),
           Launches(t, c),
           UNCHANGED <<active, live, session, link, sdk, fails, fate>>
    PROVE  Kept'
<1>0. "launch" \in (SessionKinds \ ClaimPlaces) \cup RawKinds
  BY DEF SessionKinds, RawKinds, ClaimPlaces
<1>1. /\ c \in Conns /\ Due(t, "launch", c) /\ \A d : Due(t, "launch", d) => d = c
  BY <1>0, AtConn DEF Kept
<1>m. \A k, d : Due(t, k, d) /\ k # "launch" => MayFollow("launch", k)
  BY <1>0, AtConn DEF Kept
<1>2. t \in {Main, Sdk} /\ t # Cleaner(c) /\ Cleaner(c) \in Threads
  BY <1>1, Apart DEF Kept, Assigned
<1>3. /\ todo' \in [Threads -> Seq(Steps)] /\ Planned'
      /\ \A u \in Threads : \A k, d :
             u # Cleaner(c) =>
                 (Due(u, k, d)' <=> \/ u = t /\ k = "log" /\ d = c
                                    \/ Due(u, k, d) /\ ~(u = t /\ k = "launch"))
      /\ \A k, d : Due(Cleaner(c), k, d)' <=> k \in {"stop", "join", "disconnect"} /\ d = c
  <2>1. SessionTypeOK /\ Planned
    BY DEF Kept
  <2>2. QED
    BY <1>1, <1>2, <2>1, LaunchAt
<1>4. /\ ~session[c].finalized /\ session[c].scheduled /\ ~Closing(c)
      /\ session[c].memory # "none"
      /\ \A u \in Threads : (Holds(u, c) => u = t) /\ ~Due(u, "free", c) /\ ~Due(u, "unlist", c)
  <2>1. Holds(t, c)
    BY <1>1 DEF Holds
  <2>2. /\ ~session[c].finalized /\ session[c].scheduled /\ ~Closing(c)
        /\ \A u \in Threads : Holds(u, c) => u = t
    BY <1>1, <2>1 DEF Kept, Handed
  <2>3. \A u \in Threads : ~Due(u, "free", c)
    BY <1>1, <2>2 DEF Kept, Handed
  <2>4. \A u \in Threads : ~Due(u, "unlist", c)
    BY <1>1, <2>3 DEF Kept, Whole
  <2>5. session[c].memory # "none"
    BY <1>1 DEF Kept, Referred, SessionKinds
  <2>6. QED
    BY <2>2, <2>3, <2>4, <2>5
<1>5. /\ t = Main => /\ Due(Main, "exit", NoConn) /\ Due(Main, "stop_sdk", NoConn)
                     /\ active # c /\ sdk = "running" /\ ~Due(Sdk, "claim_on_replacement", c)
      /\ ~Due(Sdk, "register", c)
      /\ t = Sdk => sdk # "stopped" /\ ~(sdk = "gone" /\ InTime)
  BY <1>1, <1>4, AtWork DEF Kept, Referred, Ending, SessionKinds
<1>6. \A u \in Threads : \A k :
          /\ \A d \in Conns : Due(u, k, d)' =>
                 Due(u, k, d) \/ (u = t /\ d = c /\ k = "log")
                 \/ (u = Cleaner(c) /\ d = c /\ k \in {"stop", "join", "disconnect"})
          /\ Due(u, k, NoConn)' => Due(u, k, NoConn)
  BY <1>1, <1>3, Apart
<1>7. \A u \in Threads, d \in Conns :
          /\ Due(u, "free", d)' <=> Due(u, "free", d)
          /\ Due(u, "unlist", d)' <=> Due(u, "unlist", d)
          /\ Due(u, "mark", d)' <=> Due(u, "mark", d)
  <2>1. \A k \in {"free", "unlist", "mark"} : \A d \in Conns : ~Due(Cleaner(c), k, d)
    <3>1. \A k \in {"free", "unlist", "mark"} : \A d \in Conns :
              Due(Cleaner(c), k, d) => d = c
      BY <1>1, <1>2, Apart DEF Kept, Assigned
    <3>2. ~Due(Cleaner(c), "mark", c)
      BY <1>2, <1>4 DEF Holds
    <3>3. QED
      BY <1>2, <1>4, <3>1, <3>2
  <2>2. \A u \in Threads, d \in Conns : \A k \in {"free", "unlist", "mark"} :
            u # Cleaner(c) => (Due(u, k, d)' <=> Due(u, k, d))
    BY <1>3
  <2>3. \A d \in Conns : \A k \in {"free", "unlist", "mark"} : ~Due(Cleaner(c), k, d)'
    BY <1>3
  <2>4. QED
    BY <2>1, <2>2, <2>3
<1>8. \A k, d : k # "launch" => (Due(Main, k, d) => Due(Main, k, d)')
  BY <1>1, <1>2, <1>3, Apart
<1>9. SessionTypeOK'
  BY <1>3, <1>1, <1>2, <1>5, <1>6, <1>7, Apart DEF Kept, SessionTypeOK, Session
<1>10. Assigned'
  <2>1. \A u \in Threads, k \in EndKinds : Due(u, k, NoConn)' => Due(u, k, NoConn)
    BY <1>6
  <2>2. \A u \in Threads, d \in Conns : \A k \in {"stop", "join"} :
            Due(u, k, d)' => Due(u, k, d) \/ u = Cleaner(d)
    BY <1>6
  <2>3. \A u \in Threads, d \in Conns :
            /\ Due(u, "disconnect", d)' => Due(u, "disconnect", d) \/ u = Cleaner(d)
            /\ Due(u, "log", d)' => Due(u, "log", d) \/ u = t
    BY <1>6
  <2>4. \A u \in Threads, d \in Conns : \A k :
            k \notin {"stop", "join", "disconnect", "log"} => (Due(u, k, d)' => Due(u, k, d))
    BY <1>6
  <2>5. QED
    BY <1>2, <2>1, <2>2, <2>3, <2>4 DEF Kept, Assigned
<1>11. Whole'
  <2>1. \A u \in Threads, d \in Conns :
            u # Cleaner(c) => /\ Due(u, "stop", d)' <=> Due(u, "stop", d)
                              /\ Due(u, "join", d)' <=> Due(u, "join", d)
                              /\ Due(u, "disconnect", d)' <=> Due(u, "disconnect", d)
    BY <1>3
  <2>2. \A d \in Conns : /\ Due(Cleaner(c), "stop", d)' <=> d = c
                         /\ Due(Cleaner(c), "join", d)' <=> d = c
                         /\ Due(Cleaner(c), "disconnect", d)' <=> d = c
                         /\ ~Due(Cleaner(c), "unlist", d)'
    BY <1>3
  <2>3. QED
    BY <1>7, <2>1, <2>2 DEF Kept, Whole
<1>12. Onward'
  <2>1. "launch" \in SessionKinds
    BY DEF SessionKinds
  <2>2. QED
    BY <1>1, <1>2, <1>5, <1>6, <1>8, Apart DEF Kept, Onward
<1>13. Handed'
  <2>1. \A u \in Threads : Holds(u, c)' => u = Cleaner(c)
    <3>1. ~Due(t, "mark", c) /\ ~Due(t, "disconnect", c)
      BY <1>m DEF MayFollow, EndKinds
    <3>2. \A u \in Threads : u # Cleaner(c) /\ Holds(u, c)' => Holds(u, c) /\ u # t
      BY <1>3, <3>1 DEF Holds
    <3>3. QED
      BY <1>4, <3>2
  <2>2. \A u \in Threads, d \in Conns : d # c => (Holds(u, d)' => Holds(u, d))
    BY <1>6 DEF Holds
  <2>3. \A d \in Conns : Closing(d)' <=> Closing(d)
    BY DEF Closing
  <2>4. QED
    BY <1>1, <1>4, <1>7, <2>1, <2>2, <2>3 DEF Kept, Handed
<1>14. Referred'
  <2>1. \A u \in Threads : \A k : \A d \in Conns : Due(u, k, d)' => Due(u, k, d) \/ d = c
    BY <1>6
  <2>2. \A k : \A d \in Conns : Due(Main, k, d)' => Due(Main, k, d) \/ (d = c /\ t = Main)
    BY <1>6, Apart
  <2>3. \A d \in Conns :
            /\ Due(Sdk, "register", d)' => Due(Sdk, "register", d)
            /\ Due(Sdk, "launch_raw", d)' => Due(Sdk, "launch_raw", d)
            /\ Due(Raw(d), "raw_disconnect", d)' => Due(Raw(d), "raw_disconnect", d)
    BY <1>6, Apart
  <2>4. QED
    BY <1>1, <1>4, <1>5, <1>7, <2>1, <2>2, <2>3 DEF Kept, Referred
<1>15. Worked'
  <2>1. \A d \in Conns : Due(Cleaner(d), "disconnect", d)' /\ ~Due(Cleaner(d), "join", d)' =>
            Due(Cleaner(d), "disconnect", d) /\ ~Due(Cleaner(d), "join", d)
    <3>1. \A d \in Conns : d # c => Cleaner(d) # Cleaner(c)
      BY <1>1, Apart
    <3>2. QED
      BY <1>3, <3>1, Apart
  <2>2. \A u \in Threads, d \in Conns : Due(u, "free", d)' /\ ~Due(u, "join", d)' =>
            Due(u, "free", d) /\ ~Due(u, "join", d)
    BY <1>3, <1>7
  <2>3. QED
    BY <1>7, <2>1, <2>2, Apart DEF Kept, Worked, Closing
<1>16. Ending'
  <2>1. \A k : \A d \in Conns : Due(Sdk, k, d)' => Due(Sdk, k, d) \/ (k = "log" /\ t = Sdk)
    BY <1>6, Apart
  <2>2. \A k, d : sdk = "gone" => (Due(Main, k, d)' => Due(Main, k, d))
    BY <1>1, <1>3, <1>5, Apart
  <2>3. /\ Due(Main, "exit", NoConn)' <=> Due(Main, "exit", NoConn)
        /\ Due(Main, "stop_sdk", NoConn)' <=> Due(Main, "stop_sdk", NoConn)
        /\ Due(Main, "await_stop", NoConn)' <=> Due(Main, "await_stop", NoConn)
        /\ Due(Main, "await_cleanup", NoConn)' <=> Due(Main, "await_cleanup", NoConn)
    BY <1>6, <1>8, Apart
  <2>4. QED
    BY <1>7, <2>1, <2>2, <2>3, Apart DEF Kept, Ending, Leaving, InTime, ClaimPlaces
<1>17. Failing'
  <2>1. \A k : \A d \in Conns : Due(Main, k, d)' => Due(Main, k, d) \/ (d = c /\ t = Main)
    BY <1>6, Apart
  <2>2. \A k : \A d \in Conns : Due(Sdk, k, d)' => Due(Sdk, k, d) \/ (k = "log" /\ t = Sdk)
    BY <1>6, Apart
  <2>3. QED
    BY <1>1, <1>5, <1>7, <2>1, <2>2, Apart DEF Kept, Failing
<1>18. Counted'
  <2>1. \A d \in Conns : OnList(d)' <=> OnList(d)
    <3>1. \A d \in Conns : Due(Sdk, "register", d)' <=> Due(Sdk, "register", d)
      BY <1>1, <1>3, Apart
    <3>2. QED
      BY <1>7, <3>1 DEF OnList
  <2>2. QED
    BY <2>1, ListKept DEF Kept
<1>19. QED
  BY <1>3, <1>9, <1>10, <1>11, <1>12, <1>13, <1>14, <1>15, <1>16, <1>17, <1>18 DEF Kept

\* schedule_session_disconnect() gets no worker.
LEMMA LaunchRefused ==
    ASSUME Kept, NEW t \in Threads, NEW c, c = ConnOf(t), AtStep(t, "launch"),
           Then(t, <<Mark(c)>>), "thread" \in fails,
           UNCHANGED <<active, live, session, link, sdk, fails, fate>>
    PROVE  Kept'
<1>0. "launch" \in (SessionKinds \ ClaimPlaces) \cup RawKinds
  BY DEF SessionKinds, RawKinds, ClaimPlaces
<1>1. /\ c \in Conns /\ Due(t, "launch", c) /\ \A d : Due(t, "launch", d) => d = c
  BY <1>0, AtConn DEF Kept
<1>m. \A k, d : Due(t, k, d) /\ k # "launch" => MayFollow("launch", k)
  BY <1>0, AtConn DEF Kept
<1>2. /\ todo' \in [Threads -> Seq(Steps)] /\ Planned'
      /\ \A u \in Threads : \A k, d :
             Due(u, k, d)' <=> \/ u = t /\ k = "mark" /\ d = c
                               \/ Due(u, k, d) /\ ~(u = t /\ k = "launch")
  <2> DEFINE x == Mark(c)
  <2>1. x \in Steps /\ Kind(x) = "mark" /\ Of(x) = c /\ Then(t, <<x>>)
    BY <1>1, MadeSteps
  <2> HIDE DEF x
  <2>2. \A k, d : Due(t, k, d) /\ k # "launch" => MayFollow(Kind(x), k)
    BY <1>m, <2>1 DEF MayFollow, EndKinds
  <2>3. QED
    BY <1>0, <2>1, <2>2, ThenAt DEF Kept
<1>3. /\ ~session[c].finalized /\ session[c].scheduled /\ ~Closing(c)
      /\ session[c].memory # "none" /\ ~Due(Sdk, "register", c)
      /\ \A u \in Threads : (Holds(u, c) => u = t) /\ ~Due(u, "free", c) /\ ~Due(u, "unlist", c)
  <2>1. Holds(t, c)
    BY <1>1 DEF Holds
  <2>2. /\ ~session[c].finalized /\ session[c].scheduled /\ ~Closing(c)
        /\ \A u \in Threads : Holds(u, c) => u = t
    BY <1>1, <2>1 DEF Kept, Handed
  <2>3. \A u \in Threads : ~Due(u, "free", c)
    BY <1>1, <2>2 DEF Kept, Handed
  <2>4. \A u \in Threads : ~Due(u, "unlist", c)
    BY <1>1, <2>3 DEF Kept, Whole
  <2>5. session[c].memory # "none" /\ ~Due(Sdk, "register", c)
    BY <1>1, <2>2 DEF Kept, Referred, SessionKinds
  <2>6. QED
    BY <2>2, <2>3, <2>4, <2>5
<1>4. /\ t \in {Main, Sdk}
      /\ t = Main => /\ Due(Main, "exit", NoConn) /\ Due(Main, "stop_sdk", NoConn)
                     /\ active # c /\ sdk = "running" /\ ~Due(Sdk, "claim_on_replacement", c)
      /\ t = Sdk => /\ ~Due(Sdk, "claim_on_replacement", c)
                    /\ sdk # "stopped" /\ ~(sdk = "gone" /\ InTime)
  <2>1. t \in {Main, Sdk}
    BY <1>1 DEF Kept, Assigned
  <2>2. t = Sdk => ~Due(Sdk, "claim_on_replacement", c)
    BY <1>m DEF MayFollow, EndKinds
  <2>3. t = Sdk => sdk # "stopped" /\ ~(sdk = "gone" /\ InTime)
    BY <1>1 DEF Kept, Ending
  <2>4. QED
    BY <1>1, <2>1, <2>2, <2>3, AtWork DEF SessionKinds
<1>5. /\ \A u \in Threads : \A k, d :
             Due(u, k, d)' => Due(u, k, d) \/ (u = t /\ k = "mark" /\ d = c)
      /\ \A u \in Threads : \A k, d :
             k \notin {"mark", "launch"} => (Due(u, k, d)' <=> Due(u, k, d))
      /\ ~Holds(t, c) \/ ~Due(t, "mark", c)
  <2>1. \A d : ~Due(t, "mark", d)
    BY <1>m DEF MayFollow, EndKinds
  <2>2. QED
    BY <1>2, <2>1
<1>6. SessionTypeOK'
  BY <1>2, <1>1, <1>3, <1>4, <1>5, Apart DEF Kept, SessionTypeOK, Session
<1>7. Assigned'
  BY <1>1, <1>3, <1>4, <1>5, Apart DEF Kept, Assigned
<1>8. Whole'
  BY <1>1, <1>3, <1>4, <1>5, Apart DEF Kept, Whole
<1>9. Onward'
  BY <1>1, <1>3, <1>4, <1>5, Apart DEF Kept, Onward
<1>10. Handed'
  <2>1. \A u \in Threads : Holds(u, c)' => u = t
    BY <1>1, <1>3, <1>5 DEF Holds
  <2>2. \A u \in Threads, d \in Conns : d # c => (Holds(u, d)' => Holds(u, d))
    BY <1>5 DEF Holds
  <2>3. \A d \in Conns : Closing(d)' <=> Closing(d)
    BY DEF Closing
  <2>4. QED
    BY <1>1, <1>3, <1>5, <2>1, <2>2, <2>3 DEF Kept, Handed
<1>11. Referred'
  BY <1>1, <1>3, <1>4, <1>5, Apart DEF Kept, Referred
<1>12. Worked'
  BY <1>1, <1>3, <1>4, <1>5, Apart DEF Kept, Worked, Closing
<1>13. Ending'
  BY <1>1, <1>3, <1>4, <1>5, Apart DEF Kept, Ending, Leaving, InTime
<1>14. Failing'
  BY <1>1, <1>3, <1>4, <1>5, Apart DEF Kept, Failing
<1>15. Counted'
  BY <1>1, <1>3, <1>4, <1>5, Apart DEF Kept, Counted, OnList
<1>16. QED
  BY <1>2, <1>6, <1>7, <1>8, <1>9, <1>10, <1>11, <1>12, <1>13, <1>14, <1>15 DEF Kept

\* on_conn_accepted() goes on with a listed session: what is left to do.
LEMMA RegisterAt ==
    ASSUME SessionTypeOK, Planned, NEW t \in Threads, NEW c \in Conns, AtStep(t, "register"),
           Then(t, <<Enable(c)>> \o
                   IF active = 0 THEN <<>> ELSE <<Claim(active, "claim_on_replacement")>>)
    PROVE  /\ todo' \in [Threads -> Seq(Steps)] /\ Planned'
           /\ \A u \in Threads : \A k, d :
                  u # t => (Due(u, k, d)' <=> Due(u, k, d))
           /\ \A k, d : Due(t, k, d)' <=>
                  \/ k = "enable" /\ d = c
                  \/ k = "claim_on_replacement" /\ d = active /\ active \in Conns
BY RegisterGoes DEF Others

\* TiRtcDisconnect() is taken.
LEMMA DisconnectTaken ==
    ASSUME Kept, NEW t \in Threads, NEW c, c = ConnOf(t), AtStep(t, "disconnect"),
           Carry(t), link' = [link EXCEPT ![c] = "closing"],
           UNCHANGED <<active, live, session, sdk, fails, fate>>
    PROVE  Kept'
<1>0. "disconnect" \in (SessionKinds \ ClaimPlaces) \cup RawKinds
  BY DEF SessionKinds, RawKinds, ClaimPlaces
<1>1. /\ c \in Conns /\ Due(t, "disconnect", c) /\ \A d : Due(t, "disconnect", d) => d = c
  BY <1>0, AtConn DEF Kept
<1>m. \A k, d : Due(t, k, d) /\ k # "disconnect" => MayFollow("disconnect", k)
  BY <1>0, AtConn DEF Kept
<1>2. /\ todo' \in [Threads -> Seq(Steps)] /\ Planned'
      /\ \A u \in Threads : \A k, d :
             Due(u, k, d)' <=> Due(u, k, d) /\ ~(u = t /\ k = "disconnect")
  BY <1>0, CarryAt DEF Kept
<1>3. /\ ~session[c].finalized /\ session[c].scheduled /\ ~Closing(c)
      /\ session[c].memory # "none" /\ ~Due(Sdk, "register", c)
      /\ \A u \in Threads : (Holds(u, c) => u = t) /\ ~Due(u, "free", c) /\ ~Due(u, "unlist", c)
  <2>1. Holds(t, c)
    BY <1>1 DEF Holds
  <2>2. /\ ~session[c].finalized /\ session[c].scheduled /\ ~Closing(c)
        /\ \A u \in Threads : Holds(u, c) => u = t
    BY <1>1, <2>1 DEF Kept, Handed
  <2>3. \A u \in Threads : ~Due(u, "free", c)
    BY <1>1, <2>2 DEF Kept, Handed
  <2>4. \A u \in Threads : ~Due(u, "unlist", c)
    BY <1>1, <2>3 DEF Kept, Whole
  <2>5. session[c].memory # "none" /\ ~Due(Sdk, "register", c)
    BY <1>1, <2>2 DEF Kept, Referred, SessionKinds
  <2>6. QED
    BY <2>2, <2>3, <2>4, <2>5
<1>4. /\ link' \in [Conns -> {"none", "open", "broken", "closing", "closed"}]
      /\ link'[c] = "closing" /\ \A d \in Conns : d # c => link'[d] = link[d]
  BY <1>1 DEF Kept, SessionTypeOK
<1>5. /\ t = Cleaner(c) /\ t # Main /\ t # Sdk
      /\ session[c].worker = "ended" /\ ~Due(t, "launch", c) /\ ~Due(t, "mark", c)
      /\ ~Due(t, "join", c)
  <2>1. t = Cleaner(c) /\ t # Main /\ t # Sdk
    BY <1>1, Apart DEF Kept, Assigned
  <2>2. ~Due(t, "launch", c) /\ ~Due(t, "mark", c) /\ ~Due(t, "join", c)
    BY <1>m DEF MayFollow, EndKinds
  <2>3. session[c].worker = "ended"
    BY <1>1, <2>1, <2>2 DEF Kept, Worked
  <2>4. QED
    BY <2>1, <2>2, <2>3
<1>6. SessionTypeOK'
  BY <1>1, <1>2, <1>3, <1>4, <1>5, Apart DEF Kept, SessionTypeOK, Session
<1>7. Assigned'
  BY <1>1, <1>2, <1>3, <1>4, <1>5, Apart DEF Kept, Assigned
<1>8. Whole'
  BY <1>1, <1>2, <1>3, <1>4, <1>5, Apart DEF Kept, Whole
<1>9. Onward'
  BY <1>1, <1>2, <1>3, <1>4, <1>5, Apart DEF Kept, Onward
<1>10. Handed'
  <2>1. \A u \in Threads : ~Holds(u, c)'
    BY <1>2, <1>3, <1>5 DEF Holds
  <2>2. \A u \in Threads, d \in Conns : Holds(u, d)' => Holds(u, d)
    BY <1>2 DEF Holds
  <2>3. \A d \in Conns : Closing(d)' => d = c \/ Closing(d)
    BY <1>4 DEF Closing
  <2>4. QED
    BY <1>1, <1>2, <1>3, <2>1, <2>2, <2>3 DEF Kept, Handed
<1>11. Referred'
  BY <1>1, <1>2, <1>3, <1>4, <1>5, Apart DEF Kept, Referred
<1>12. Worked'
  <2>1. \A d \in Conns : Closing(d)' => d = c \/ Closing(d)
    BY <1>4 DEF Closing
  <2>2. QED
    BY <1>1, <1>2, <1>3, <1>5, <2>1, Apart DEF Kept, Worked
<1>13. Ending'
  BY <1>1, <1>2, <1>3, <1>4, <1>5, Apart DEF Kept, Ending, Leaving, InTime
<1>14. Failing'
  <2>1. \A u \in Threads : ~Due(u, "mark", c)
    BY <1>3, <1>5 DEF Holds
  <2>2. QED
    BY <1>2, <1>3, <1>4, <2>1, Apart DEF Kept, Failing
<1>15. Counted'
  BY <1>1, <1>2, <1>3, <1>4, <1>5, Apart DEF Kept, Counted, OnList
<1>16. QED
  BY <1>2, <1>6, <1>7, <1>8, <1>9, <1>10, <1>11, <1>12, <1>13, <1>14, <1>15 DEF Kept

\* TiRtcDisconnect() fails.
LEMMA DisconnectRefused ==
    ASSUME Kept, NEW t \in Threads, NEW c, c = ConnOf(t), AtStep(t, "disconnect"),
           Then(t, <<Mark(c)>>), "disconnect" \in fails,
           UNCHANGED <<active, live, session, link, sdk, fails, fate>>
    PROVE  Kept'
<1>0. "disconnect" \in (SessionKinds \ ClaimPlaces) \cup RawKinds
  BY DEF SessionKinds, RawKinds, ClaimPlaces
<1>1. /\ c \in Conns /\ Due(t, "disconnect", c) /\ \A d : Due(t, "disconnect", d) => d = c
  BY <1>0, AtConn DEF Kept
<1>m. \A k, d : Due(t, k, d) /\ k # "disconnect" => MayFollow("disconnect", k)
  BY <1>0, AtConn DEF Kept
<1>2. /\ todo' \in [Threads -> Seq(Steps)] /\ Planned'
      /\ \A u \in Threads : \A k, d :
             Due(u, k, d)' <=> \/ u = t /\ k = "mark" /\ d = c
                               \/ Due(u, k, d) /\ ~(u = t /\ k = "disconnect")
  <2> DEFINE x == Mark(c)
  <2>1. x \in Steps /\ Kind(x) = "mark" /\ Of(x) = c /\ Then(t, <<x>>)
    BY <1>1, MadeSteps
  <2> HIDE DEF x
  <2>2. \A k, d : Due(t, k, d) /\ k # "disconnect" => MayFollow(Kind(x), k)
    BY <1>m, <2>1 DEF MayFollow, EndKinds
  <2>3. QED
    BY <1>0, <2>1, <2>2, ThenAt DEF Kept
<1>3. /\ ~session[c].finalized /\ session[c].scheduled /\ ~Closing(c)
      /\ session[c].memory # "none" /\ ~Due(Sdk, "register", c)
      /\ \A u \in Threads : (Holds(u, c) => u = t) /\ ~Due(u, "free", c) /\ ~Due(u, "unlist", c)
  <2>1. Holds(t, c)
    BY <1>1 DEF Holds
  <2>2. /\ ~session[c].finalized /\ session[c].scheduled /\ ~Closing(c)
        /\ \A u \in Threads : Holds(u, c) => u = t
    BY <1>1, <2>1 DEF Kept, Handed
  <2>3. \A u \in Threads : ~Due(u, "free", c)
    BY <1>1, <2>2 DEF Kept, Handed
  <2>4. \A u \in Threads : ~Due(u, "unlist", c)
    BY <1>1, <2>3 DEF Kept, Whole
  <2>5. session[c].memory # "none" /\ ~Due(Sdk, "register", c)
    BY <1>1, <2>2 DEF Kept, Referred, SessionKinds
  <2>6. QED
    BY <2>2, <2>3, <2>4, <2>5
<1>4. /\ \A u \in Threads : \A k, d :
             Due(u, k, d)' => Due(u, k, d) \/ (u = t /\ k = "mark" /\ d = c)
      /\ \A u \in Threads : \A k, d :
             k \notin {"mark", "disconnect"} => (Due(u, k, d)' <=> Due(u, k, d))
  BY <1>2
<1>5. /\ t = Cleaner(c) /\ t # Main /\ t # Sdk
      /\ session[c].worker = "ended" /\ ~Due(t, "launch", c) /\ ~Due(t, "mark", c)
      /\ ~Due(t, "join", c)
  <2>1. t = Cleaner(c) /\ t # Main /\ t # Sdk
    BY <1>1, Apart DEF Kept, Assigned
  <2>2. ~Due(t, "launch", c) /\ ~Due(t, "mark", c) /\ ~Due(t, "join", c)
    BY <1>m DEF MayFollow, EndKinds
  <2>3. session[c].worker = "ended"
    BY <1>1, <2>1, <2>2 DEF Kept, Worked
  <2>4. QED
    BY <2>1, <2>2, <2>3
<1>6. SessionTypeOK'
  BY <1>2, <1>1, <1>3, <1>4, <1>5, Apart DEF Kept, SessionTypeOK, Session
<1>7. Assigned'
  BY <1>1, <1>3, <1>4, <1>5, Apart DEF Kept, Assigned
<1>8. Whole'
  <2>1. \A d : Due(t, "disconnect", d) => ~Due(t, "join", d)
    BY <1>1, <1>5
  <2>2. \A u \in Threads, d \in Conns : u # t => (Due(u, "disconnect", d)' <=> Due(u, "disconnect", d))
    BY <1>2
  <2>3. \A d : ~Due(t, "join", d)
    BY <1>m DEF MayFollow, EndKinds
  <2>4. QED
    BY <1>4, <2>2, <2>3 DEF Kept, Whole
<1>9. Onward'
  BY <1>1, <1>3, <1>4, <1>5, Apart DEF Kept, Onward
<1>10. Handed'
  <2>1. \A u \in Threads : Holds(u, c)' => u = t
    BY <1>1, <1>3, <1>4 DEF Holds
  <2>2. \A u \in Threads, d \in Conns : d # c => (Holds(u, d)' => Holds(u, d))
    BY <1>4 DEF Holds
  <2>3. \A d \in Conns : Closing(d)' <=> Closing(d)
    BY DEF Closing
  <2>4. QED
    BY <1>1, <1>3, <1>4, <2>1, <2>2, <2>3 DEF Kept, Handed
<1>11. Referred'
  BY <1>1, <1>3, <1>4, <1>5, Apart DEF Kept, Referred
<1>12. Worked'
  BY <1>1, <1>3, <1>4, <1>5, Apart DEF Kept, Worked, Closing
<1>13. Ending'
  BY <1>1, <1>3, <1>4, <1>5, Apart DEF Kept, Ending, Leaving, InTime
<1>14. Failing'
  BY <1>1, <1>3, <1>4, <1>5, Apart DEF Kept, Failing
<1>15. Counted'
  BY <1>1, <1>3, <1>4, <1>5, Apart DEF Kept, Counted, OnList
<1>16. QED
  BY <1>2, <1>6, <1>7, <1>8, <1>9, <1>10, <1>11, <1>12, <1>13, <1>14, <1>15 DEF Kept

\* schedule_raw_disconnect() creates its worker.
LEMMA LaunchRawStep ==
    ASSUME Kept, NEW t \in Threads, NEW c, c = ConnOf(t), AtStep(t, "launch_raw"),
           LaunchesRaw(t, c),
           UNCHANGED <<active, live, session, link, sdk, fails, fate>>
    PROVE  Kept'
<1>0. "launch_raw" \in (SessionKinds \ ClaimPlaces) \cup RawKinds
  BY DEF SessionKinds, RawKinds, ClaimPlaces
<1>1. /\ c \in Conns /\ Due(t, "launch_raw", c) /\ \A d : Due(t, "launch_raw", d) => d = c
  BY <1>0, AtConn DEF Kept
<1>m. \A k, d : Due(t, k, d) /\ k # "launch_raw" => MayFollow("launch_raw", k)
  BY <1>0, AtConn DEF Kept
<1>2. t = Sdk /\ t # Raw(c) /\ Raw(c) \in Threads
  BY <1>1, Apart DEF Kept, Assigned
<1>3. /\ todo' \in [Threads -> Seq(Steps)] /\ Planned'
      /\ \A u \in Threads : \A k, d :
             u # Raw(c) => (Due(u, k, d)' <=> Due(u, k, d) /\ ~(u = t /\ k = "launch_raw"))
      /\ \A k, d : Due(Raw(c), k, d)' <=> k = "raw_disconnect" /\ d = c
  <2>1. SessionTypeOK /\ Planned
    BY DEF Kept
  <2>2. QED
    BY <1>1, <1>2, <2>1, LaunchRawAt
<1>4. /\ \A u \in Threads : \A k, d :
             Due(u, k, d)' => Due(u, k, d) \/ (u = Raw(c) /\ k = "raw_disconnect" /\ d = c)
      /\ \A d \in Conns : \A k : Due(Raw(c), k, d) /\ k \in SessionKinds => FALSE
  <2>1. \A d \in Conns : \A k : Due(Raw(c), k, d) /\ k \in SessionKinds => FALSE
    BY <1>1, <1>2, Apart DEF Kept, Assigned, SessionKinds, ClaimPlaces
  <2>2. QED
    BY <1>3, <2>1
<1>5. \A u \in Threads, d \in Conns : \A k \in SessionKinds : Due(u, k, d)' <=> Due(u, k, d)
  <2>1. \A k \in SessionKinds : k # "launch_raw" /\ k # "raw_disconnect"
    BY DEF SessionKinds, ClaimPlaces
  <2>2. QED
    BY <1>3, <1>4, <2>1
<1>6. \A u \in Threads, d \in Conns :
          /\ Due(u, "register", d)' <=> Due(u, "register", d)
          /\ Due(u, "enable", d)' <=> Due(u, "enable", d)
          /\ Due(u, "launch", d)' <=> Due(u, "launch", d)
          /\ Due(u, "mark", d)' <=> Due(u, "mark", d)
          /\ Due(u, "unlist", d)' <=> Due(u, "unlist", d)
          /\ Due(u, "stop", d)' <=> Due(u, "stop", d)
          /\ Due(u, "join", d)' <=> Due(u, "join", d)
          /\ Due(u, "free", d)' <=> Due(u, "free", d)
          /\ Due(u, "disconnect", d)' <=> Due(u, "disconnect", d)
          /\ Due(u, "claim_on_replacement", d)' <=> Due(u, "claim_on_replacement", d)
  BY <1>5 DEF SessionKinds, ClaimPlaces
<1>7. \A k, d : Due(Main, k, d)' <=> Due(Main, k, d)
  BY <1>1, <1>2, <1>3, Apart
<1>8. SessionTypeOK'
  BY <1>3, <1>1, <1>4, <1>5, <1>6, <1>7, Apart DEF Kept, SessionTypeOK, Session
<1>9. Assigned'
  BY <1>1, <1>4, <1>5, <1>6, <1>7, Apart DEF Kept, Assigned
<1>10. Whole'
  BY <1>1, <1>4, <1>5, <1>6, <1>7, Apart DEF Kept, Whole
<1>11. Onward'
  BY <1>1, <1>4, <1>5, <1>6, <1>7, Apart DEF Kept, Onward
<1>12. Handed'
  BY <1>1, <1>4, <1>5, <1>6, <1>7, Apart DEF Kept, Handed, Holds, Closing
<1>13. Referred'
  <2>1. /\ session[c].memory = "none" /\ link[c] # "none" /\ "session" \in fails
    BY <1>1, <1>2 DEF Kept, Referred
  <2>2. \A d \in Conns : /\ Due(Sdk, "launch_raw", d)' => Due(Sdk, "launch_raw", d)
                         /\ Due(Raw(d), "raw_disconnect", d)' =>
                                Due(Raw(d), "raw_disconnect", d) \/ d = c
    BY <1>1, <1>4, Apart
  <2>3. QED
    BY <1>5, <1>6, <1>7, <2>1, <2>2, Apart DEF Kept, Referred
<1>14. Worked'
  BY <1>1, <1>4, <1>5, <1>6, <1>7, Apart DEF Kept, Worked, Closing
<1>15. Ending'
  <2>1. \A k, d : Due(Sdk, k, d)' => Due(Sdk, k, d)
    BY <1>1, <1>4, Apart
  <2>2. QED
    BY <1>6, <1>7, <2>1, Apart DEF Kept, Ending, Leaving, InTime
<1>16. Failing'
  BY <1>1, <1>4, <1>5, <1>6, <1>7, Apart DEF Kept, Failing
<1>17. Counted'
  BY <1>1, <1>4, <1>5, <1>6, <1>7, Apart DEF Kept, Counted, OnList
<1>18. QED
  BY <1>3, <1>8, <1>9, <1>10, <1>11, <1>12, <1>13, <1>14, <1>15, <1>16, <1>17 DEF Kept

\* on_conn_accepted(), under the mutex of the application.
LEMMA RegisterStep ==
    ASSUME Kept, NEW t \in Threads, NEW c, c = ConnOf(t), AtStep(t, "register"),
           active' = c, live' = live + 1,
           Then(t, <<Enable(c)>> \o
                   IF active = 0 THEN <<>> ELSE <<Claim(active, "claim_on_replacement")>>),
           UNCHANGED <<session, link, sdk, fails, fate>>
    PROVE  Kept'
<1>0. "register" \in (SessionKinds \ ClaimPlaces) \cup RawKinds
  BY DEF SessionKinds, RawKinds, ClaimPlaces
<1>1. /\ c \in Conns /\ Due(t, "register", c) /\ \A d : Due(t, "register", d) => d = c
  BY <1>0, AtConn DEF Kept
<1>m. \A k, d : Due(t, k, d) /\ k # "register" => MayFollow("register", k)
  BY <1>0, AtConn DEF Kept
<1>2. /\ todo' \in [Threads -> Seq(Steps)] /\ Planned'
      /\ \A u \in Threads : \A k, d :
             u # t => (Due(u, k, d)' <=> Due(u, k, d))
      /\ \A k, d : Due(t, k, d)' <=>
             \/ k = "enable" /\ d = c
             \/ k = "claim_on_replacement" /\ d = active /\ active \in Conns
  <2>1. SessionTypeOK /\ Planned
    BY DEF Kept
  <2>2. QED
    BY <1>1, <2>1, RegisterAt
<1>3. /\ t = Sdk /\ session[c].memory = "held" /\ ~session[c].scheduled /\ active # c
      /\ ~session[c].finalized /\ link[c] # "closed"
  <2>1. t = Sdk
    BY <1>1 DEF Kept, Assigned
  <2>2. session[c].memory = "held" /\ ~session[c].scheduled /\ active # c
    BY <1>1, <2>1 DEF Kept, Referred
  <2>3. ~session[c].finalized
    BY <1>1, <2>2 DEF Kept, Handed
  <2>4. link[c] # "closed"
    BY <1>1, <2>1 DEF Kept, Failing
  <2>5. QED
    BY <2>1, <2>2, <2>3, <2>4
<1>4. /\ \A k, d : ~(Due(t, k, d) /\ k # "register")
      /\ \A d : ~Due(t, "register", d)'
  <2>1. \A k, d : ~(Due(t, k, d) /\ k # "register")
    BY <1>m DEF MayFollow, EndKinds
  <2>2. QED
    BY <1>2, <2>1
<1>5. /\ \A u \in Threads : \A k, d :
             Due(u, k, d)' => \/ Due(u, k, d)
                              \/ u = t /\ k = "enable" /\ d = c
                              \/ u = t /\ k = "claim_on_replacement" /\ d = active /\ active \in Conns
      /\ \A u \in Threads : \A k, d :
             k \notin {"register", "enable", "claim_on_replacement"} =>
                 (Due(u, k, d)' <=> Due(u, k, d))
      /\ \A k, d : Due(Main, k, d)' <=> Due(Main, k, d)
  BY <1>2, <1>3, <1>4, Apart
<1>6. sdk \in {"running", "stopping"} \/ (sdk = "gone" /\ ~InTime)
  BY <1>1, <1>3 DEF Kept, Ending, SessionTypeOK
<1>7. active \in Conns => /\ session[active].memory = "held"
                          /\ \A k \in SessionKinds : ~Due(Main, k, active)
                          /\ session[active].finalized => \E u \in Threads : Due(u, "unlist", active)
  <2>1. active \in Conns => OnList(active)
    BY DEF Kept, Counted
  <2>2. active \in Conns => \A k \in SessionKinds : ~Due(Main, k, active)
    BY DEF Kept, Referred
  <2>3. QED
    BY <2>1, <2>2 DEF OnList
<1>8. active \in Conns /\ "disconnect" \notin fails =>
          ~session[active].finalized /\ \A u \in Threads : ~Due(u, "mark", active)
  <2> SUFFICES ASSUME active \in Conns, "disconnect" \notin fails
               PROVE  /\ \A u \in Threads : ~Due(u, "unlist", active)
                      /\ \A u \in Threads : ~Due(u, "mark", active)
    BY <1>7
  <2>1. "mark" \in SessionKinds /\ "unlist" \in SessionKinds
    BY DEF SessionKinds
  <2>2. \A k \in {"mark", "unlist"} : ~Due(Main, k, active) /\ ~Due(Sdk, k, active)
    BY <1>3, <1>4, <1>7, <2>1
  <2>3. ~Due(Cleaner(active), "mark", active) /\ ~Due(Cleaner(active), "free", active)
    BY DEF Kept, Failing
  <2>4. ~Due(Cleaner(active), "unlist", active)
    BY <2>3, Apart DEF Kept, Whole
  <2>5. \A u \in Threads : \A k \in {"mark", "unlist"} :
            Due(u, k, active) => u \in {Main, Sdk, Cleaner(active)}
    BY DEF Kept, Assigned
  <2>6. QED
    BY <2>2, <2>3, <2>4, <2>5
<1>9. ~OnList(c) /\ OnList(c)' /\ \A d \in Conns : d # c => (OnList(d)' <=> OnList(d))
  <2>1. ~OnList(c)
    BY <1>1, <1>3 DEF OnList
  <2>2. OnList(c)'
    BY <1>3, <1>4 DEF OnList
  <2>3. \A d \in Conns : d # c => (Due(Sdk, "register", d)' <=> Due(Sdk, "register", d))
    BY <1>1, <1>3, <1>4
  <2>4. \A d \in Conns, u \in Threads : Due(u, "unlist", d)' <=> Due(u, "unlist", d)
    BY <1>5
  <2>5. \A d \in Conns : d # c => (OnList(d)' <=> OnList(d))
    BY <2>3, <2>4 DEF OnList
  <2>6. QED
    BY <2>1, <2>2, <2>5
<1>10. SessionTypeOK'
  BY <1>2, <1>1, <1>3, <1>5, Apart, <1>6, ConnFacts DEF Kept, SessionTypeOK, Session
<1>11. Assigned'
  BY <1>1, <1>3, <1>5, Apart DEF Kept, Assigned
<1>12. Whole'
  BY <1>1, <1>3, <1>5, Apart DEF Kept, Whole
<1>13. Onward'
  BY <1>1, <1>3, <1>5, Apart DEF Kept, Onward
<1>14. Handed'
  <2>1. \A u \in Threads, d \in Conns : Holds(u, d)' <=> Holds(u, d)
    BY <1>5 DEF Holds
  <2>2. \A d \in Conns : Closing(d)' <=> Closing(d)
    BY DEF Closing
  <2>3. QED
    BY <1>5, <2>1, <2>2 DEF Kept, Handed
<1>15. Referred'
  <2>1. \A u \in Threads, d \in Conns : \A k \in SessionKinds :
            Due(u, k, d)' => session[d].memory # "none"
    BY <1>3, <1>5, <1>7 DEF Kept, Referred
  <2>2. \A d \in Conns : \A k \in SessionKinds :
            Due(Main, k, d)' => active' # d /\ ~Due(Sdk, "register", d)'
    BY <1>1, <1>3, <1>4, <1>5 DEF Kept, Referred
  <2>3. QED
    BY <1>3, <1>4, <1>5, <2>1, <2>2, Apart DEF Kept, Referred
<1>16. Worked'
  BY <1>1, <1>3, <1>5, Apart DEF Kept, Worked, Closing
<1>17. Ending'
  <2>1. ~(sdk = "stopped" \/ (sdk = "gone" /\ InTime))
    BY <1>6
  <2>2. InTime /\ Leaving => Due(Main, "await_cleanup", NoConn)
    <3>1. InTime => sdk \notin {"stopped", "gone"}
      BY <1>6
    <3>2. QED
      BY <3>1 DEF Kept, Ending, Onward
  <2>3. (Leaving' <=> Leaving) /\ (InTime' <=> InTime)
    BY <1>5 DEF Leaving, InTime
  <2>4. sdk' = sdk
    OBVIOUS
  <2>5. QED
    BY <1>5, <2>1, <2>2, <2>3, <2>4, Apart DEF Kept, Ending
<1>18. Failing'
  <2>1. \A d \in Conns : Due(Sdk, "claim_on_replacement", d)' => d = active /\ active \in Conns
    BY <1>2, <1>3
  <2>2. \A d \in Conns : \A k \in {"register", "enable", "claim_on_error"} :
            Due(Sdk, k, d)' => Due(Sdk, k, d) \/ d = c
    BY <1>5, Apart
  <2>3. QED
    BY <1>3, <1>5, <1>7, <1>8, <2>1, <2>2, Apart DEF Kept, Failing
<1>19. Counted'
  <2> DEFINE S == {d \in Conns : OnList(d)}
             T == {d \in Conns : OnList(d)'}
  <2>1. T = S \cup {c} /\ c \notin S
    BY <1>1, <1>9
  <2>2. IsFiniteSet(S)
    BY ConnFacts, FS_Subset
  <2>3. live = Cardinality(S) /\ live \in Nat
    BY DEF Kept, Counted, SessionTypeOK
  <2> HIDE DEF S
  <2>4. Cardinality(T) = Cardinality(S) + 1
    BY <2>1, <2>2, FS_AddElement
  <2>5. live' = Cardinality(T)
    BY <2>3, <2>4
  <2>6. \A d \in Conns : d = active' => OnList(d)'
    BY <1>9
  <2>7. QED
    BY <2>5, <2>6 DEF Counted
<1>20. QED
  BY <1>2, <1>10, <1>11, <1>12, <1>13, <1>14, <1>15, <1>16, <1>17, <1>18, <1>19 DEF Kept

\* main() goes on.
LEMMA CarryEnd ==
    ASSUME SessionTypeOK, Planned, NEW what \in EndKinds, AtStep(Main, what), Carry(Main)
    PROVE  /\ todo' \in [Threads -> Seq(Steps)] /\ Planned'
           /\ \A u \in Threads : \A k, d :
                  Due(u, k, d)' <=> Due(u, k, d) /\ ~(u = Main /\ k = what)
<1>1. ~Idling(Main) /\ Kind(Head(todo[Main])) = what
  BY AtEnd
<1>2. /\ todo' \in [Threads -> Seq(Steps)] /\ Planned'
      /\ \A k, c : Due(Main, k, c)' <=> Due(Main, k, c) /\ k # Kind(Head(todo[Main]))
      /\ Others({Main})
  BY <1>1, CarryGoes, Apart
<1>3. QED
  BY <1>1, <1>2 DEF Others

\* main() calls TiRtcStop(), which may fail.
LEMMA StopSdkStep ==
    ASSUME Kept, AtStep(Main, "stop_sdk"), Carry(Main), sdk' \in {"stopping", sdk},
           UNCHANGED <<active, live, session, link, fails, fate>>
    PROVE  Kept'
<1>1. /\ Due(Main, "stop_sdk", NoConn)
      /\ \A k, d : Due(Main, k, d) /\ k # "stop_sdk" => MayFollow("stop_sdk", k)
  <2>1. "stop_sdk" \in EndKinds
    BY DEF EndKinds
  <2>2. QED
    BY <2>1, AtEnd DEF Kept
<1>2. /\ todo' \in [Threads -> Seq(Steps)] /\ Planned'
      /\ \A u \in Threads : \A k, d :
             Due(u, k, d)' <=> Due(u, k, d) /\ ~(u = Main /\ k = "stop_sdk")
  <2>1. "stop_sdk" \in EndKinds
    BY DEF EndKinds
  <2>2. QED
    BY <2>1, CarryEnd DEF Kept
<1>3. /\ \A u \in Threads, c \in Conns : \A k \in SessionKinds \cup RawKinds :
             Due(u, k, c)' <=> Due(u, k, c)
      /\ \A k, d : Due(Sdk, k, d)' <=> Due(Sdk, k, d)
  <2>1. \A k \in SessionKinds \cup RawKinds : k # "stop_sdk"
    BY DEF SessionKinds, RawKinds, ClaimPlaces
  <2>2. QED
    BY <1>2, <2>1, Apart
<1>4. \A u \in Threads, d \in Conns :
          /\ Due(u, "register", d)' <=> Due(u, "register", d)
          /\ Due(u, "enable", d)' <=> Due(u, "enable", d)
          /\ Due(u, "launch", d)' <=> Due(u, "launch", d)
          /\ Due(u, "launch_raw", d)' <=> Due(u, "launch_raw", d)
          /\ Due(u, "mark", d)' <=> Due(u, "mark", d)
          /\ Due(u, "unlist", d)' <=> Due(u, "unlist", d)
          /\ Due(u, "stop", d)' <=> Due(u, "stop", d)
          /\ Due(u, "join", d)' <=> Due(u, "join", d)
          /\ Due(u, "free", d)' <=> Due(u, "free", d)
          /\ Due(u, "disconnect", d)' <=> Due(u, "disconnect", d)
          /\ Due(u, "raw_disconnect", d)' <=> Due(u, "raw_disconnect", d)
          /\ Due(u, "claim_on_replacement", d)' <=> Due(u, "claim_on_replacement", d)
          /\ Due(u, "claim_on_error", d)' <=> Due(u, "claim_on_error", d)
  BY <1>3 DEF SessionKinds, RawKinds, ClaimPlaces
<1>5. \A u \in Threads : \A k, d : Due(u, k, d)' => Due(u, k, d)
  BY <1>2
<1>6. \A k \in SessionKinds, c \in Conns : ~Due(Main, k, c)
  <2>1. \A k \in SessionKinds : k # "stop_sdk" /\ ~MayFollow("stop_sdk", k)
    BY DEF MayFollow, EndKinds, SessionKinds, ClaimPlaces
  <2>2. QED
    BY <1>1, <2>1
<1>7. SessionTypeOK'
  BY <1>2, <1>1, <1>3, <1>4, <1>5, Apart DEF Kept, SessionTypeOK, Session
<1>8. Assigned'
  BY <1>1, <1>3, <1>4, <1>5, Apart DEF Kept, Assigned
<1>9. Whole'
  BY <1>1, <1>3, <1>4, <1>5, Apart DEF Kept, Whole
<1>10. Onward'
  <2>1. \A k, d : Due(Main, k, d)' <=> Due(Main, k, d) /\ k # "stop_sdk"
    BY <1>2, Apart
  <2>2. ~Due(Main, "stop_sdk", NoConn)'
    BY <2>1
  <2>3. TRUE
    BY <1>1 DEF MayFollow, EndKinds
  <2>4. \A k \in SessionKinds, c \in Conns : ~Due(Main, k, c)'
    BY <1>6, <2>1
  <2>5. QED
    BY <1>1, <2>1, <2>2, <2>3, <2>4, Apart DEF Kept, Onward
<1>11. Handed'
  <2>1. \A u \in Threads, d \in Conns : Holds(u, d)' <=> Holds(u, d)
    BY <1>4 DEF Holds
  <2>2. \A d \in Conns : Closing(d)' <=> Closing(d)
    BY DEF Closing
  <2>3. QED
    BY <1>4, <2>1, <2>2 DEF Kept, Handed
<1>12. Referred'
  <2>1. \A k, d : Due(Main, k, d)' => Due(Main, k, d)
    BY <1>5, Apart
  <2>2. QED
    BY <1>3, <1>4, <2>1, Apart DEF Kept, Referred
<1>13. Worked'
  <2>1. \A d \in Conns : Closing(d)' <=> Closing(d)
    BY DEF Closing
  <2>2. QED
    BY <1>4, <2>1, Apart DEF Kept, Worked
<1>14. Ending'
  <2>1. /\ \A k, d : Due(Main, k, d)' <=> Due(Main, k, d) /\ k # "stop_sdk"
        /\ \A k, d : Due(Sdk, k, d)' <=> Due(Sdk, k, d)
    BY <1>2, <1>3, Apart
  <2>2. Leaving
    <3>1. "stop_sdk" \in Kinds /\ NoConn \in ConnOrNone
      BY ConnFacts DEF Kinds, EndKinds
    <3>2. QED
      BY <1>1, <3>1 DEF Kept, Onward, Leaving
  <2>3. Leaving' /\ (InTime' <=> InTime)
    BY <2>1, <2>2 DEF Leaving, InTime
  <2>4. TRUE
    BY <1>1 DEF MayFollow, EndKinds
  <2>5. sdk = "running" /\ Due(Main, "await_stop", NoConn) /\ Due(Main, "await_cleanup", NoConn)
    BY <1>1 DEF Kept, Ending, Onward
  <2>6. sdk' \in {"running", "stopping"}
    BY <2>5
  <2>7. QED
    BY <2>1, <2>3, <2>5, <2>6 DEF Ending
<1>15. Failing'
  BY <1>1, <1>3, <1>4, <1>5, Apart DEF Kept, Failing
<1>16. Counted'
  <2>1. \A d \in Conns : OnList(d)' <=> OnList(d)
    BY <1>4, Apart DEF OnList
  <2>2. QED
    BY <2>1, ListKept DEF Kept
<1>17. QED
  BY <1>2, <1>7, <1>8, <1>9, <1>10, <1>11, <1>12, <1>13, <1>14, <1>15, <1>16 DEF Kept

\* main() has waited for the SDK to stop.
LEMMA AwaitStopStep ==
    ASSUME Kept, AtStep(Main, "await_stop"), Carry(Main), sdk = "stopped" \/ ~InTime,
           UNCHANGED <<active, live, session, link, sdk, fails, fate>>
    PROVE  Kept'
<1>1. /\ Due(Main, "await_stop", NoConn)
      /\ \A k, d : Due(Main, k, d) /\ k # "await_stop" => MayFollow("await_stop", k)
  <2>1. "await_stop" \in EndKinds
    BY DEF EndKinds
  <2>2. QED
    BY <2>1, AtEnd DEF Kept
<1>2. /\ todo' \in [Threads -> Seq(Steps)] /\ Planned'
      /\ \A u \in Threads : \A k, d :
             Due(u, k, d)' <=> Due(u, k, d) /\ ~(u = Main /\ k = "await_stop")
  <2>1. "await_stop" \in EndKinds
    BY DEF EndKinds
  <2>2. QED
    BY <2>1, CarryEnd DEF Kept
<1>3. /\ \A u \in Threads, c \in Conns : \A k \in SessionKinds \cup RawKinds :
             Due(u, k, c)' <=> Due(u, k, c)
      /\ \A k, d : Due(Sdk, k, d)' <=> Due(Sdk, k, d)
  <2>1. \A k \in SessionKinds \cup RawKinds : k # "await_stop"
    BY DEF SessionKinds, RawKinds, ClaimPlaces
  <2>2. QED
    BY <1>2, <2>1, Apart
<1>4. \A u \in Threads, d \in Conns :
          /\ Due(u, "register", d)' <=> Due(u, "register", d)
          /\ Due(u, "enable", d)' <=> Due(u, "enable", d)
          /\ Due(u, "launch", d)' <=> Due(u, "launch", d)
          /\ Due(u, "launch_raw", d)' <=> Due(u, "launch_raw", d)
          /\ Due(u, "mark", d)' <=> Due(u, "mark", d)
          /\ Due(u, "unlist", d)' <=> Due(u, "unlist", d)
          /\ Due(u, "stop", d)' <=> Due(u, "stop", d)
          /\ Due(u, "join", d)' <=> Due(u, "join", d)
          /\ Due(u, "free", d)' <=> Due(u, "free", d)
          /\ Due(u, "disconnect", d)' <=> Due(u, "disconnect", d)
          /\ Due(u, "raw_disconnect", d)' <=> Due(u, "raw_disconnect", d)
          /\ Due(u, "claim_on_replacement", d)' <=> Due(u, "claim_on_replacement", d)
          /\ Due(u, "claim_on_error", d)' <=> Due(u, "claim_on_error", d)
  BY <1>3 DEF SessionKinds, RawKinds, ClaimPlaces
<1>5. \A u \in Threads : \A k, d : Due(u, k, d)' => Due(u, k, d)
  BY <1>2
<1>6. \A k \in SessionKinds, c \in Conns : ~Due(Main, k, c)
  <2>1. \A k \in SessionKinds : k # "await_stop" /\ ~MayFollow("await_stop", k)
    BY DEF MayFollow, EndKinds, SessionKinds, ClaimPlaces
  <2>2. QED
    BY <1>1, <2>1
<1>7. SessionTypeOK'
  BY <1>2, <1>1, <1>3, <1>4, <1>5, Apart DEF Kept, SessionTypeOK, Session
<1>8. Assigned'
  BY <1>1, <1>3, <1>4, <1>5, Apart DEF Kept, Assigned
<1>9. Whole'
  BY <1>1, <1>3, <1>4, <1>5, Apart DEF Kept, Whole
<1>10. Onward'
  <2>1. \A k, d : Due(Main, k, d)' <=> Due(Main, k, d) /\ k # "await_stop"
    BY <1>2, Apart
  <2>2. ~Due(Main, "await_stop", NoConn)'
    BY <2>1
  <2>3. ~Due(Main, "stop_sdk", NoConn)
    BY <1>1 DEF MayFollow, EndKinds
  <2>4. \A k \in SessionKinds, c \in Conns : ~Due(Main, k, c)'
    BY <1>6, <2>1
  <2>5. QED
    BY <1>1, <2>1, <2>2, <2>3, <2>4, Apart DEF Kept, Onward
<1>11. Handed'
  <2>1. \A u \in Threads, d \in Conns : Holds(u, d)' <=> Holds(u, d)
    BY <1>4 DEF Holds
  <2>2. \A d \in Conns : Closing(d)' <=> Closing(d)
    BY DEF Closing
  <2>3. QED
    BY <1>4, <2>1, <2>2 DEF Kept, Handed
<1>12. Referred'
  <2>1. \A k, d : Due(Main, k, d)' => Due(Main, k, d)
    BY <1>5, Apart
  <2>2. QED
    BY <1>3, <1>4, <2>1, Apart DEF Kept, Referred
<1>13. Worked'
  <2>1. \A d \in Conns : Closing(d)' <=> Closing(d)
    BY DEF Closing
  <2>2. QED
    BY <1>4, <2>1, Apart DEF Kept, Worked
<1>14. Ending'
  <2>1. /\ \A k, d : Due(Main, k, d)' <=> Due(Main, k, d) /\ k # "await_stop"
        /\ \A k, d : Due(Sdk, k, d)' <=> Due(Sdk, k, d)
    BY <1>2, <1>3, Apart
  <2>2. Leaving
    <3>1. "await_stop" \in Kinds /\ NoConn \in ConnOrNone
      BY ConnFacts DEF Kinds, EndKinds
    <3>2. QED
      BY <1>1, <3>1 DEF Kept, Onward, Leaving
  <2>3. Leaving' /\ (InTime' <=> InTime)
    BY <2>1, <2>2 DEF Leaving, InTime
  <2>4. ~Due(Main, "stop_sdk", NoConn)
    BY <1>1 DEF MayFollow, EndKinds
  <2>5. Due(Main, "await_cleanup", NoConn)
    BY <1>1 DEF Kept, Onward
  <2>6. sdk # "gone"
    <3>1. "await_stop" \in Kinds /\ NoConn \in ConnOrNone /\ "await_stop" # "exit"
      BY ConnFacts DEF Kinds, EndKinds
    <3>2. QED
      BY <1>1, <3>1 DEF Kept, Ending
  <2>7. QED
    BY <1>4, <2>1, <2>2, <2>3, <2>4, <2>5, <2>6 DEF Kept, Ending
<1>15. Failing'
  BY <1>1, <1>3, <1>4, <1>5, Apart DEF Kept, Failing
<1>16. Counted'
  <2>1. \A d \in Conns : OnList(d)' <=> OnList(d)
    BY <1>4, Apart DEF OnList
  <2>2. QED
    BY <2>1, ListKept DEF Kept
<1>17. QED
  BY <1>2, <1>7, <1>8, <1>9, <1>10, <1>11, <1>12, <1>13, <1>14, <1>15, <1>16 DEF Kept

\* main() has waited for the sessions to be counted out.
LEMMA AwaitCleanupStep ==
    ASSUME Kept, AtStep(Main, "await_cleanup"), Carry(Main), live = 0 \/ ~InTime,
           UNCHANGED <<active, live, session, link, sdk, fails, fate>>
    PROVE  Kept'
<1>1. /\ Due(Main, "await_cleanup", NoConn)
      /\ \A k, d : Due(Main, k, d) /\ k # "await_cleanup" => MayFollow("await_cleanup", k)
  <2>1. "await_cleanup" \in EndKinds
    BY DEF EndKinds
  <2>2. QED
    BY <2>1, AtEnd DEF Kept
<1>2. /\ todo' \in [Threads -> Seq(Steps)] /\ Planned'
      /\ \A u \in Threads : \A k, d :
             Due(u, k, d)' <=> Due(u, k, d) /\ ~(u = Main /\ k = "await_cleanup")
  <2>1. "await_cleanup" \in EndKinds
    BY DEF EndKinds
  <2>2. QED
    BY <2>1, CarryEnd DEF Kept
<1>3. /\ \A u \in Threads, c \in Conns : \A k \in SessionKinds \cup RawKinds :
             Due(u, k, c)' <=> Due(u, k, c)
      /\ \A k, d : Due(Sdk, k, d)' <=> Due(Sdk, k, d)
  <2>1. \A k \in SessionKinds \cup RawKinds : k # "await_cleanup"
    BY DEF SessionKinds, RawKinds, ClaimPlaces
  <2>2. QED
    BY <1>2, <2>1, Apart
<1>4. \A u \in Threads, d \in Conns :
          /\ Due(u, "register", d)' <=> Due(u, "register", d)
          /\ Due(u, "enable", d)' <=> Due(u, "enable", d)
          /\ Due(u, "launch", d)' <=> Due(u, "launch", d)
          /\ Due(u, "launch_raw", d)' <=> Due(u, "launch_raw", d)
          /\ Due(u, "mark", d)' <=> Due(u, "mark", d)
          /\ Due(u, "unlist", d)' <=> Due(u, "unlist", d)
          /\ Due(u, "stop", d)' <=> Due(u, "stop", d)
          /\ Due(u, "join", d)' <=> Due(u, "join", d)
          /\ Due(u, "free", d)' <=> Due(u, "free", d)
          /\ Due(u, "disconnect", d)' <=> Due(u, "disconnect", d)
          /\ Due(u, "raw_disconnect", d)' <=> Due(u, "raw_disconnect", d)
          /\ Due(u, "claim_on_replacement", d)' <=> Due(u, "claim_on_replacement", d)
          /\ Due(u, "claim_on_error", d)' <=> Due(u, "claim_on_error", d)
  BY <1>3 DEF SessionKinds, RawKinds, ClaimPlaces
<1>5. \A u \in Threads : \A k, d : Due(u, k, d)' => Due(u, k, d)
  BY <1>2
<1>6. \A k \in SessionKinds, c \in Conns : ~Due(Main, k, c)
  <2>1. \A k \in SessionKinds : k # "await_cleanup" /\ ~MayFollow("await_cleanup", k)
    BY DEF MayFollow, EndKinds, SessionKinds, ClaimPlaces
  <2>2. QED
    BY <1>1, <2>1
<1>7. SessionTypeOK'
  BY <1>2, <1>1, <1>3, <1>4, <1>5, Apart DEF Kept, SessionTypeOK, Session
<1>8. Assigned'
  BY <1>1, <1>3, <1>4, <1>5, Apart DEF Kept, Assigned
<1>9. Whole'
  BY <1>1, <1>3, <1>4, <1>5, Apart DEF Kept, Whole
<1>10. Onward'
  <2>1. \A k, d : Due(Main, k, d)' <=> Due(Main, k, d) /\ k # "await_cleanup"
    BY <1>2, Apart
  <2>2. ~Due(Main, "await_cleanup", NoConn)'
    BY <2>1
  <2>3. ~Due(Main, "stop_sdk", NoConn) /\ ~Due(Main, "await_stop", NoConn)
    BY <1>1 DEF MayFollow, EndKinds
  <2>4. \A k \in SessionKinds, c \in Conns : ~Due(Main, k, c)'
    BY <1>6, <2>1
  <2>5. QED
    BY <1>1, <2>1, <2>2, <2>3, <2>4, Apart DEF Kept, Onward
<1>11. Handed'
  <2>1. \A u \in Threads, d \in Conns : Holds(u, d)' <=> Holds(u, d)
    BY <1>4 DEF Holds
  <2>2. \A d \in Conns : Closing(d)' <=> Closing(d)
    BY DEF Closing
  <2>3. QED
    BY <1>4, <2>1, <2>2 DEF Kept, Handed
<1>12. Referred'
  <2>1. \A k, d : Due(Main, k, d)' => Due(Main, k, d)
    BY <1>5, Apart
  <2>2. QED
    BY <1>3, <1>4, <2>1, Apart DEF Kept, Referred
<1>13. Worked'
  <2>1. \A d \in Conns : Closing(d)' <=> Closing(d)
    BY DEF Closing
  <2>2. QED
    BY <1>4, <2>1, Apart DEF Kept, Worked
<1>14. Ending'
  <2>1. /\ \A k, d : Due(Main, k, d)' <=> Due(Main, k, d) /\ k # "await_cleanup"
        /\ \A k, d : Due(Sdk, k, d)' <=> Due(Sdk, k, d)
    BY <1>2, <1>3, Apart
  <2>2. Leaving
    <3>1. "await_cleanup" \in Kinds /\ NoConn \in ConnOrNone
      BY ConnFacts DEF Kinds, EndKinds
    <3>2. QED
      BY <1>1, <3>1 DEF Kept, Onward, Leaving
  <2>3. Leaving' /\ (InTime' <=> InTime)
    BY <2>1, <2>2 DEF Leaving, InTime
  <2>4. ~Due(Main, "stop_sdk", NoConn) /\ ~Due(Main, "await_stop", NoConn)
    BY <1>1 DEF MayFollow, EndKinds
  <2>5. sdk # "gone"
    <3>1. "await_cleanup" \in Kinds /\ NoConn \in ConnOrNone /\ "await_cleanup" # "exit"
      BY ConnFacts DEF Kinds, EndKinds
    <3>2. QED
      BY <1>1, <3>1 DEF Kept, Ending
  <2>6. QED
    BY <1>4, <2>1, <2>2, <2>3, <2>4, <2>5 DEF Kept, Ending
<1>15. Failing'
  BY <1>1, <1>3, <1>4, <1>5, Apart DEF Kept, Failing
<1>16. Counted'
  <2>1. \A d \in Conns : OnList(d)' <=> OnList(d)
    BY <1>4, Apart DEF OnList
  <2>2. QED
    BY <2>1, ListKept DEF Kept
<1>17. QED
  BY <1>2, <1>7, <1>8, <1>9, <1>10, <1>11, <1>12, <1>13, <1>14, <1>15, <1>16 DEF Kept

\* main() calls TiRtcUninit().
LEMMA UninitStep ==
    ASSUME Kept, AtStep(Main, "uninit"), Carry(Main), sdk' = "gone",
           UNCHANGED <<active, live, session, link, fails, fate>>
    PROVE  Kept'
<1>1. /\ Due(Main, "uninit", NoConn)
      /\ \A k, d : Due(Main, k, d) /\ k # "uninit" => MayFollow("uninit", k)
  <2>1. "uninit" \in EndKinds
    BY DEF EndKinds
  <2>2. QED
    BY <2>1, AtEnd DEF Kept
<1>2. /\ todo' \in [Threads -> Seq(Steps)] /\ Planned'
      /\ \A u \in Threads : \A k, d :
             Due(u, k, d)' <=> Due(u, k, d) /\ ~(u = Main /\ k = "uninit")
  <2>1. "uninit" \in EndKinds
    BY DEF EndKinds
  <2>2. QED
    BY <2>1, CarryEnd DEF Kept
<1>3. /\ \A u \in Threads, c \in Conns : \A k \in SessionKinds \cup RawKinds :
             Due(u, k, c)' <=> Due(u, k, c)
      /\ \A k, d : Due(Sdk, k, d)' <=> Due(Sdk, k, d)
  <2>1. \A k \in SessionKinds \cup RawKinds : k # "uninit"
    BY DEF SessionKinds, RawKinds, ClaimPlaces
  <2>2. QED
    BY <1>2, <2>1, Apart
<1>4. \A u \in Threads, d \in Conns :
          /\ Due(u, "register", d)' <=> Due(u, "register", d)
          /\ Due(u, "enable", d)' <=> Due(u, "enable", d)
          /\ Due(u, "launch", d)' <=> Due(u, "launch", d)
          /\ Due(u, "launch_raw", d)' <=> Due(u, "launch_raw", d)
          /\ Due(u, "mark", d)' <=> Due(u, "mark", d)
          /\ Due(u, "unlist", d)' <=> Due(u, "unlist", d)
          /\ Due(u, "stop", d)' <=> Due(u, "stop", d)
          /\ Due(u, "join", d)' <=> Due(u, "join", d)
          /\ Due(u, "free", d)' <=> Due(u, "free", d)
          /\ Due(u, "disconnect", d)' <=> Due(u, "disconnect", d)
          /\ Due(u, "raw_disconnect", d)' <=> Due(u, "raw_disconnect", d)
          /\ Due(u, "claim_on_replacement", d)' <=> Due(u, "claim_on_replacement", d)
          /\ Due(u, "claim_on_error", d)' <=> Due(u, "claim_on_error", d)
  BY <1>3 DEF SessionKinds, RawKinds, ClaimPlaces
<1>5. \A u \in Threads : \A k, d : Due(u, k, d)' => Due(u, k, d)
  BY <1>2
<1>6. \A k \in SessionKinds, c \in Conns : ~Due(Main, k, c)
  <2>1. \A k \in SessionKinds : k # "uninit" /\ ~MayFollow("uninit", k)
    BY DEF MayFollow, EndKinds, SessionKinds, ClaimPlaces
  <2>2. QED
    BY <1>1, <2>1
<1>7. SessionTypeOK'
  BY <1>2, <1>1, <1>3, <1>4, <1>5, Apart DEF Kept, SessionTypeOK, Session
<1>8. Assigned'
  BY <1>1, <1>3, <1>4, <1>5, Apart DEF Kept, Assigned
<1>9. Whole'
  BY <1>1, <1>3, <1>4, <1>5, Apart DEF Kept, Whole
<1>10. Onward'
  <2>1. \A k, d : Due(Main, k, d)' <=> Due(Main, k, d) /\ k # "uninit"
    BY <1>2, Apart
  <2>2. ~Due(Main, "uninit", NoConn)'
    BY <2>1
  <2>3. /\ ~Due(Main, "stop_sdk", NoConn) /\ ~Due(Main, "await_stop", NoConn)
       /\ ~Due(Main, "await_cleanup", NoConn)
    BY <1>1 DEF MayFollow, EndKinds
  <2>4. \A k \in SessionKinds, c \in Conns : ~Due(Main, k, c)'
    BY <1>6, <2>1
  <2>5. QED
    BY <1>1, <2>1, <2>2, <2>3, <2>4, Apart DEF Kept, Onward
<1>11. Handed'
  <2>1. \A u \in Threads, d \in Conns : Holds(u, d)' <=> Holds(u, d)
    BY <1>4 DEF Holds
  <2>2. \A d \in Conns : Closing(d)' <=> Closing(d)
    BY DEF Closing
  <2>3. QED
    BY <1>4, <2>1, <2>2 DEF Kept, Handed
<1>12. Referred'
  <2>1. \A k, d : Due(Main, k, d)' => Due(Main, k, d)
    BY <1>5, Apart
  <2>2. QED
    BY <1>3, <1>4, <2>1, Apart DEF Kept, Referred
<1>13. Worked'
  <2>1. \A d \in Conns : Closing(d)' <=> Closing(d)
    BY DEF Closing
  <2>2. QED
    BY <1>4, <2>1, Apart DEF Kept, Worked
<1>14. Ending'
  <2>1. /\ \A k, d : Due(Main, k, d)' <=> Due(Main, k, d) /\ k # "uninit"
        /\ \A k, d : Due(Sdk, k, d)' <=> Due(Sdk, k, d)
    BY <1>2, <1>3, Apart
  <2>2. Leaving
    <3>1. "uninit" \in Kinds /\ NoConn \in ConnOrNone
      BY ConnFacts DEF Kinds, EndKinds
    <3>2. QED
      BY <1>1, <3>1 DEF Kept, Onward, Leaving
  <2>3. Leaving' /\ (InTime' <=> InTime)
    BY <2>1, <2>2 DEF Leaving, InTime
  <2>4. /\ ~Due(Main, "stop_sdk", NoConn) /\ ~Due(Main, "await_stop", NoConn)
       /\ ~Due(Main, "await_cleanup", NoConn)
    BY <1>1 DEF MayFollow, EndKinds
  <2>5. InTime => sdk \in {"stopped", "gone"} /\ live = 0
    BY <2>2, <2>4 DEF Kept, Ending
  <2>6. \A k, d : Due(Main, k, d)' => k = "exit"
    BY <1>1, <2>1 DEF MayFollow, EndKinds
  <2>7. InTime => \A c \in Conns :
            /\ ~Due(Sdk, "register", c) /\ ~Due(Sdk, "enable", c) /\ ~Due(Sdk, "launch", c)
            /\ \A k \in ClaimPlaces : ~Due(Sdk, k, c)
            /\ Due(Sdk, "mark", c) \/ Due(Sdk, "free", c) => session[c].worker = "ended"
    BY <2>5 DEF Kept, Ending
  <2>8. QED
    BY <2>1, <2>3, <2>4, <2>5, <2>6, <2>7 DEF Ending
<1>15. Failing'
  BY <1>1, <1>3, <1>4, <1>5, Apart DEF Kept, Failing
<1>16. Counted'
  <2>1. \A d \in Conns : OnList(d)' <=> OnList(d)
    BY <1>4, Apart DEF OnList
  <2>2. QED
    BY <2>1, ListKept DEF Kept
<1>17. QED
  BY <1>2, <1>7, <1>8, <1>9, <1>10, <1>11, <1>12, <1>13, <1>14, <1>15, <1>16 DEF Kept

\* A signal: what main() has to do.
LEMMA SignalAt ==
    ASSUME SessionTypeOK, Planned, todo' = [todo EXCEPT ![Main] = ShutDown(active)]
    PROVE  /\ todo' \in [Threads -> Seq(Steps)] /\ Planned'
           /\ \A u \in Threads : \A k, d : u # Main => (Due(u, k, d)' <=> Due(u, k, d))
           /\ \A k \in EndKinds : Due(Main, k, NoConn)'
           /\ \A k, d : Due(Main, k, d)' =>
                  k \in EndKinds \/ (k = "claim_on_shutdown" /\ d = active /\ active \in Conns)
BY SignalGoes DEF Others

\* A signal ends the loop of main().
LEMMA SignalStep ==
    ASSUME Kept, Idling(Main), todo' = [todo EXCEPT ![Main] = ShutDown(active)],
           active' = 0, UNCHANGED <<live, session, link, sdk, fails, fate>>
    PROVE  Kept'
<1>1. \A k, d : ~Due(Main, k, d)
  BY IdleGoes
<1>2. /\ todo' \in [Threads -> Seq(Steps)] /\ Planned'
      /\ \A u \in Threads : \A k, d : u # Main => (Due(u, k, d)' <=> Due(u, k, d))
      /\ \A k \in EndKinds : Due(Main, k, NoConn)'
      /\ \A k, d : Due(Main, k, d)' =>
             k \in EndKinds \/ (k = "claim_on_shutdown" /\ d = active /\ active \in Conns)
  BY SignalAt DEF Kept
<1>3. /\ Due(Main, "stop_sdk", NoConn)' /\ Due(Main, "await_stop", NoConn)'
      /\ Due(Main, "await_cleanup", NoConn)' /\ Due(Main, "uninit", NoConn)'
      /\ Due(Main, "exit", NoConn)'
  BY <1>2 DEF EndKinds
<1>4. /\ \A k \in SessionKinds, c \in Conns :
             Due(Main, k, c)' => k = "claim_on_shutdown" /\ c = active
      /\ \A k \in RawKinds, c \in Conns : ~Due(Main, k, c)'
  <2>1. \A k \in SessionKinds \cup RawKinds : k \notin EndKinds
    BY DEF SessionKinds, RawKinds, EndKinds, ClaimPlaces
  <2>2. "claim_on_shutdown" \notin RawKinds
    BY DEF RawKinds
  <2>3. QED
    BY <1>2, <2>1, <2>2
<1>5. \A u \in Threads, c \in Conns : \A k \in SessionKinds \cup RawKinds :
          k # "claim_on_shutdown" => (Due(u, k, c)' <=> Due(u, k, c))
  BY <1>1, <1>2, <1>4
<1>6. /\ \A k, d : Due(Sdk, k, d)' <=> Due(Sdk, k, d)
      /\ sdk = "running"
  <2>1. sdk = "running"
    BY <1>1 DEF Kept, Ending, Leaving
  <2>2. QED
    BY <1>2, <2>1, Apart
<1>7. active' = 0 /\ 0 \notin Conns /\ active' \in ConnOrNone
  BY ConnFacts
<1>8. active \in Conns => session[active].memory = "held" /\ ~Due(Sdk, "register", active)
                          /\ ~Due(Sdk, "claim_on_replacement", active)
  BY DEF Kept, Counted, OnList, Failing
<1>9. \A u \in Threads, d \in Conns :
          /\ Due(u, "register", d)' <=> Due(u, "register", d)
          /\ Due(u, "enable", d)' <=> Due(u, "enable", d)
          /\ Due(u, "launch", d)' <=> Due(u, "launch", d)
          /\ Due(u, "log", d)' <=> Due(u, "log", d)
          /\ Due(u, "launch_raw", d)' <=> Due(u, "launch_raw", d)
          /\ Due(u, "mark", d)' <=> Due(u, "mark", d)
          /\ Due(u, "unlist", d)' <=> Due(u, "unlist", d)
          /\ Due(u, "stop", d)' <=> Due(u, "stop", d)
          /\ Due(u, "join", d)' <=> Due(u, "join", d)
          /\ Due(u, "free", d)' <=> Due(u, "free", d)
          /\ Due(u, "disconnect", d)' <=> Due(u, "disconnect", d)
          /\ Due(u, "raw_disconnect", d)' <=> Due(u, "raw_disconnect", d)
          /\ Due(u, "claim_on_replacement", d)' <=> Due(u, "claim_on_replacement", d)
          /\ Due(u, "claim_on_error", d)' <=> Due(u, "claim_on_error", d)
  BY <1>5 DEF SessionKinds, RawKinds, ClaimPlaces
<1>10. SessionTypeOK'
  BY <1>2, <1>5, <1>6, <1>9, Apart, <1>7 DEF Kept, SessionTypeOK, Session
<1>11. Assigned'
  <2>1. \A u \in Threads, d \in Conns : Due(u, "claim_on_shutdown", d)' => u = Main
    BY <1>2 DEF Kept, Assigned
  <2>2. \A u \in Threads, k \in EndKinds : Due(u, k, NoConn)' => u = Main
    BY <1>2 DEF Kept, Assigned
  <2>3. QED
    BY <1>9, <2>1, <2>2 DEF Kept, Assigned
<1>12. Whole'
  BY <1>5, <1>6, <1>9, Apart DEF Kept, Whole
<1>13. Onward'
  <2>1. QED
    BY <1>3 DEF Onward
<1>14. Handed'
  <2>1. \A u \in Threads, d \in Conns : Holds(u, d)' <=> Holds(u, d)
    BY <1>9 DEF Holds
  <2>2. \A d \in Conns : Closing(d)' <=> Closing(d)
    BY DEF Closing
  <2>3. QED
    BY <1>9, <2>1, <2>2 DEF Kept, Handed
<1>15. Referred'
  <2>1. \A u \in Threads, d \in Conns : \A k \in SessionKinds :
            Due(u, k, d)' => session[d].memory # "none"
    BY <1>2, <1>4, <1>8 DEF Kept, Referred
  <2>2. \A d \in Conns : \A k \in SessionKinds :
            Due(Main, k, d)' => active' # d /\ ~Due(Sdk, "register", d)'
    BY <1>4, <1>6, <1>7, <1>8
  <2>3. \A d \in Conns : active' # d
    BY <1>7
  <2>4. QED
    BY <1>6, <1>9, <2>1, <2>2, <2>3, Apart DEF Kept, Referred
<1>16. Worked'
  <2>1. \A d \in Conns : Closing(d)' <=> Closing(d)
    BY DEF Closing
  <2>2. QED
    BY <1>9, <2>1, Apart DEF Kept, Worked
<1>17. Ending'
  <2>1. QED
    BY <1>3, <1>6 DEF Ending, Leaving, InTime
<1>18. Failing'
  <2>1. \A d \in Conns : active' # d
    BY <1>7
  <2>2. \A d \in Conns : Due(Sdk, "claim_on_replacement", d) => \A k \in SessionKinds : ~Due(Main, k, d)'
    BY <1>4, <1>8
  <2>3. QED
    BY <1>6, <1>9, <2>1, <2>2, Apart DEF Kept, Failing
<1>19. Counted'
  <2>1. \A d \in Conns : OnList(d)' <=> OnList(d)
    BY <1>6, <1>9, Apart DEF OnList
  <2>2. {d \in Conns : OnList(d)'} = {d \in Conns : OnList(d)}
    BY <2>1
  <2>3. \A d \in Conns : d # active'
    BY <1>7
  <2>4. QED
    BY <2>2, <2>3 DEF Kept, Counted
<1>20. QED
  BY <1>2, <1>10, <1>11, <1>12, <1>13, <1>14, <1>15, <1>16, <1>17, <1>18, <1>19 DEF Kept

\* The SDK reports that it has stopped.
LEMMA SdkStoppedStep ==
    ASSUME Kept, Idling(Sdk), sdk = "stopping", sdk' = "stopped",
           UNCHANGED <<active, live, session, link, todo, fails, fate>>
    PROVE  Kept'
<1>1. \A k, d : ~Due(Sdk, k, d)
  BY IdleGoes
<1>2. todo' \in [Threads -> Seq(Steps)] /\ Planned' /\ SamePlans
  BY PlansKept DEF Kept, SessionTypeOK
<1>3. \A u \in Threads : \A k, d : Due(u, k, d)' <=> Due(u, k, d)
  BY <1>2 DEF SamePlans
<1>4. Leaving /\ ~Due(Main, "stop_sdk", NoConn)
  BY DEF Kept, Ending
<1>5. SessionTypeOK'
  BY <1>2, <1>1, <1>3, Apart DEF Kept, SessionTypeOK, Session
<1>6. Assigned'
  BY <1>1, <1>3, Apart DEF Kept, Assigned
<1>7. Whole'
  BY <1>1, <1>3, Apart DEF Kept, Whole
<1>8. Onward'
  BY <1>1, <1>3, Apart DEF Kept, Onward
<1>9. Handed'
  <2>1. \A u \in Threads, d \in Conns : Holds(u, d)' <=> Holds(u, d)
    BY <1>3 DEF Holds
  <2>2. \A d \in Conns : Closing(d)' <=> Closing(d)
    BY DEF Closing
  <2>3. QED
    BY <1>3, <2>1, <2>2 DEF Kept, Handed
<1>10. Referred'
  BY <1>1, <1>3, Apart DEF Kept, Referred
<1>11. Worked'
  <2>1. \A d \in Conns : Closing(d)' <=> Closing(d)
    BY DEF Closing
  <2>2. QED
    BY <1>3, <2>1, Apart DEF Kept, Worked
<1>12. Ending'
  <2>1. Leaving' /\ (InTime' <=> InTime)
    BY <1>3, <1>4, Apart DEF Leaving, InTime
  <2>2. QED
    BY <1>1, <1>3, <1>4, <2>1, Apart DEF Kept, Ending
<1>13. Failing'
  BY <1>1, <1>3, Apart DEF Kept, Failing
<1>14. Counted'
  <2>1. \A d \in Conns : OnList(d)' <=> OnList(d)
    BY <1>3, Apart DEF OnList
  <2>2. QED
    BY <2>1, ListKept DEF Kept
<1>15. QED
  BY <1>2, <1>5, <1>6, <1>7, <1>8, <1>9, <1>10, <1>11, <1>12, <1>13, <1>14 DEF Kept

\* create_session() has made one.
LEMMA NewSet ==
    ASSUME SessionTypeOK, NEW c \in Conns, session' = [session EXCEPT ![c] = NewSession]
    PROVE  /\ session' \in [Conns -> Session]
           /\ session'[c].memory = "held" /\ ~session'[c].scheduled /\ ~session'[c].finalized
           /\ session'[c].worker = "running"
           /\ \A d \in Conns : d # c => session'[d] = session[d]
<1> DEFINE n == NoSession
           s == [n EXCEPT !.memory = "held", !.worker = "running"]
<1>1. /\ n \in Session /\ ~n.scheduled /\ ~n.finalized
  BY DEF NoSession, Session
<1> HIDE DEF n
<1>2. /\ s \in Session /\ s.memory = "held" /\ ~s.scheduled /\ ~s.finalized
      /\ s.worker = "running"
  BY <1>1 DEF Session
<1> HIDE DEF s
<1>3. session' = [session EXCEPT ![c] = s]
  BY DEF s, n, NewSession
<1>4. /\ session' \in [Conns -> Session] /\ session'[c] = s
      /\ \A d \in Conns : d # c => session'[d] = session[d]
  BY <1>2, <1>3 DEF SessionTypeOK
<1>5. QED
  BY <1>2, <1>4

\* on_conn_accepted() has made a session.
LEMMA AcceptStep ==
    ASSUME Kept, NEW c \in Conns, Idling(Sdk), sdk \in {"running", "stopping"}, link[c] = "none",
           link' = [link EXCEPT ![c] = "open"], session' = [session EXCEPT ![c] = NewSession],
           todo' = [todo EXCEPT ![Sdk] = <<Register(c)>>],
           UNCHANGED <<active, live, sdk, fails, fate>>
    PROVE  Kept'
<1>1. \A k, d : ~Due(Sdk, k, d)
  BY IdleGoes
<1>2. /\ todo' \in [Threads -> Seq(Steps)] /\ Planned'
      /\ \A u \in Threads : \A k, d :
             Due(u, k, d)' <=> Due(u, k, d) \/ (u = Sdk /\ k = "register" /\ d = c)
  <2> DEFINE x == Register(c)
  <2>1. x \in Steps /\ Kind(x) = "register" /\ Of(x) = c /\ Called(x)
    BY MadeSteps DEF Called
  <2> HIDE DEF x
  <2>2. QED
    BY <2>1, CallGoes DEF Kept
<1>3. /\ session[c].memory = "none" /\ active # c /\ ~session[c].finalized
      /\ \A u \in Threads, k \in SessionKinds : ~Due(u, k, c)
      /\ ~Due(Raw(c), "raw_disconnect", c)
  <2>1. session[c].memory = "none" /\ \A u \in Threads, k \in SessionKinds : ~Due(u, k, c)
    BY DEF Kept, Referred
  <2>2. active # c
    BY <2>1 DEF Kept, Counted, OnList
  <2>3. ~session[c].finalized
    BY <2>1 DEF Kept, Referred, Handed
  <2>4. ~Due(Raw(c), "raw_disconnect", c)
    BY DEF Kept, Referred
  <2>5. QED
    BY <2>1, <2>2, <2>3, <2>4
<1>4. /\ session' \in [Conns -> Session]
      /\ session'[c].memory = "held" /\ ~session'[c].scheduled /\ ~session'[c].finalized
      /\ session'[c].worker = "running"
      /\ \A d \in Conns : d # c => session'[d] = session[d]
  BY NewSet DEF Kept
<1>5. /\ \A u \in Threads : \A k, d : k # "register" => (Due(u, k, d)' <=> Due(u, k, d))
      /\ \A k, d : Due(Main, k, d)' <=> Due(Main, k, d)
  BY <1>2, Apart
<1>6. /\ link' \in [Conns -> {"none", "open", "broken", "closing", "closed"}]
      /\ link'[c] = "open" /\ \A d \in Conns : d # c => link'[d] = link[d]
  BY DEF Kept, SessionTypeOK
<1>7. \A u \in Threads :
          /\ ~Due(u, "enable", c) /\ ~Due(u, "mark", c) /\ ~Due(u, "free", c) /\ ~Due(u, "unlist", c)
          /\ ~Due(u, "register", c) /\ ~Due(u, "disconnect", c) /\ ~Due(u, "launch", c)
  BY <1>3 DEF SessionKinds
<1>8. SessionTypeOK'
  BY <1>1, <1>2, <1>3, <1>4, <1>5, <1>6, <1>7, Apart DEF Kept, SessionTypeOK, Session
<1>9. Assigned'
  BY <1>1, <1>2, <1>3, <1>4, <1>5, <1>6, <1>7, Apart DEF Kept, Assigned
<1>10. Whole'
  BY <1>1, <1>2, <1>3, <1>4, <1>5, <1>6, <1>7, Apart DEF Kept, Whole
<1>11. Onward'
  BY <1>1, <1>2, <1>3, <1>4, <1>5, <1>6, <1>7, Apart DEF Kept, Onward
<1>12. Handed'
  <2>1. \A u \in Threads, d \in Conns : Holds(u, d)' <=> Holds(u, d)
    BY <1>5 DEF Holds
  <2>2. \A u \in Threads : ~Holds(u, c) /\ ~Due(u, "free", c)
    BY <1>3 DEF Holds, SessionKinds
  <2>3. \A d \in Conns : Closing(d)' => d # c /\ Closing(d)
    BY <1>4, <1>6 DEF Closing
  <2>4. QED
    BY <1>3, <1>4, <1>5, <2>1, <2>2, <2>3 DEF Kept, Handed
<1>13. Referred'
  <2>1. /\ \A u \in Threads, d \in Conns, k \in SessionKinds : Due(u, k, d)' => d = c \/ Due(u, k, d)
        /\ \A d \in Conns : Due(Sdk, "register", d)' => d = c
    BY <1>1, <1>2
  <2>2. QED
    BY <1>3, <1>4, <1>5, <1>6, <2>1, Apart DEF Kept, Referred
<1>14. Worked'
  <2>1. \A d \in Conns : Closing(d)' => d # c /\ Closing(d)
    BY <1>4, <1>6 DEF Closing
  <2>2. QED
    BY <1>4, <1>5, <1>7, <2>1, Apart DEF Kept, Worked
<1>15. Ending'
  <2>1. sdk \in {"running", "stopping"}
    OBVIOUS
  <2>2. QED
    BY <1>5, <2>1 DEF Kept, Ending, Leaving, InTime
<1>16. Failing'
  <2>1. \A d \in Conns : Due(Sdk, "register", d)' => d = c
    BY <1>1, <1>2
  <2>2. QED
    BY <1>1, <1>4, <1>5, <1>6, <1>7, <2>1, Apart DEF Kept, Failing
<1>17. Counted'
  <2>1. ~OnList(c)' /\ ~OnList(c)
    BY <1>2, <1>3, Apart DEF OnList
  <2>2. \A d \in Conns : d # c => (Due(Sdk, "register", d)' <=> Due(Sdk, "register", d))
    BY <1>2, Apart
  <2>3. \A d \in Conns : d # c => (OnList(d)' <=> OnList(d))
    BY <1>4, <1>5, <2>2 DEF OnList
  <2>4. QED
    BY <2>1, <2>3, ListKept DEF Kept
<1>18. QED
  BY <1>2, <1>8, <1>9, <1>10, <1>11, <1>12, <1>13, <1>14, <1>15, <1>16, <1>17 DEF Kept

\* on_conn_accepted() has no session, and is to disconnect.
LEMMA AcceptRefused ==
    ASSUME Kept, NEW c \in Conns, Idling(Sdk), sdk \in {"running", "stopping"}, link[c] = "none",
           "session" \in fails, link' = [link EXCEPT ![c] = "open"],
           todo' = [todo EXCEPT ![Sdk] = <<LaunchRaw(c)>>],
           UNCHANGED <<active, live, session, sdk, fails, fate>>
    PROVE  Kept'
<1>1. \A k, d : ~Due(Sdk, k, d)
  BY IdleGoes
<1>2. /\ todo' \in [Threads -> Seq(Steps)] /\ Planned'
      /\ \A u \in Threads : \A k, d :
             Due(u, k, d)' <=> Due(u, k, d) \/ (u = Sdk /\ k = "launch_raw" /\ d = c)
  <2> DEFINE x == LaunchRaw(c)
  <2>1. x \in Steps /\ Kind(x) = "launch_raw" /\ Of(x) = c /\ Called(x)
    BY MadeSteps DEF Called
  <2> HIDE DEF x
  <2>2. QED
    BY <2>1, CallGoes DEF Kept
<1>3. /\ session[c].memory = "none" /\ active # c /\ ~session[c].finalized
      /\ \A u \in Threads, k \in SessionKinds : ~Due(u, k, c)
      /\ ~Due(Raw(c), "raw_disconnect", c)
  <2>1. session[c].memory = "none" /\ \A u \in Threads, k \in SessionKinds : ~Due(u, k, c)
    BY DEF Kept, Referred
  <2>2. active # c
    BY <2>1 DEF Kept, Counted, OnList
  <2>3. ~session[c].finalized
    BY <2>1 DEF Kept, Referred, Handed
  <2>4. ~Due(Raw(c), "raw_disconnect", c)
    BY DEF Kept, Referred
  <2>5. QED
    BY <2>1, <2>2, <2>3, <2>4
<1>4. \A d \in Conns : Closing(d)' => Closing(d)
  BY DEF Kept, SessionTypeOK, Closing
<1>5. /\ \A u \in Threads : \A k, d : k # "launch_raw" => (Due(u, k, d)' <=> Due(u, k, d))
      /\ \A k, d : Due(Main, k, d)' <=> Due(Main, k, d)
  BY <1>2, Apart
<1>6. /\ link' \in [Conns -> {"none", "open", "broken", "closing", "closed"}]
      /\ link'[c] = "open" /\ \A d \in Conns : d # c => link'[d] = link[d]
  BY DEF Kept, SessionTypeOK
<1>7. \A u \in Threads :
          /\ ~Due(u, "enable", c) /\ ~Due(u, "mark", c) /\ ~Due(u, "free", c) /\ ~Due(u, "unlist", c)
          /\ ~Due(u, "register", c) /\ ~Due(u, "disconnect", c) /\ ~Due(u, "launch", c)
  BY <1>3 DEF SessionKinds
<1>8. SessionTypeOK'
  BY <1>1, <1>2, <1>3, <1>4, <1>5, <1>6, <1>7, Apart DEF Kept, SessionTypeOK, Session
<1>9. Assigned'
  BY <1>1, <1>2, <1>3, <1>4, <1>5, <1>6, <1>7, Apart DEF Kept, Assigned
<1>10. Whole'
  BY <1>1, <1>2, <1>3, <1>4, <1>5, <1>6, <1>7, Apart DEF Kept, Whole
<1>11. Onward'
  BY <1>1, <1>2, <1>3, <1>4, <1>5, <1>6, <1>7, Apart DEF Kept, Onward
<1>12. Handed'
  <2>1. \A u \in Threads, d \in Conns : Holds(u, d)' <=> Holds(u, d)
    BY <1>5 DEF Holds
  <2>2. QED
    BY <1>4, <1>5, <2>1 DEF Kept, Handed
<1>13. Referred'
  <2>1. /\ \A k \in SessionKinds : k # "launch_raw"
        /\ \A d \in Conns : Due(Sdk, "launch_raw", d)' => d = c
    BY <1>1, <1>2 DEF SessionKinds, ClaimPlaces
  <2>2. QED
    BY <1>3, <1>5, <1>6, <2>1, Apart DEF Kept, Referred
<1>14. Worked'
  <2>2. QED
    BY <1>4, <1>5, Apart DEF Kept, Worked
<1>15. Ending'
  <2>1. sdk \in {"running", "stopping"}
    OBVIOUS
  <2>2. QED
    BY <1>5, <2>1 DEF Kept, Ending, Leaving, InTime
<1>16. Failing'
  <2>2. QED
    BY <1>1, <1>3, <1>5, <1>6, <1>7, Apart DEF Kept, Failing
<1>17. Counted'
  <2>1. \A d \in Conns : OnList(d)' <=> OnList(d)
    BY <1>5, Apart DEF OnList
  <2>2. QED
    BY <2>1, ListKept DEF Kept
<1>18. QED
  BY <1>2, <1>8, <1>9, <1>10, <1>11, <1>12, <1>13, <1>14, <1>15, <1>16, <1>17 DEF Kept

\* on_conn_error() for a connection without a session.
LEMMA ErrorUnknown ==
    ASSUME Kept, NEW c \in Conns, Idling(Sdk), sdk \in {"running", "stopping"}, link[c] = "open",
           link' = [link EXCEPT ![c] = "broken"], todo' = [todo EXCEPT ![Sdk] = <<>>],
           UNCHANGED <<active, live, session, sdk, fails, fate>>
    PROVE  Kept'
<1>1. \A k, d : ~Due(Sdk, k, d)
  BY IdleGoes
<1>2. /\ todo' \in [Threads -> Seq(Steps)] /\ Planned'
      /\ \A u \in Threads : \A k, d : Due(u, k, d)' <=> Due(u, k, d)
  BY CallEnds DEF Kept
<1>3. /\ link' \in [Conns -> {"none", "open", "broken", "closing", "closed"}]
      /\ link'[c] = "broken" /\ \A d \in Conns : d # c => link'[d] = link[d]
  BY DEF Kept, SessionTypeOK
<1>4. /\ \A d \in Conns : Closing(d)' => Closing(d)
      /\ link[c] # "closed" /\ link[c] # "none"
  BY <1>3 DEF Closing
<1>5. SessionTypeOK'
  BY <1>2, <1>3, <1>4, Apart DEF Kept, SessionTypeOK, Session
<1>6. Assigned'
  BY <1>2, <1>3, <1>4, Apart DEF Kept, Assigned
<1>7. Whole'
  BY <1>2, <1>3, <1>4, Apart DEF Kept, Whole
<1>8. Onward'
  BY <1>2, <1>3, <1>4, Apart DEF Kept, Onward
<1>9. Handed'
  <2>1. \A u \in Threads, d \in Conns : Holds(u, d)' <=> Holds(u, d)
    BY <1>2 DEF Holds
  <2>2. QED
    BY <1>2, <1>4, <2>1 DEF Kept, Handed
<1>10. Referred'
  BY <1>2, <1>3, <1>4, Apart DEF Kept, Referred
<1>11. Worked'
  <2>2. QED
    BY <1>2, <1>4, Apart DEF Kept, Worked
<1>12. Ending'
  <2>1. sdk \in {"running", "stopping"}
    OBVIOUS
  <2>2. QED
    BY <1>2, <2>1, Apart DEF Kept, Ending, Leaving, InTime
<1>13. Failing'
  BY <1>2, <1>3, <1>4, Apart DEF Kept, Failing
<1>14. Counted'
  <2>1. \A d \in Conns : OnList(d)' <=> OnList(d)
    BY <1>2, Apart DEF OnList
  <2>2. QED
    BY <2>1, ListKept DEF Kept
<1>15. QED
  BY <1>2, <1>5, <1>6, <1>7, <1>8, <1>9, <1>10, <1>11, <1>12, <1>13, <1>14 DEF Kept

\* on_conn_error() for one that has a session: it is to be claimed.
LEMMA ErrorStep ==
    ASSUME Kept, NEW c \in Conns, Idling(Sdk), sdk \in {"running", "stopping"}, link[c] = "open",
           session[c].memory # "none",
           link' = [link EXCEPT ![c] = "broken"], Called(Claim(c, "claim_on_error")),
           UNCHANGED <<active, live, session, sdk, fails, fate>>
    PROVE  Kept'
<1>1. \A k, d : ~Due(Sdk, k, d)
  BY IdleGoes
<1>2. /\ todo' \in [Threads -> Seq(Steps)] /\ Planned'
      /\ \A u \in Threads : \A k, d :
             Due(u, k, d)' <=> Due(u, k, d) \/ (u = Sdk /\ k = "claim_on_error" /\ d = c)
  <2> DEFINE x == Claim(c, "claim_on_error")
  <2>1. x \in Steps /\ Kind(x) = "claim_on_error" /\ Of(x) = c /\ Called(x)
    BY MadeClaims DEF ClaimPlaces
  <2> HIDE DEF x
  <2>2. QED
    BY <2>1, CallGoes DEF Kept
<1>3. /\ link' \in [Conns -> {"none", "open", "broken", "closing", "closed"}]
      /\ link'[c] = "broken" /\ \A d \in Conns : d # c => link'[d] = link[d]
  BY DEF Kept, SessionTypeOK
<1>4. /\ \A d \in Conns : Closing(d)' => Closing(d)
      /\ link[c] # "closed" /\ link[c] # "none"
  BY <1>3 DEF Closing
<1>5. /\ \A u \in Threads : \A k, d : k # "claim_on_error" => (Due(u, k, d)' <=> Due(u, k, d))
      /\ \A k, d : Due(Main, k, d)' <=> Due(Main, k, d)
      /\ \A d \in Conns : Due(Sdk, "claim_on_error", d)' => d = c
  BY <1>1, <1>2, Apart
<1>6. SessionTypeOK'
  BY <1>1, <1>2, <1>3, <1>4, <1>5, Apart DEF Kept, SessionTypeOK, Session
<1>7. Assigned'
  BY <1>1, <1>2, <1>3, <1>4, <1>5, Apart DEF Kept, Assigned
<1>8. Whole'
  BY <1>1, <1>2, <1>3, <1>4, <1>5, Apart DEF Kept, Whole
<1>9. Onward'
  BY <1>1, <1>2, <1>3, <1>4, <1>5, Apart DEF Kept, Onward
<1>10. Handed'
  <2>1. \A u \in Threads, d \in Conns : Holds(u, d)' <=> Holds(u, d)
    BY <1>5 DEF Holds
  <2>2. QED
    BY <1>5, <1>4, <2>1 DEF Kept, Handed
<1>11. Referred'
  <2>1. \A u \in Threads, d \in Conns, k \in SessionKinds : Due(u, k, d)' => d = c \/ Due(u, k, d)
    BY <1>2
  <2>2. QED
    BY <1>3, <1>4, <1>5, <2>1, Apart DEF Kept, Referred
<1>12. Worked'
  <2>2. QED
    BY <1>5, <1>4, Apart DEF Kept, Worked
<1>13. Ending'
  <2>1. sdk \in {"running", "stopping"}
    OBVIOUS
  <2>2. QED
    BY <1>5, <2>1, Apart DEF Kept, Ending, Leaving, InTime
<1>14. Failing'
  <2>1. \A d \in Conns : ~Due(Sdk, "register", d)' /\ ~Due(Sdk, "enable", d)'
    BY <1>1, <1>5, Apart
  <2>2. QED
    BY <1>3, <1>4, <1>5, <2>1, Apart DEF Kept, Failing
<1>15. Counted'
  <2>1. \A d \in Conns : OnList(d)' <=> OnList(d)
    BY <1>5, Apart DEF OnList
  <2>2. QED
    BY <2>1, ListKept DEF Kept
<1>16. QED
  BY <1>2, <1>6, <1>7, <1>8, <1>9, <1>10, <1>11, <1>12, <1>13, <1>14, <1>15 DEF Kept

\* on_disconnected() for a connection without a session.
LEMMA DisconnectedUnknown ==
    ASSUME Kept, NEW c \in Conns, Idling(Sdk), link[c] = "closing",
           link' = [link EXCEPT ![c] = "closed"], todo' = [todo EXCEPT ![Sdk] = <<>>],
           UNCHANGED <<active, live, session, sdk, fails, fate>>
    PROVE  Kept'
<1>1. \A k, d : ~Due(Sdk, k, d)
  BY IdleGoes
<1>2. /\ todo' \in [Threads -> Seq(Steps)] /\ Planned'
      /\ \A u \in Threads : \A k, d : Due(u, k, d)' <=> Due(u, k, d)
  BY CallEnds DEF Kept
<1>3. /\ link' \in [Conns -> {"none", "open", "broken", "closing", "closed"}]
      /\ link'[c] = "closed" /\ \A d \in Conns : d # c => link'[d] = link[d]
  BY DEF Kept, SessionTypeOK
<1>4. /\ \A d \in Conns : Closing(d)' => d # c /\ Closing(d)
      /\ link[c] # "none"
  BY <1>3 DEF Closing
<1>5. SessionTypeOK'
  BY <1>2, <1>3, <1>4, Apart DEF Kept, SessionTypeOK, Session
<1>6. Assigned'
  BY <1>2, <1>3, <1>4, Apart DEF Kept, Assigned
<1>7. Whole'
  BY <1>2, <1>3, <1>4, Apart DEF Kept, Whole
<1>8. Onward'
  BY <1>2, <1>3, <1>4, Apart DEF Kept, Onward
<1>9. Handed'
  <2>1. \A u \in Threads, d \in Conns : Holds(u, d)' <=> Holds(u, d)
    BY <1>2 DEF Holds
  <2>2. QED
    BY <1>2, <1>4, <2>1 DEF Kept, Handed
<1>10. Referred'
  BY <1>2, <1>3, <1>4, Apart DEF Kept, Referred
<1>11. Worked'
  <2>2. QED
    BY <1>2, <1>4, Apart DEF Kept, Worked
<1>12. Ending'
  <2>1. sdk' = sdk
    OBVIOUS
  <2>2. QED
    BY <1>2, <2>1, Apart DEF Kept, Ending, Leaving, InTime
<1>13. Failing'
  <2>1. \A d \in Conns : ~Due(Sdk, "register", d)' /\ ~Due(Sdk, "enable", d)'
                         /\ ~Due(Sdk, "claim_on_error", d)' /\ ~Due(Sdk, "claim_on_replacement", d)'
    BY <1>1, <1>2, Apart
  <2>2. QED
    BY <1>2, <1>3, <1>4, <2>1, Apart DEF Kept, Failing
<1>14. Counted'
  <2>1. \A d \in Conns : OnList(d)' <=> OnList(d)
    BY <1>2, Apart DEF OnList
  <2>2. QED
    BY <2>1, ListKept DEF Kept
<1>15. QED
  BY <1>2, <1>5, <1>6, <1>7, <1>8, <1>9, <1>10, <1>11, <1>12, <1>13, <1>14 DEF Kept

\* on_disconnected() for one that has a session: it is to be finalized.
LEMMA DisconnectedStep ==
    ASSUME Kept, NEW c \in Conns, Idling(Sdk), link[c] = "closing", session[c].memory # "none",
           link' = [link EXCEPT ![c] = "closed"], todo' = [todo EXCEPT ![Sdk] = <<Mark(c)>>],
           UNCHANGED <<active, live, session, sdk, fails, fate>>
    PROVE  Kept'
<1>1. \A k, d : ~Due(Sdk, k, d)
  BY IdleGoes
<1>2. /\ todo' \in [Threads -> Seq(Steps)] /\ Planned'
      /\ \A u \in Threads : \A k, d :
             Due(u, k, d)' <=> Due(u, k, d) \/ (u = Sdk /\ k = "mark" /\ d = c)
  <2> DEFINE x == Mark(c)
  <2>1. x \in Steps /\ Kind(x) = "mark" /\ Of(x) = c /\ Called(x)
    BY MadeSteps DEF Called
  <2> HIDE DEF x
  <2>2. QED
    BY <2>1, CallGoes DEF Kept
<1>3. /\ link' \in [Conns -> {"none", "open", "broken", "closing", "closed"}]
      /\ link'[c] = "closed" /\ \A d \in Conns : d # c => link'[d] = link[d]
  BY DEF Kept, SessionTypeOK
<1>4. /\ \A d \in Conns : Closing(d)' => d # c /\ Closing(d)
      /\ link[c] # "none"
  BY <1>3 DEF Closing
<1>5. /\ session[c].scheduled /\ ~session[c].finalized /\ session[c].worker = "ended"
      /\ \A u \in Threads : ~Holds(u, c)
  <2>1. Closing(c)
    BY DEF Closing
  <2>2. QED
    BY <2>1 DEF Kept, Handed, Worked
<1>6. /\ \A u \in Threads : \A k, d : k # "mark" => (Due(u, k, d)' <=> Due(u, k, d))
      /\ \A u \in Threads : \A k, d : u # Sdk => (Due(u, k, d)' <=> Due(u, k, d))
      /\ \A k, d : Due(Main, k, d)' <=> Due(Main, k, d)
      /\ \A d \in Conns : Due(Sdk, "mark", d)' => d = c
  BY <1>1, <1>2, Apart
<1>7. SessionTypeOK'
  BY <1>1, <1>2, <1>3, <1>4, <1>5, <1>6, Apart DEF Kept, SessionTypeOK, Session
<1>8. Assigned'
  BY <1>1, <1>2, <1>3, <1>4, <1>5, <1>6, Apart DEF Kept, Assigned
<1>9. Whole'
  BY <1>1, <1>2, <1>3, <1>4, <1>5, <1>6, Apart DEF Kept, Whole
<1>10. Onward'
  BY <1>1, <1>2, <1>3, <1>4, <1>5, <1>6, Apart DEF Kept, Onward
<1>11. Handed'
  <2>1. \A u \in Threads, d \in Conns : d # c => (Holds(u, d)' <=> Holds(u, d))
    BY <1>2 DEF Holds
  <2>2. \A u \in Threads : Holds(u, c)' => u = Sdk
    BY <1>5, <1>6 DEF Holds
  <2>3. QED
    BY <1>4, <1>5, <1>6, <2>1, <2>2 DEF Kept, Handed
<1>12. Referred'
  <2>1. \A u \in Threads, d \in Conns, k \in SessionKinds : Due(u, k, d)' => d = c \/ Due(u, k, d)
    BY <1>2
  <2>2. QED
    BY <1>3, <1>4, <1>6, <2>1, Apart DEF Kept, Referred
<1>13. Worked'
  <2>2. QED
    BY <1>4, <1>5, <1>6, Apart DEF Kept, Worked
<1>14. Ending'
  <2>1. sdk' = sdk
    OBVIOUS
  <2>2. \A d \in Conns : Due(Sdk, "mark", d)' \/ Due(Sdk, "free", d)' => session'[d].worker = "ended"
    BY <1>1, <1>5, <1>6, Apart
  <2>3. \A k, d : k # "mark" => ~Due(Sdk, k, d)'
    BY <1>1, <1>6, Apart
  <2>4. "mark" \notin ClaimPlaces
    BY DEF ClaimPlaces
  <2>5. QED
    BY <1>6, <2>1, <2>2, <2>3, <2>4, Apart DEF Kept, Ending, Leaving, InTime
<1>15. Failing'
  <2>1. \A d \in Conns : ~Due(Sdk, "register", d)' /\ ~Due(Sdk, "enable", d)'
                         /\ ~Due(Sdk, "claim_on_error", d)' /\ ~Due(Sdk, "claim_on_replacement", d)'
    BY <1>1, <1>6, Apart
  <2>2. \A u \in Threads, d \in Conns : Due(u, "mark", d)' => d = c \/ Due(u, "mark", d)
    BY <1>2
  <2>3. QED
    BY <1>3, <1>6, <2>1, <2>2, Apart DEF Kept, Failing
<1>16. Counted'
  <2>1. \A d \in Conns : OnList(d)' <=> OnList(d)
    BY <1>6, Apart DEF OnList
  <2>2. QED
    BY <2>1, ListKept DEF Kept
<1>17. QED
  BY <1>2, <1>7, <1>8, <1>9, <1>10, <1>11, <1>12, <1>13, <1>14, <1>15, <1>16 DEF Kept

\* The streamer's thread of a session ends.
LEMMA EndedStep ==
    ASSUME Kept, NEW c \in Conns, session[c].worker = "running",
           session' = [session EXCEPT ![c].worker = "ended"],
           UNCHANGED <<active, live, link, sdk, todo, fails, fate>>
    PROVE  Kept'
<1>1. /\ session' \in [Conns -> Session] /\ session'[c].worker = "ended"
      /\ \A d \in Conns :
             /\ session'[d].memory = session[d].memory
             /\ session'[d].scheduled <=> session[d].scheduled
             /\ session'[d].finalized <=> session[d].finalized
             /\ d # c => session'[d].worker = session[d].worker
  BY WorkerSet DEF Kept
<1>2. todo' \in [Threads -> Seq(Steps)] /\ Planned' /\ SamePlans
  BY PlansKept DEF Kept, SessionTypeOK
<1>3. \A u \in Threads : \A k, d : Due(u, k, d)' <=> Due(u, k, d)
  BY <1>2 DEF SamePlans
<1>4. /\ \A d \in Conns : Closing(d)' <=> Closing(d)
      /\ session[c].memory # "none"
  BY <1>1 DEF Closing, Kept, Worked
<1>5. SessionTypeOK'
  BY <1>2, <1>1, <1>3, <1>4, Apart DEF Kept, SessionTypeOK, Session
<1>6. Assigned'
  BY <1>1, <1>3, <1>4, Apart DEF Kept, Assigned
<1>7. Whole'
  BY <1>1, <1>3, <1>4, Apart DEF Kept, Whole
<1>8. Onward'
  BY <1>1, <1>3, <1>4, Apart DEF Kept, Onward
<1>9. Handed'
  <2>1. \A u \in Threads, d \in Conns : Holds(u, d)' <=> Holds(u, d)
    BY <1>3 DEF Holds
  <2>2. QED
    BY <1>1, <1>3, <1>4, <2>1 DEF Kept, Handed
<1>10. Referred'
  BY <1>1, <1>3, <1>4, Apart DEF Kept, Referred
<1>11. Worked'
  <2>2. QED
    BY <1>1, <1>3, <1>4, Apart DEF Kept, Worked
<1>12. Ending'
  BY <1>1, <1>3, <1>4, Apart DEF Kept, Ending, Leaving, InTime
<1>13. Failing'
  BY <1>1, <1>3, <1>4, Apart DEF Kept, Failing
<1>14. Counted'
  <2>1. \A d \in Conns : OnList(d)' <=> OnList(d)
    BY <1>1, <1>3, Apart DEF OnList
  <2>2. QED
    BY <2>1, ListKept DEF Kept
<1>15. QED
  BY <1>2, <1>5, <1>6, <1>7, <1>8, <1>9, <1>10, <1>11, <1>12, <1>13, <1>14 DEF Kept

------------------------------------------------------------------------------
(* What each action keeps                                                  *)

\* session_finalize() up to its decision: a session that is to be finalized is not yet.
LEMMA MarkKept == ASSUME Kept, NEW t \in Threads, MarkFinalized(t) PROVE Kept'
<1> SUFFICES ASSUME NEW c, c = ConnOf(t) PROVE Kept'
  OBVIOUS
<1>1. AtStep(t, "mark")
  BY DEF MarkFinalized
<1>2. CASE Uses(c, "finalize")
  BY <1>2, LostKept DEF Uses, Places
<1>3. ASSUME Held(c), Then(t, IF session[c].finalized THEN <<>> ELSE Teardown(c)),
             session' = [session EXCEPT ![c].finalized = TRUE],
             UNCHANGED <<active, live, link, sdk, fails>>
      PROVE  Kept'
  <2>1. ~session[c].finalized
    <3>1. "mark" \in (SessionKinds \ ClaimPlaces) \cup RawKinds
      BY DEF SessionKinds, RawKinds, ClaimPlaces
    <3>2. c \in Conns /\ Due(t, "mark", c)
      BY <1>1, <3>1, AtConn DEF Kept
    <3>3. QED
      BY <3>2 DEF Kept, Handed, Holds
  <2>2. Then(t, Teardown(c))
    BY <1>3, <2>1
  <2>3. session[c].memory = "held" /\ UNCHANGED fate
    BY <1>3 DEF Held
  <2>4. QED
    BY <1>1, <1>3, <2>2, <2>3, MarkStep
<1>4. QED
  BY <1>2, <1>3 DEF MarkFinalized

\* session_finalize(), the list.
LEMMA UnlistKept == ASSUME Kept, NEW t \in Threads, UnlistSession(t) PROVE Kept'
BY UnlistStep DEF UnlistSession

\* device_demo_streamer_stop(), the request.
LEMMA StopKept == ASSUME Kept, NEW t \in Threads, StopStreamer(t) PROVE Kept'
<1> SUFFICES ASSUME NEW c, c = ConnOf(t) PROVE Kept'
  OBVIOUS
<1>1. AtStep(t, "stop")
  BY DEF StopStreamer
<1>2. CASE Uses(c, "clean_up")
  BY <1>2, LostKept DEF Uses, Places
<1>3. ASSUME Held(c), Carry(t), session' = [session EXCEPT ![c].stop = TRUE],
             UNCHANGED <<active, live, link, sdk, fails>>
      PROVE  Kept'
  <2>1. UNCHANGED fate
    BY <1>3 DEF Held
  <2>2. QED
    BY <1>1, <1>3, <2>1, StopStep
<1>4. QED
  BY <1>2, <1>3 DEF StopStreamer

\* device_demo_streamer_stop(), the join.
LEMMA JoinKept == ASSUME Kept, NEW t \in Threads, JoinStreamer(t) PROVE Kept'
BY JoinStep DEF JoinStreamer

\* session_finalize(), the memory.
LEMMA FreeKept == ASSUME Kept, NEW t \in Threads, FreeSession(t) PROVE Kept'
BY FreeStep DEF FreeSession

\* schedule_session_disconnect() up to its decision.
LEMMA ClaimKept == ASSUME Kept, NEW t \in Threads, ClaimSession(t) PROVE Kept'
<1> SUFFICES ASSUME NEW c, c = ConnOf(t) PROVE Kept'
  OBVIOUS
<1>1. AtStep(t, "claim")
  BY DEF ClaimSession
<1>2. ASSUME Uses(c, Head(todo[t]).where) PROVE Kept'
  <2>1. Head(todo[t]).where \in Places
    BY <1>1, AtClaim DEF Kept, ClaimPlaces, Places
  <2>2. QED
    BY <1>2, <2>1, LostKept DEF Uses
<1>3. ASSUME Held(c), Carry(t), UNCHANGED <<active, live, session, link, sdk, fails>>
      PROVE  Kept'
  BY <1>1, <1>3, ClaimPassed DEF Held
<1>4. ASSUME Held(c), Then(t, <<Launch(c)>>), ~session[c].scheduled, ~session[c].finalized,
             session' = [session EXCEPT ![c].scheduled = TRUE],
             UNCHANGED <<active, live, link, sdk, fails>>
      PROVE  Kept'
  <2>1. session[c].memory = "held" /\ UNCHANGED fate
    BY <1>4 DEF Held
  <2>2. QED
    BY <1>1, <1>4, <2>1, ClaimStep
<1>5. QED
  BY <1>2, <1>3, <1>4 DEF ClaimSession

\* schedule_session_disconnect(), the worker.
LEMMA LaunchKept == ASSUME Kept, NEW t \in Threads, LaunchCleaner(t) PROVE Kept'
<1> SUFFICES ASSUME NEW c, c = ConnOf(t) PROVE Kept'
  OBVIOUS
<1>1. AtStep(t, "launch") /\ UNCHANGED <<active, live, session, link, sdk, fails, fate>>
  BY DEF LaunchCleaner
<1>2. CASE Launches(t, c)
  BY <1>1, <1>2, LaunchStep
<1>3. CASE Fails("thread") /\ Then(t, <<Mark(c)>>)
  BY <1>1, <1>3, LaunchRefused DEF Fails
<1>4. QED
  BY <1>2, <1>3 DEF LaunchCleaner, Launches

\* schedule_session_disconnect(), its last line.
LEMMA LogKept == ASSUME Kept, NEW t \in Threads, LogScheduled(t) PROVE Kept'
<1> SUFFICES ASSUME NEW c, c = ConnOf(t) PROVE Kept'
  OBVIOUS
<1>1. AtStep(t, "log")
  BY DEF LogScheduled
<1>2. CASE Uses(c, "log")
  BY <1>2, LostKept DEF Uses, Places
<1>3. ASSUME Held(c), Carry(t), UNCHANGED <<active, live, session, link, sdk, fails>>
      PROVE  Kept'
  BY <1>1, <1>3, LogStep DEF Held
<1>4. QED
  BY <1>2, <1>3 DEF LogScheduled

\* disconnect_worker_main(), the call of TiRtcDisconnect().
LEMMA DisconnectKept == ASSUME Kept, NEW t \in Threads, DisconnectConn(t) PROVE Kept'
<1> SUFFICES ASSUME NEW c, c = ConnOf(t) PROVE Kept'
  OBVIOUS
<1>1. AtStep(t, "disconnect")
  BY DEF DisconnectConn
<1>2. CASE Lost("disconnect")
  BY <1>2, LostKept DEF Places
<1>3. ASSUME link' = [link EXCEPT ![c] = "closing"], Carry(t),
             UNCHANGED <<active, live, session, sdk, fails, fate>>
      PROVE  Kept'
  BY <1>1, <1>3, DisconnectTaken
<1>4. ASSUME Fails("disconnect"), Then(t, <<Mark(c)>>),
             UNCHANGED <<active, live, session, link, sdk, fails, fate>>
      PROVE  Kept'
  BY <1>1, <1>4, DisconnectRefused DEF Fails
<1>5. QED
  BY <1>2, <1>3, <1>4 DEF DisconnectConn

\* schedule_raw_disconnect().
LEMMA LaunchRawKept == ASSUME Kept, NEW t \in Threads, LaunchRawWorker(t) PROVE Kept'
<1> SUFFICES ASSUME NEW c, c = ConnOf(t) PROVE Kept'
  OBVIOUS
<1>1. AtStep(t, "launch_raw") /\ UNCHANGED <<active, live, session, link, sdk, fails, fate>>
  BY DEF LaunchRawWorker
<1>2. CASE LaunchesRaw(t, c)
  BY <1>1, <1>2, LaunchRawStep
<1>3. CASE Carry(t)
  BY <1>1, <1>3, RawRefusedStep
<1>4. QED
  BY <1>2, <1>3 DEF LaunchRawWorker, LaunchesRaw

\* raw_disconnect_worker_main().
LEMMA RawDisconnectKept == ASSUME Kept, NEW t \in Threads, RawDisconnectConn(t) PROVE Kept'
<1> SUFFICES ASSUME NEW c, c = ConnOf(t) PROVE Kept'
  OBVIOUS
<1>1. AtStep(t, "raw_disconnect")
  BY DEF RawDisconnectConn
<1>2. CASE Lost("raw_disconnect")
  BY <1>2, LostKept DEF Places
<1>3. ASSUME link' = [link EXCEPT ![c] = "closing"], Carry(t),
             UNCHANGED <<active, live, session, sdk, fails, fate>>
      PROVE  Kept'
  BY <1>1, <1>3, RawTakenStep
<1>4. ASSUME Carry(t), UNCHANGED <<active, live, session, link, sdk, fails, fate>>
      PROVE  Kept'
  BY <1>1, <1>4, RawStep
<1>5. QED
  BY <1>2, <1>3, <1>4 DEF RawDisconnectConn

\* on_conn_accepted(), once it has a session.
LEMMA RegisterKept == ASSUME Kept, NEW t \in Threads, RegisterSession(t) PROVE Kept'
BY RegisterStep DEF RegisterSession

\* device_demo_streamer_set_streaming_enabled().
LEMMA EnableKept == ASSUME Kept, NEW t \in Threads, EnableStreaming(t) PROVE Kept'
<1> SUFFICES ASSUME NEW c, c = ConnOf(t) PROVE Kept'
  OBVIOUS
<1>1. AtStep(t, "enable")
  BY DEF EnableStreaming
<1>2. CASE Uses(c, "enable")
  BY <1>2, LostKept DEF Uses, Places
<1>3. ASSUME Held(c), Carry(t), session' = [session EXCEPT ![c].enabled = TRUE],
             UNCHANGED <<active, live, link, sdk, fails>>
      PROVE  Kept'
  <2>1. UNCHANGED fate
    BY <1>3 DEF Held
  <2>2. QED
    BY <1>1, <1>3, <2>1, EnableStep
<1>4. QED
  BY <1>2, <1>3 DEF EnableStreaming

\* main() from the signal on.
LEMMA MainKept == ASSUME Kept, MainGoesOn PROVE Kept'
<1>1. CASE StopSdk
  <2>1. sdk' \in {"stopping", sdk}
    BY <1>1 DEF StopSdk
  <2>2. QED
    BY <1>1, <2>1, StopSdkStep DEF StopSdk
<1>2. CASE AwaitStop
  BY <1>2, AwaitStopStep DEF AwaitStop, Fails, InTime
<1>3. CASE AwaitCleanup
  BY <1>3, AwaitCleanupStep DEF AwaitCleanup, Fails, InTime
<1>4. CASE Uninit
  BY <1>4, UninitStep DEF Uninit
<1>5. CASE Exit
  BY <1>5, FateKept DEF Exit, Fates
<1>6. QED
  BY <1>1, <1>2, <1>3, <1>4, <1>5 DEF MainGoesOn

\* on_conn_accepted() up to the session.
LEMMA AcceptKept == ASSUME Kept, NEW c \in Conns, Accept(c) PROVE Kept'
<1>1. Idling(Sdk) /\ sdk \in {"running", "stopping"}
  BY DEF Accept, SdkCalls
<1>2. ASSUME session' = [session EXCEPT ![c] = NewSession],
             todo' = [todo EXCEPT ![Sdk] = <<Register(c)>>]
      PROVE  Kept'
  BY <1>1, <1>2, AcceptStep DEF Accept
<1>3. ASSUME Fails("session"), todo' = [todo EXCEPT ![Sdk] = <<LaunchRaw(c)>>],
             UNCHANGED session
      PROVE  Kept'
  BY <1>1, <1>3, AcceptRefused DEF Accept, Fails
<1>4. QED
  BY <1>2, <1>3 DEF Accept

\* on_conn_error().
LEMMA ErrorKept == ASSUME Kept, NEW c \in Conns, ConnError(c) PROVE Kept'
<1>1. Idling(Sdk) /\ sdk \in {"running", "stopping"} /\ link[c] = "open"
  BY DEF ConnError, SdkCalls
<1>2. ASSUME session[c].memory = "none" PROVE Kept'
  <2>1. todo' = [todo EXCEPT ![Sdk] = <<>>]
    BY <1>2 DEF ConnError
  <2>2. QED
    BY <1>1, <2>1, ErrorUnknown DEF ConnError
<1>3. ASSUME session[c].memory # "none" PROVE Kept'
  <2>1. Called(Claim(c, "claim_on_error"))
    BY <1>3 DEF ConnError, Called
  <2>2. QED
    BY <1>1, <1>3, <2>1, ErrorStep DEF ConnError
<1>4. QED
  BY <1>2, <1>3

\* on_disconnected().
LEMMA DisconnectedKept == ASSUME Kept, NEW c \in Conns, Disconnected(c) PROVE Kept'
<1>1. Idling(Sdk) /\ link[c] = "closing"
  BY DEF Disconnected
<1>2. ASSUME session[c].memory = "none" PROVE Kept'
  <2>1. todo' = [todo EXCEPT ![Sdk] = <<>>]
    BY <1>2 DEF Disconnected
  <2>2. QED
    BY <1>1, <2>1, DisconnectedUnknown DEF Disconnected
<1>3. ASSUME session[c].memory # "none" PROVE Kept'
  <2>1. todo' = [todo EXCEPT ![Sdk] = <<Mark(c)>>]
    BY <1>3 DEF Disconnected
  <2>2. QED
    BY <1>1, <1>3, <2>1, DisconnectedStep DEF Disconnected
<1>4. QED
  BY <1>2, <1>3

\* A stuttering step.
LEMMA SameKept == ASSUME Kept, UNCHANGED sessionVars PROVE Kept'
<1>1. fate' \in Fates
  BY DEF sessionVars, Kept, SessionTypeOK
<1>2. QED
  BY <1>1, FateKept DEF sessionVars

\* on_request_key_frame().
LEMMA KeyFrameKept == ASSUME Kept, NEW c \in Conns, RequestKeyFrame(c) PROVE Kept'
<1>1. CASE Lost("key_frame")
  BY <1>1, LostKept DEF Places
<1>2. QED
  BY <1>1, SameKept DEF RequestKeyFrame, Uses

\* The streamer's thread sends.
LEMMA SendsKept == ASSUME Kept, NEW c \in Conns, StreamerSends(c) PROVE Kept'
<1>1. CASE Lost("send")
  BY <1>1, LostKept DEF Places
<1>2. QED
  BY <1>1, SameKept DEF StreamerSends

\* The streamer's thread ends.
LEMMA EndsKept == ASSUME Kept, NEW c \in Conns, StreamerEnds(c) PROVE Kept'
BY EndedStep DEF StreamerEnds

\* The signal.
LEMMA SignalKept == ASSUME Kept, Signal PROVE Kept'
BY SignalStep DEF Signal

\* TIRTC_EVENT_SYS_STOPPED.
LEMMA StoppedKept == ASSUME Kept, SdkStopped PROVE Kept'
BY SdkStoppedStep DEF SdkStopped, SdkCalls

\* Whatever a thread goes on with,
LEMMA ContinueKept == ASSUME Kept, NEW t \in Threads, Continue(t) PROVE Kept'
BY MarkKept, UnlistKept, StopKept, JoinKept, FreeKept, ClaimKept, LaunchKept, LogKept,
   DisconnectKept, LaunchRawKept, RawDisconnectKept, RegisterKept, EnableKept DEF Continue

\* and whatever happens, is kept.
LEMMA StepKept == ASSUME Kept, [SessionNext]_sessionVars PROVE Kept'
<1>1. ASSUME NEW t \in Threads, Continue(t) PROVE Kept'
  BY <1>1, ContinueKept
<1>2. ASSUME NEW c \in Conns,
             Accept(c) \/ ConnError(c) \/ Disconnected(c) \/ RequestKeyFrame(c)
                 \/ StreamerSends(c) \/ StreamerEnds(c)
      PROVE  Kept'
  BY <1>2, AcceptKept, ErrorKept, DisconnectedKept, KeyFrameKept, SendsKept, EndsKept
<1>3. QED
  BY <1>1, <1>2, MainKept, SignalKept, StoppedKept, SameKept DEF SessionNext

\* In the beginning no thread has anything to do.
LEMMA InitKept == ASSUME SessionInit PROVE Kept
<1>1. \A t \in Threads : todo[t] = <<>>
  BY DEF SessionInit
<1>2. \A t \in Threads : \A k, c : ~Due(t, k, c)
  BY <1>1, EmptyPlan DEF Due
<1>3. \A c \in Conns : session[c] = NoSession /\ link[c] = "none"
  BY DEF SessionInit
<1>4. /\ NoSession \in Session /\ NoSession.memory = "none" /\ NoSession.worker = "none"
      /\ ~NoSession.scheduled /\ ~NoSession.finalized
  BY DEF NoSession, Session
<1>5. \A c \in Conns : session[c].memory = "none" /\ session[c].worker = "none"
                       /\ ~session[c].scheduled /\ ~session[c].finalized /\ link[c] = "none"
  BY <1>3, <1>4
<1>6. SessionTypeOK
  <2>1. session \in [Conns -> Session]
    BY <1>4 DEF SessionInit
  <2>2. todo \in [Threads -> Seq(Steps)]
    BY EmptyPlan DEF SessionInit
  <2>3. fails \in SUBSET FailureKinds
    BY DesktopAssumption DEF SessionInit
  <2>4. QED
    BY <2>1, <2>2, <2>3, ConnFacts DEF SessionInit, SessionTypeOK, Fates
<1>7. Planned
  BY <1>1, EmptyPlan DEF Planned
<1>8. Assigned /\ Whole
  BY <1>2 DEF Assigned, Whole
<1>9. Onward
  BY <1>2, Apart DEF Onward
<1>10. Handed /\ Worked
  BY <1>2, <1>5, Apart DEF Handed, Holds, Closing, Worked
<1>11. Referred /\ Failing
  BY <1>2, <1>5, Apart DEF Referred, Failing
<1>12. Ending
  BY <1>2, Apart DEF SessionInit, Ending, Leaving
<1>13. Counted
  <2>1. \A c \in Conns : ~OnList(c)
    BY <1>5 DEF OnList
  <2>2. {c \in Conns : OnList(c)} = {}
    BY <2>1
  <2>3. live = Cardinality({c \in Conns : OnList(c)})
    BY <2>2, FS_EmptySet DEF SessionInit
  <2>4. active \notin Conns
    BY ConnFacts DEF SessionInit
  <2>5. QED
    BY <2>3, <2>4 DEF Counted
<1>14. QED
  BY <1>6, <1>7, <1>8, <1>9, <1>10, <1>11, <1>12, <1>13 DEF Kept

------------------------------------------------------------------------------
(* What follows in any state                                               *)

\* A step a thread has to do, by its kind and its connection.
LEMMA HasDue ==
    ASSUME SessionTypeOK, NEW t \in Threads, NEW x \in Steps,
           Kind(x) \notin ClaimPlaces \cup EndKinds
    PROVE  Has(t, x) <=> Due(t, Kind(x), Of(x))
<1> DEFINE plan == todo[t]
<1>1. plan \in Seq(Steps)
  BY DEF SessionTypeOK
<1>2. x = [do |-> Kind(x), conn |-> Of(x)]
  BY StepKinds
<1>3. ASSUME NEW i \in 1 .. Len(plan), Kind(plan[i]) = Kind(x), Of(plan[i]) = Of(x)
      PROVE  plan[i] = x
  <2>1. plan[i] \in Steps /\ Kind(plan[i]) \notin ClaimPlaces \cup EndKinds
    BY <1>1, <1>3
  <2>2. plan[i] = [do |-> Kind(plan[i]), conn |-> Of(plan[i])]
    BY <2>1, StepKinds
  <2>3. QED
    BY <1>2, <1>3, <2>2
<1>4. QED
  BY <1>3 DEF Has, Due, In

\* The steps the properties speak of.
LEMMA HasSteps ==
    ASSUME SessionTypeOK, NEW t \in Threads, NEW c \in Conns
    PROVE  /\ Has(t, Register(c)) <=> Due(t, "register", c)
           /\ Has(t, Unlist(c)) <=> Due(t, "unlist", c)
           /\ Has(t, Join(c)) <=> Due(t, "join", c)
           /\ Has(t, Free(c)) <=> Due(t, "free", c)
           /\ Has(t, Disconnect(c)) <=> Due(t, "disconnect", c)
<1>1. {"register", "unlist", "join", "free", "disconnect"} \cap (ClaimPlaces \cup EndKinds) = {}
  BY DEF ClaimPlaces, EndKinds
<1>2. Has(t, Register(c)) <=> Due(t, "register", c)
  BY <1>1, MadeSteps, HasDue
<1>3. Has(t, Unlist(c)) <=> Due(t, "unlist", c)
  BY <1>1, MadeSteps, HasDue
<1>4. Has(t, Join(c)) <=> Due(t, "join", c)
  BY <1>1, MadeSteps, HasDue
<1>5. Has(t, Free(c)) <=> Due(t, "free", c)
  BY <1>1, MadeSteps, HasDue
<1>6. Has(t, Disconnect(c)) <=> Due(t, "disconnect", c)
  BY <1>1, MadeSteps, HasDue
<1>7. QED
  BY <1>2, <1>3, <1>4, <1>5, <1>6

\* The count and the active session.
LEMMA ListFollows == Kept => ListIsRight
<1> SUFFICES ASSUME Kept PROVE ListIsRight
  OBVIOUS
<1>1. \A c \in Conns : Listed(c) <=> OnList(c)
  BY HasSteps, Apart DEF Kept, Listed, OnList
<1>2. {c \in Conns : Listed(c)} = {c \in Conns : OnList(c)}
  BY <1>1
<1>3. active # 0 => active \in Conns
  BY ConnFacts DEF Kept, SessionTypeOK
<1>4. QED
  BY <1>1, <1>2, <1>3 DEF Kept, Counted, ListIsRight

\* A session has one thread that takes it down: finalized or not tells which.
LEMMA OneFollows == Kept => OneTearsDown
<1> SUFFICES ASSUME Kept, NEW c \in Conns, NEW t \in Threads, NEW u \in Threads,
                    TearsDown(t, c), TearsDown(u, c)
             PROVE  t = u
  BY DEF OneTearsDown
<1>1. \A v \in {t, u} : Due(v, "free", c) \/ Due(v, "disconnect", c)
  BY HasSteps DEF Kept, TearsDown, Whole
<1>2. \A v \in {t, u} : /\ Due(v, "free", c) => session[c].finalized
                        /\ Due(v, "disconnect", c) => Holds(v, c) /\ ~session[c].finalized
  BY DEF Kept, Handed, Holds
<1>3. CASE session[c].finalized
  BY <1>1, <1>2, <1>3 DEF Kept, Handed
<1>4. CASE ~session[c].finalized
  BY <1>1, <1>2, <1>4 DEF Kept, Handed
<1>5. QED
  BY <1>3, <1>4

\* Once TiRtcUninit() is called, if no wait has timed out.
LEMMA QuietThen ==
    ASSUME Kept, sdk = "gone", InTime, NEW c \in Conns
    PROVE  session[c].worker # "running" /\ ~Due(Cleaner(c), "disconnect", c)
<1>1. \A k \in Kinds, d \in ConnOrNone : Due(Main, k, d) => k = "exit"
  BY DEF Kept, Ending
<1>2. ~Due(Main, "await_cleanup", NoConn) /\ Leaving
  <2>1. "await_cleanup" \in Kinds /\ "await_cleanup" # "exit" /\ NoConn \in ConnOrNone
    BY ConnFacts DEF Kinds, EndKinds
  <2>2. QED
    BY <1>1, <2>1 DEF Kept, Ending
<1>3. live = 0
  BY <1>2 DEF Kept, Ending
<1>4. ~OnList(c)
  <2> DEFINE S == {d \in Conns : OnList(d)}
  <2>1. Cardinality(S) = 0 /\ IsFiniteSet(S)
    BY <1>3, ConnFacts, FS_Subset DEF Kept, Counted
  <2>2. S = {}
    BY <2>1, FS_EmptySet
  <2>3. QED
    BY <2>2
<1>5. /\ ~Due(Sdk, "register", c)
      /\ Due(Sdk, "mark", c) \/ Due(Sdk, "free", c) => session[c].worker = "ended"
  BY DEF Kept, Ending
<1>6. session[c].memory = "held" =>
          /\ session[c].finalized
          /\ \E t \in Threads : Due(t, "free", c)
  BY <1>4, <1>5 DEF OnList, Kept, Referred
<1>7. ~Due(Main, "free", c)
  <2>1. "free" \in Kinds /\ "free" # "exit" /\ c \in ConnOrNone
    BY ConnFacts DEF Kinds, SessionKinds
  <2>2. QED
    BY <1>1, <2>1
<1>8. session[c].memory = "held" => session[c].worker = "ended"
  <2>1. \A t \in Threads : Due(t, "free", c) => t \in {Main, Sdk, Cleaner(c)}
    BY DEF Kept, Assigned
  <2>2. Due(Cleaner(c), "free", c) => session[c].worker = "ended"
    BY DEF Kept, Worked
  <2>3. QED
    BY <1>5, <1>6, <1>7, <2>1, <2>2
<1>9. session[c].worker # "running"
  BY <1>8 DEF Kept, Worked, SessionTypeOK, Session
<1>10. ~Due(Cleaner(c), "disconnect", c)
  <2> SUFFICES ASSUME Due(Cleaner(c), "disconnect", c) PROVE FALSE
    OBVIOUS
  <2>1. ~session[c].finalized
    BY Apart DEF Kept, Handed, Holds
  <2>2. session[c].memory # "none"
    BY Apart DEF Kept, Referred, SessionKinds
  <2>3. session[c].memory = "held"
    BY <2>1, <2>2 DEF Kept, Referred, SessionTypeOK, Session
  <2>4. QED
    BY <1>6, <2>1, <2>3
<1>11. QED
  BY <1>9, <1>10

\* The same, in the property's words.
LEMMA QuietFollows == Kept => QuietAtUninit
<1> SUFFICES ASSUME Kept, sdk = "gone", "timeout" \notin fails, NEW c \in Conns
             PROVE  session[c].worker # "running" /\ ~Has(Cleaner(c), Disconnect(c))
  BY DEF QuietAtUninit
<1>1. session[c].worker # "running" /\ ~Due(Cleaner(c), "disconnect", c)
  BY QuietThen DEF InTime
<1>2. QED
  BY <1>1, HasSteps, Apart DEF Kept

------------------------------------------------------------------------------
(* Where the process may be lost                                           *)

\* A step that leaves the process running, or ends it.
LEMMA FateFine ==
    ASSUME fate' \in {"on", "exited"}
    PROVE  TouchesAreKnown'
BY DEF TouchesAreKnown, Places

\* A session whose memory is freed was finalized: what that says of the failures.
LEMMA FreedKnown ==
    ASSUME Kept, NEW c \in Conns, session[c].memory = "freed"
    PROVE  /\ session[c].finalized
           /\ link[c] # "closed" => fails \cap {"thread", "disconnect"} # {}
           /\ \A t \in Threads : /\ ~Due(t, "mark", c) /\ ~Due(t, "free", c)
                                 /\ ~Due(t, "disconnect", c) /\ ~Due(t, "stop", c)
<1>1. session[c].finalized
  BY DEF Kept, Referred
<1>2. link[c] # "closed" => fails \cap {"thread", "disconnect"} # {}
  BY <1>1 DEF Kept, Failing
<1>3. ASSUME NEW t \in Threads
      PROVE  /\ ~Due(t, "mark", c) /\ ~Due(t, "free", c)
             /\ ~Due(t, "disconnect", c) /\ ~Due(t, "stop", c)
  <2>1. ~Due(t, "mark", c) /\ ~Due(t, "free", c) /\ ~Due(t, "disconnect", c)
    BY <1>1 DEF Kept, Handed, Holds
  <2>2. QED
    BY <2>1 DEF Kept, Whole
<1>4. QED
  BY <1>1, <1>2, <1>3

\* Where a thread that goes on may be lost.
LEMMA ContinueKnown ==
    ASSUME Kept, NEW t \in Threads, Continue(t)
    PROVE  TouchesAreKnown'
<1> SUFFICES ASSUME NEW c, c = ConnOf(t) PROVE TouchesAreKnown'
  OBVIOUS
<1>0. /\ {"mark", "stop", "log", "enable", "disconnect", "raw_disconnect"}
             \subseteq (SessionKinds \ ClaimPlaces) \cup RawKinds
  BY DEF SessionKinds, RawKinds, ClaimPlaces
<1>1. Running => \/ ~UNCHANGED fate
                 \/ TouchesAreKnown'
  BY FateFine DEF Running
<1>2. ASSUME MarkFinalized(t) PROVE TouchesAreKnown'
  <2>1. AtStep(t, "mark")
    BY <1>2 DEF MarkFinalized
  <2>2. Running /\ c \in Conns /\ Due(t, "mark", c)
    BY <1>0, <2>1, AtConn DEF Kept
  <2>3. session[c].memory # "freed"
    BY <2>2, FreedKnown
  <2>4. UNCHANGED fate
    BY <1>2, <2>3 DEF MarkFinalized, Uses, Held
  <2>5. QED
    BY <1>1, <2>2, <2>4
<1>3. ASSUME StopStreamer(t) PROVE TouchesAreKnown'
  <2>1. AtStep(t, "stop")
    BY <1>3 DEF StopStreamer
  <2>2. Running /\ c \in Conns /\ Due(t, "stop", c)
    BY <1>0, <2>1, AtConn DEF Kept
  <2>3. session[c].memory # "freed"
    BY <2>2, FreedKnown
  <2>4. UNCHANGED fate
    BY <1>3, <2>3 DEF StopStreamer, Uses, Held
  <2>5. QED
    BY <1>1, <2>2, <2>4
<1>4. ASSUME ClaimSession(t) PROVE TouchesAreKnown'
  <2> DEFINE where == Head(todo[t]).where
  <2>1. AtStep(t, "claim")
    BY <1>4 DEF ClaimSession
  <2>2. Running /\ c \in Conns /\ where \in ClaimPlaces /\ Due(t, where, c)
    BY <2>1, AtClaim DEF Kept
  <2>3. CASE UNCHANGED fate
    BY <1>1, <2>2, <2>3
  <2>4. CASE session[c].memory = "freed" /\ Lost(where)
    <3>1. where = "claim_on_error" => fails \cap {"thread", "disconnect"} # {}
      <4>1. where = "claim_on_error" => Due(Sdk, "claim_on_error", c)
        BY <2>2 DEF Kept, Assigned
      <4>2. QED
        BY <2>2, <2>4, <4>1, FreedKnown DEF Kept, Failing
    <3>2. where = "claim_on_replacement" => "disconnect" \in fails
      <4>1. where = "claim_on_replacement" => Due(Sdk, "claim_on_replacement", c)
        BY <2>2 DEF Kept, Assigned
      <4>2. QED
        BY <2>2, <2>4, <4>1, FreedKnown DEF Kept, Failing
    <3>3. fate' = where /\ fails' = fails
      BY <2>4 DEF Lost
    <3> HIDE DEF where
    <3>4. QED
      BY <2>2, <3>1, <3>2, <3>3 DEF TouchesAreKnown, ClaimPlaces
  <2>5. QED
    BY <1>4, <2>3, <2>4 DEF ClaimSession, Uses, Held
<1>5. ASSUME LogScheduled(t) PROVE TouchesAreKnown'
  <2>1. Running /\ (UNCHANGED fate \/ fate' = "log")
    BY <1>5 DEF LogScheduled, AtStep, Uses, Held, Lost
  <2>2. QED
    BY <1>1, <2>1 DEF TouchesAreKnown
<1>6. ASSUME DisconnectConn(t) PROVE TouchesAreKnown'
  <2>1. AtStep(t, "disconnect")
    BY <1>6 DEF DisconnectConn
  <2>2. Running /\ c \in Conns /\ Due(t, "disconnect", c)
    BY <1>0, <2>1, AtConn DEF Kept
  <2>3. t = Cleaner(c)
    BY <2>2 DEF Kept, Assigned
  <2>4. CASE UNCHANGED fate
    BY <1>1, <2>2, <2>4
  <2>5. CASE sdk = "gone" /\ Lost("disconnect")
    <3>1. "timeout" \in fails
      BY <2>2, <2>3, <2>5, QuietThen DEF InTime
    <3>2. QED
      BY <2>5, <3>1 DEF Lost, TouchesAreKnown
  <2>6. QED
    BY <1>6, <2>4, <2>5 DEF DisconnectConn
<1>7. ASSUME RawDisconnectConn(t) PROVE TouchesAreKnown'
  <2>1. AtStep(t, "raw_disconnect")
    BY <1>7 DEF RawDisconnectConn
  <2>2. Running /\ c \in Conns /\ Due(t, "raw_disconnect", c)
    BY <1>0, <2>1, AtConn DEF Kept
  <2>3. "session" \in fails
    BY <2>2 DEF Kept, Assigned, Referred
  <2>4. UNCHANGED fate \/ Lost("raw_disconnect")
    BY <1>7 DEF RawDisconnectConn
  <2>5. QED
    BY <1>1, <2>2, <2>3, <2>4 DEF Lost, TouchesAreKnown
<1>8. ASSUME EnableStreaming(t) PROVE TouchesAreKnown'
  <2>1. AtStep(t, "enable")
    BY <1>8 DEF EnableStreaming
  <2>2. Running /\ c \in Conns /\ Due(t, "enable", c)
    BY <1>0, <2>1, AtConn DEF Kept
  <2>3. CASE UNCHANGED fate
    BY <1>1, <2>2, <2>3
  <2>4. CASE session[c].memory = "freed" /\ Lost("enable")
    <3>1. Due(Sdk, "enable", c)
      BY <2>2 DEF Kept, Assigned
    <3>2. fails \cap {"thread", "disconnect"} # {}
      BY <2>2, <2>4, <3>1, FreedKnown DEF Kept, Failing
    <3>3. QED
      BY <2>4, <3>2 DEF Lost, TouchesAreKnown
  <2>5. QED
    BY <1>8, <2>3, <2>4 DEF EnableStreaming, Uses, Held
<1>9. ASSUME UnlistSession(t) \/ JoinStreamer(t) \/ FreeSession(t) \/ LaunchCleaner(t)
                 \/ LaunchRawWorker(t) \/ RegisterSession(t)
      PROVE  TouchesAreKnown'
  <2>1. Running /\ UNCHANGED fate
    BY <1>9 DEF UnlistSession, JoinStreamer, FreeSession, LaunchCleaner, LaunchRawWorker,
                RegisterSession, AtStep
  <2>2. QED
    BY <1>1, <2>1
<1>10. QED
  BY <1>2, <1>3, <1>4, <1>5, <1>6, <1>7, <1>8, <1>9 DEF Continue

\* Where the SDK's callbacks and the streamers may be.
LEMMA OthersKnown ==
    ASSUME Kept, NEW c \in Conns,
           Accept(c) \/ ConnError(c) \/ Disconnected(c) \/ RequestKeyFrame(c)
               \/ StreamerSends(c) \/ StreamerEnds(c)
    PROVE  TouchesAreKnown'
<1>1. Running
  BY DEF Accept, ConnError, Disconnected, RequestKeyFrame, StreamerSends, StreamerEnds, SdkCalls
<1>2. CASE UNCHANGED fate
  BY <1>1, <1>2, FateFine DEF Running
<1>3. CASE session[c].memory = "freed" /\ link[c] = "open" /\ Lost("key_frame")
  <2>1. fails \cap {"thread", "disconnect"} # {}
    BY <1>3, FreedKnown
  <2>2. QED
    BY <1>3, <2>1 DEF Lost, TouchesAreKnown
<1>4. CASE session[c].worker = "running" /\ sdk = "gone" /\ Lost("send")
  <2>1. "timeout" \in fails
    BY <1>4, QuietThen DEF InTime
  <2>2. QED
    BY <1>4, <2>1 DEF Lost, TouchesAreKnown
<1>5. \/ UNCHANGED fate
      \/ session[c].memory = "freed" /\ link[c] = "open" /\ Lost("key_frame")
      \/ session[c].worker = "running" /\ sdk = "gone" /\ Lost("send")
  BY DEF Accept, ConnError, Disconnected, RequestKeyFrame, StreamerSends, StreamerEnds, Uses,
         sessionVars
<1>6. QED
  BY <1>2, <1>3, <1>4, <1>5

\* main() itself, the signal and the SDK are not.
LEMMA MainKnown ==
    ASSUME MainGoesOn \/ Signal \/ SdkStopped
    PROVE  TouchesAreKnown'
<1>1. fate' \in {"on", "exited"}
  BY DEF MainGoesOn, StopSdk, AwaitStop, AwaitCleanup, Uninit, Exit, Signal, SdkStopped, SdkCalls,
         AtStep, Running
<1>2. QED
  BY <1>1, FateFine

\* So no step is lost elsewhere.
LEMMA StepKnown ==
    ASSUME DesktopInv, [SessionNext]_sessionVars
    PROVE  TouchesAreKnown'
<1>1. Kept /\ TouchesAreKnown
  BY DEF DesktopInv
<1>2. ASSUME NEW t \in Threads, Continue(t) PROVE TouchesAreKnown'
  BY <1>1, <1>2, ContinueKnown
<1>3. ASSUME NEW c \in Conns,
             Accept(c) \/ ConnError(c) \/ Disconnected(c) \/ RequestKeyFrame(c)
                 \/ StreamerSends(c) \/ StreamerEnds(c)
      PROVE  TouchesAreKnown'
  BY <1>1, <1>3, OthersKnown
<1>4. CASE UNCHANGED sessionVars
  BY <1>1, <1>4 DEF TouchesAreKnown, sessionVars
<1>5. QED
  BY <1>2, <1>3, <1>4, MainKnown DEF SessionNext

------------------------------------------------------------------------------
(* Theorems                                                                *)

\* The invariant that the theorems rest on: what threads have to do, whose hands a
\* session is in, and what goes wrong only after a failure.
THEOREM DesktopHolds == SessionSpec => []DesktopInv
<1>1. SessionInit => DesktopInv
  BY InitKept DEF DesktopInv, TouchesAreKnown, SessionInit, Places
<1>2. DesktopInv /\ [SessionNext]_sessionVars => DesktopInv'
  BY StepKept, StepKnown DEF DesktopInv
<1>3. QED
  BY <1>1, <1>2, PTL DEF SessionSpec

\* The sessions have their types: the ranges of g_app's fields in main.c and of its
\* sessions', and threads that only have steps of that code to do.
THEOREM SessionsTyped == SessionSpec => []SessionTypeOK
<1>1. DesktopInv => SessionTypeOK
  BY DEF DesktopInv, Kept
<1>2. QED
  BY <1>1, DesktopHolds, PTL

\* live_session_count is the number of sessions that are registered and not taken off,
\* and active_session is one of them, however many connections come and go.
THEOREM ListAlwaysRight == SessionSpec => []ListIsRight
<1>1. DesktopInv => ListIsRight
  BY ListFollows DEF DesktopInv
<1>2. QED
  BY <1>1, DesktopHolds, PTL

\* No two threads are ever in session_finalize() or disconnect_worker_main() of the same
\* session with its streamer to join or its memory to free.
THEOREM OneAlwaysTearsDown == SessionSpec => []OneTearsDown
<1>1. DesktopInv => OneTearsDown
  BY OneFollows DEF DesktopInv
<1>2. QED
  BY <1>1, DesktopHolds, PTL

\* Freed memory, or an SDK that is gone, is only used in the places that main.c leaves
\* open to it, each with the failure it takes.
THEOREM TouchesAlwaysKnown == SessionSpec => []TouchesAreKnown
<1>1. DesktopInv => TouchesAreKnown
  BY DEF DesktopInv
<1>2. QED
  BY <1>1, DesktopHolds, PTL

\* When main() calls TiRtcUninit() and neither of its waits has timed out, no streamer
\* runs and no worker is about to call TiRtcDisconnect().
THEOREM QuietAlwaysAtUninit == SessionSpec => []QuietAtUninit
<1>1. DesktopInv => QuietAtUninit
  BY QuietFollows DEF DesktopInv
<1>2. QED
  BY <1>1, DesktopHolds, PTL
=============================================================================
