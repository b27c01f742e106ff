------------------------------ MODULE S3Socket ------------------------------
(***************************************************************************)
(* The messages that the ESP32-S3 example receives from its business       *)
(* server, and the WeChat user it learns from them:                        *)
(*   main/tirtc/wechat_voip_ws.c, websocket_event_handler(), the queue     *)
(*   behind it, ws_msg_task() and the authorisation cache                  *)
(*                                                                         *)
(* A message is a sequence of WebSocket frames, and the client hands the   *)
(* handler a frame in one event or in several, each with the frame's       *)
(* opcode, length and FIN bit.  What is buffered is the sequence of the    *)
(* units of data that got there, <<message, place>>; a message that is not *)
(* whole does not parse.                                                   *)
(***************************************************************************)
EXTENDS Integers, Sequences

CONSTANTS
    Shapes,         \* the messages the server may send
    BufSize,        \* WS_FRAG_BUF_SIZE (8192)
    QueueLen,       \* WS_MSG_QUEUE_LEN (8)
    MaxMessages,    \* messages in a behaviour
    MaxLosses       \* connections lost

\* A frame, and what of its message is in the frames before it.  Control frames, which
\* the handler passes over, are left out.
Frames == [op : {"text", "more", "binary"}, from : Nat, len : Nat \ {0}]

\* A message is cut into frames: each goes on where the one before it ends.
Cut(frames) ==
    /\ frames \in Seq(Frames) /\ frames # <<>>
    /\ frames[1].from = 0
    /\ \A i \in 1 .. Len(frames) - 1 : frames[i + 1].from = frames[i].from + frames[i].len
    /\ \A i \in 1 .. Len(frames) : frames[i].op = "more" <=> i > 1

\* A WeChat user as an authorisation names it, with the field 0 that is missing
Users == [openid : Nat, model : Nat, app : Nat]

ASSUME SocketAssumption ==
    /\ \A s \in Shapes : Cut(s.frames) /\ s.users \in Seq(Users)
    /\ BufSize \in Nat \ {0} /\ QueueLen \in Nat \ {0}
    /\ MaxMessages \in Nat /\ MaxLosses \in Nat

VARIABLES
    up,         \* s_connected, as the server sees it: there is a connection
    sent,       \* the messages sent so far
    at,         \* the frame of the last one being sent, and what of it is
    frag,       \* s_frag_buf and s_frag_len
    queue,      \* s_ws_msg_queue
    users,      \* what handle_envelope() has still to remember
    auth,       \* s_cached_auth
    losses,     \* connections lost so far
    told        \* history: users named, and messages that got here maimed

socketVars == <<up, sent, at, frag, queue, users, auth, losses, told>>

NoUser == [openid |-> 0, model |-> 0, app |-> 0]
Rest   == [frame |-> 0, off |-> 0]

SocketTypeOK ==
    /\ up \in BOOLEAN
    /\ sent \in Seq(Shapes) /\ Len(sent) <= MaxMessages
    /\ at \in [frame : Nat, off : Nat]
    /\ frag \in Seq(Nat \X Nat) /\ Len(frag) < BufSize
    /\ queue \in Seq(Seq(Nat \X Nat)) /\ Len(queue) <= QueueLen
    /\ users \in Seq(Users)
    /\ auth \in Users
    /\ losses \in 0 .. MaxLosses
    /\ told \in [users : SUBSET Users, maimed : SUBSET Nat]

------------------------------------------------------------------------------
(* The server and the client library                                       *)

Start ==
    /\ up /\ at = Rest /\ Len(sent) < MaxMessages
    /\ \E s \in Shapes :
           /\ sent' = Append(sent, s)
           /\ told' = [told EXCEPT !.users = @ \cup {s.users[i] : i \in DOMAIN s.users}]
    /\ at' = [frame |-> 1, off |-> 0]
    /\ UNCHANGED <<up, frag, queue, users, auth, losses>>

Current     == sent[Len(sent)].frames[at.frame]
IsLastFrame == at.frame = Len(sent[Len(sent)].frames)

\* The units of message n from place i on
Units(n, i, k) == [j \in 1 .. k |-> <<n, i + j - 1>>]

LengthOf(frames) == frames[Len(frames)].from + frames[Len(frames)].len

Whole(n) == Units(n, 1, LengthOf(sent[n].frames))
Place    == Current.from + at.off + 1

Advance(k) ==
    at' = IF at.off + k < Current.len THEN [at EXCEPT !.off = @ + k]
          ELSE IF IsLastFrame THEN Rest
          ELSE [frame |-> at.frame + 1, off |-> 0]

------------------------------------------------------------------------------
(* websocket_event_handler()                                               *)

\* enqueue_ws_message(): an empty message, one too many and one that there is no memory
\* for are dropped.
Enqueue(message) ==
    \/ message # <<>> /\ Len(queue) < QueueLen /\ queue' = Append(queue, message)
    \/ UNCHANGED queue

Maim == told' = [told EXCEPT !.maimed = @ \cup {Len(sent)}]

\* DATA: k units of the current frame.  FIN is the frame's: all its events have it.
Data(k) ==
    LET got == frag \o Units(Len(sent), Place, k)
        fits == Len(frag) + k < BufSize
        kept == IF fits THEN got ELSE frag
    IN /\ up /\ at # Rest
       /\ k <= Current.len - at.off
       /\ Advance(k)
       /\ IF Current.op \notin {"text", "more"}
          THEN UNCHANGED <<frag, queue>>
          ELSE IF Current.len >= BufSize
          THEN frag' = <<>> /\ UNCHANGED queue
          ELSE IF IsLastFrame
          THEN Enqueue(kept) /\ frag' = <<>>
          ELSE frag' = kept /\ UNCHANGED queue
       /\ IF \/ Current.op = "binary" \/ Current.len >= BufSize \/ ~fits
             \/ IsLastFrame /\ k < Current.len
          THEN Maim ELSE UNCHANGED told
       /\ UNCHANGED <<up, sent, users, auth, losses>>

\* DISCONNECTED or CLOSED, and ERROR, which leaves the buffer as it is
Lose ==
    /\ up /\ losses < MaxLosses
    /\ up' = FALSE
    /\ losses' = losses + 1
    /\ at' = Rest
    /\ frag' \in {<<>>, frag}
    /\ UNCHANGED <<sent, queue, users, auth, told>>

\* Mutant: a new connection goes on in the old one's buffer.
ReconnectKeeping ==
    /\ ~up
    /\ up' = TRUE
    /\ UNCHANGED <<sent, at, frag, queue, users, auth, losses, told>>

\* CONNECTED
Reconnect ==
    /\ ~up
    /\ up' = TRUE
    /\ frag' = <<>>
    /\ UNCHANGED <<sent, at, queue, users, auth, losses, told>>

------------------------------------------------------------------------------
(* ws_msg_task()                                                           *)

\* The users that a message names, one after the other; what is not whole does not parse.
Named(message) ==
    LET n == message[1][1] IN IF message = Whole(n) THEN sent[n].users ELSE <<>>

\* handle_envelope(): auth_list, auth_update and wx_user_bind name users.
Handle ==
    /\ queue # <<>> /\ users = <<>>
    /\ queue' = Tail(queue)
    /\ users' = Named(Head(queue))
    /\ UNCHANGED <<up, sent, at, frag, auth, losses, told>>

\* remember_auth_user(): what the message leaves out is kept, of the same user.
Remember ==
    LET u == Head(users)
        kept == IF u.openid = auth.openid THEN auth ELSE NoUser
    IN /\ users # <<>>
       /\ users' = Tail(users)
       /\ auth' = IF u.openid = 0 THEN auth
                  ELSE [openid |-> u.openid,
                        model  |-> IF u.model # 0 THEN u.model ELSE kept.model,
                        app    |-> IF u.app # 0 THEN u.app ELSE kept.app]
       /\ UNCHANGED <<up, sent, at, frag, queue, losses, told>>

SocketInit ==
    /\ up = TRUE
    /\ sent = <<>>
    /\ at = Rest
    /\ frag = <<>>
    /\ queue = <<>>
    /\ users = <<>>
    /\ auth = NoUser
    /\ losses = 0
    /\ told = [users |-> {}, maimed |-> {}]

SocketNext ==
    \/ Start
    \/ \E k \in 1 .. BufSize : at # Rest /\ Data(k)
    \/ Lose \/ Reconnect
    \/ Handle \/ Remember

SocketSpec == SocketInit /\ [][SocketNext]_socketVars

------------------------------------------------------------------------------
(* Properties                                                              *)

\* What is handed on is one message, whole, whatever connections were lost in the middle
\* of others, unless it was binary, too long for the buffer, or its last frame came in
\* several events; a message never has a part of another.
MessagesWhole ==
    \A i \in DOMAIN queue :
        LET n == queue[i][1][1]
        IN /\ \A j \in DOMAIN queue[i] : queue[i][j][1] = n
           /\ n \notin told.maimed => queue[i] = Whole(n)

\* The user that is called is one the server has named: no model or application of one
\* user is kept for another.
UserIsOne ==
    /\ auth.model # 0 =>
           \E u \in told.users : u.openid = auth.openid /\ u.model = auth.model
    /\ auth.app # 0 =>
           \E u \in told.users : u.openid = auth.openid /\ u.app = auth.app

\* Nothing the server says reaches the device mixed with something else it said: neither
\* the messages in the reassembly buffer nor the users in the authorisation cache.
NothingIsMixed == MessagesWhole /\ UserIsOne
=============================================================================
