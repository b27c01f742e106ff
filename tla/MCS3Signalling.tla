--------------------------- MODULE MCS3Signalling ---------------------------
(***************************************************************************)
(* The signalling of the ESP32-S3 example for TLC.  Its three modules      *)
(* share no variable (what the lookup and the socket mean for a request is *)
(* in S3ActiveCall: it fails, or a message of its mailbox is lost), so     *)
(* that a behaviour is one of a single part, with the other two at rest.   *)
(***************************************************************************)
EXTENDS S3ActiveCall, S3Lookup, S3Socket

VARIABLE part

signalVars == <<callVars, lookupVars, socketVars, part>>

Scenario(short, long, drops, strangers) ==
    [short |-> short, long |-> long, drops |-> drops, strangers |-> strangers]

\* Two presses with a WeChat user's call, with a long one, with a connection lost; and one
\* with that call and that loss
FewPresses ==
    {Scenario(2, 0, 0, {-1}), Scenario(2, 1, 0, {}), Scenario(2, 0, 1, {}),
     Scenario(1, 0, 1, {-1})}

Frame(op, from, len) == [op |-> op, from |-> from, len |-> len]
User(openid, model, app) == [openid |-> openid, model |-> model, app |-> app]

\* One frame or several, one that does not fit into what is left of the buffer, one
\* that is too long for it, and a binary message
SmallShapes ==
    {[frames |-> <<Frame("text", 0, 2)>>, users |-> <<User(1, 1, 0), User(2, 0, 0)>>],
     [frames |-> <<Frame("text", 0, 1), Frame("more", 1, 2)>>, users |-> <<User(1, 0, 1)>>],
     [frames |-> <<Frame("text", 0, 2), Frame("more", 2, 2)>>, users |-> <<User(2, 2, 2)>>],
     [frames |-> <<Frame("text", 0, 1), Frame("more", 1, 4), Frame("more", 5, 1)>>,
      users |-> <<User(1, 2, 0)>>],
     [frames |-> <<Frame("binary", 0, 1), Frame("more", 1, 1)>>, users |-> <<>>]}

CallAtRest == CallInit /\ left = Scenario(2, 1, 0, {})

SignalInit ==
    \/ part = "call" /\ CallInit /\ LookupInit /\ SocketInit
    \/ part = "lookup" /\ CallAtRest /\ LookupInit /\ SocketInit
    \/ part = "socket" /\ CallAtRest /\ LookupInit /\ SocketInit

SignalNext ==
    /\ UNCHANGED part
    /\ \/ part = "call" /\ CallNext /\ UNCHANGED <<lookupVars, socketVars>>
       \/ part = "lookup" /\ LookupNext /\ UNCHANGED <<callVars, socketVars>>
       \/ part = "socket" /\ SocketNext /\ UNCHANGED <<callVars, lookupVars>>

\* A call at rest does not change with the loop of main().
SignalSpec == SignalInit /\ [][SignalNext]_signalVars /\ CallFairness
=============================================================================
