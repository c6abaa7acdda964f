------------------------------ MODULE LiveFeed ------------------------------
(***************************************************************************)
(* The live feed end to end: the hooks of the dashboards and the API they  *)
(* are connected to.                                                       *)
(***************************************************************************)
EXTENDS FeedHook, FeedServer

ASSUME FaultsAssumption == MaxFaults \in Nat

vars == <<sockets, faults, hookVars, serverVars>>

Init ==
    /\ sockets = [s \in Sockets |-> Closed]
    /\ faults = MaxFaults
    /\ HookInit
    /\ ServerInit

Browser ==
    \/ \E c \in Clients :
        \/ ReconnectTimer(c)
        \/ Reconnect(c)
        \/ Wake(c)
        \/ \E p \in Props : Render(c, p)
        \/ RunEffects(c)
        \/ \E s \in Sockets : TokenArrives(c, s)
        \/ TokenLate(c)
        \/ TokenRejected(c)
    \/ \E s \in Sockets : OnOpen(s) \/ OnMessage(s) \/ OnClose(s)

Endpoint == \E s \in Sockets : Accept(s) \/ Refuse(s) \/ Leave(s)

Broadcaster ==
    \/ StartRound
    \/ EndRound
    \/ \E a \in Accounts : Serve(a)
    \/ Read
    \/ Recover
    \/ Reread
    \/ \E s \in Sockets : SendTo(s)
    \/ SendDone
    \/ SendAborted

Environment ==
    \E a \in Accounts : GraceElapses(a) \/ CooldownElapses(a) \/ RuntimeChanges(a)

Next ==
    \/ Browser /\ UNCHANGED serverVars
    \/ (Endpoint \/ Broadcaster \/ Environment \/ Restart) /\ UNCHANGED hookVars
    \/ \E s \in Sockets : Lose(s) /\ UNCHANGED <<hookVars, serverVars>>

Spec == Init /\ [][Next]_vars

(* Timers fire, effects run, promises settle, sockets open, deliver and    *)
(* close, tasks of the event loop and threads go on.  Nothing is assumed   *)
(* of what costs a fault.                                                  *)
Fairness ==
    /\ \A c \in Clients :
        /\ WF_vars(ReconnectTimer(c) /\ UNCHANGED serverVars)
        /\ WF_vars(RunEffects(c) /\ UNCHANGED serverVars)
        /\ WF_vars((\E s \in Sockets : TokenArrives(c, s)) /\ UNCHANGED serverVars)
    /\ \A s \in Sockets :
        /\ WF_vars((OnOpen(s) \/ OnMessage(s) \/ OnClose(s)) /\ UNCHANGED serverVars)
        /\ WF_vars((Accept(s) \/ Leave(s)) /\ UNCHANGED hookVars)
    /\ WF_vars(Broadcaster /\ UNCHANGED hookVars)
    /\ \A a \in Accounts :
        /\ WF_vars(GraceElapses(a) /\ UNCHANGED hookVars)
        /\ WF_vars(CooldownElapses(a) /\ UNCHANGED hookVars)

FairSpec == Spec /\ Fairness

-----------------------------------------------------------------------------
(* The state has the types the comments of its variables say. *)
TypeOK ==
    /\ sockets \in [Sockets -> SocketType]
    /\ faults \in 0..MaxFaults
    /\ props \in [Clients -> Props]
    /\ fed \in [Clients -> Accounts \union {None}]
    /\ account \in [Clients -> Accounts \union {None}]
    /\ wsRef \in [Clients -> Sockets \union {None}]
    /\ asking \in [Clients -> BOOLEAN]
    /\ superseded \in [Clients -> Nat]
    /\ timer \in [Clients -> BOOLEAN]
    /\ shown \in [Clients -> Shown]
    /\ DOMAIN conns \subseteq Accounts
    /\ \A a \in DOMAIN conns : conns[a] \subseteq Sockets
    /\ round \in RoundType
    /\ failures \in [Accounts -> 0..RecoverAfter]
    /\ fresh \in [Accounts -> BOOLEAN]
    /\ cooled \in [Accounts -> BOOLEAN]
    /\ mt5 \in [Accounts -> RuntimeStates]

(* However attempts, switches and closes interleave, a hook has at most one *)
(* socket that is not closed, it is the one in wsRef, and it belongs to the *)
(* hook's present account: none is leaked (use-websocket.ts:200-220).       *)
OneSocketPerHook ==
    \A s \in Sockets : Alive(s) =>
        /\ wsRef[sockets[s].client] = s
        /\ sockets[s].account = account[sockets[s].client]

(* An enabled hook without a socket has a timer or a token request that     *)
(* will bring it one: no sequence of wakes, rejected tokens, superseded     *)
(* attempts and closes leaves it waiting for nothing.                       *)
AlwaysAWayForward ==
    \A c \in Clients : account[c] # None => wsRef[c] # None \/ asking[c] \/ timer[c]

(* "Reset immediately on account switches so the previous account is never *)
(* shown" (use-websocket.ts:300), as far as the code goes: for the render   *)
(* of the switch the hook still returns the old feed (line 367), and old    *)
(* messages may come.  Once the effects of that render have run, whatever   *)
(* is still in flight, it shows the account rendered or nothing.            *)
NeverThePreviousAccount ==
    \A c \in Clients :
        EffectsRan(c) /\ shown[c] # None => shown[c].account = props[c].account

(* What the manager holds are sockets whose endpoint is serving, each under *)
(* its own account only: a send never goes to another account's subscriber  *)
(* and no set keeps a socket that is gone (manager.py:22-39).  A subscriber *)
(* may be missing: after a failed send, until it reconnects.                *)
NoGhostSubscribers ==
    \A a \in DOMAIN conns : \A s \in conns[a] :
        sockets[s].peer = "serving" /\ sockets[s].account = a

(* Once faults stop, every enabled dashboard ends up showing its account,   *)
(* as connected exactly if the account's runtime answers: a runtime a       *)
(* recovery can help is recovered, an unhealthy account or a round that is  *)
(* given up starves no other, and every lost socket is replaced.            *)
DashboardsSettle ==
    \A c \in Clients : <>[](LET a == Target(props[c]) IN a # None =>
        /\ shown[c] = [account |-> a, live |-> mt5[a] = "up"]
        /\ mt5[a] # "stuck")
=============================================================================
