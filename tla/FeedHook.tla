------------------------------ MODULE FeedHook ------------------------------
(***************************************************************************)
(* useWebSocket of the dashboard: one socket per mounted hook, opened with *)
(* a fresh access token, reopened by a timer when it closes and replaced   *)
(* when the account changes.  The token arrives asynchronously, so an      *)
(* attempt may have been superseded by the time it does.                   *)
(***************************************************************************)
EXTENDS FeedSockets

VARIABLES
    props,       \* what the hook was last rendered with
    fed,         \* accountId when its effects last ran
    account,     \* the account its effects connect it to, None while disabled
    wsRef,       \* its socket
    asking,      \* the attempt of this generation awaits its token
    superseded,  \* earlier attempts that still do
    timer,       \* reconnectTimeoutRef is set
    shown        \* the account whose data it shows, and whether as connected

feedVars == <<props, fed, account, shown>>
hookVars == <<feedVars, wsRef, asking, superseded, timer>>

(* accountId, and enabled together with a token: the layout enables the    *)
(* hook for a session with an active account that is set up.               *)
Props == {p \in [account : Accounts \union {None}, enabled : BOOLEAN] :
            p.enabled => p.account # None}

Shown == [account : Accounts, live : BOOLEAN] \union {None}

(* detachAndClose(wsRef.current): no handler of the socket runs any more. *)
Detach(c) ==
    IF wsRef[c] = None THEN sockets
    ELSE [sockets EXCEPT ![wsRef[c]] = Done([@ EXCEPT !.ready = "closed",
                                                      !.inbox = None])]

(* A new generation: attempts under way are superseded, the socket and the *)
(* timer are dropped, and a token is asked for.                            *)
NewGeneration(c, ask) ==
    /\ superseded' = [superseded EXCEPT ![c] = IF asking[c] THEN @ + 1 ELSE @]
    /\ asking'     = [asking EXCEPT ![c] = ask]
    /\ timer'      = [timer EXCEPT ![c] = FALSE]
    /\ wsRef'      = [wsRef EXCEPT ![c] = None]
    /\ sockets'    = Detach(c)

Connect(c) == account[c] # None /\ NewGeneration(c, TRUE) /\ UNCHANGED feedVars

\* Mutant: no reconnect after a close.
ScheduleNothing(c) == UNCHANGED timer

(* scheduleReconnect: one timer, and none for a disabled hook. *)
ScheduleReconnect(c) == timer' = [timer EXCEPT ![c] = account[c] # None]

(* The timer, or the user: reconnect(), a wake event that finds no open or *)
(* a stale socket, a new token from the session (whose effects only run    *)
(* the cleanup and connect again).                                         *)
ReconnectTimer(c) == timer[c] /\ Connect(c) /\ UNCHANGED faults
Reconnect(c)      == FaultOf(c) /\ Connect(c)

\* Mutant: whatever the state of the socket is.
WakeAlways(c) ==
    /\ timer[c]
    /\ timer' = [timer EXCEPT ![c] = FALSE]
    /\ UNCHANGED <<feedVars, wsRef, asking, superseded, sockets, faults>>

(* handleWake on an open socket: a ping, and the timer is dropped. *)
Wake(c) ==
    /\ wsRef[c] # None /\ sockets[wsRef[c]].ready = "open" /\ timer[c]
    /\ timer' = [timer EXCEPT ![c] = FALSE]
    /\ UNCHANGED <<feedVars, wsRef, asking, superseded, sockets, faults>>

Target(p) == IF p.enabled THEN p.account ELSE None

EffectsRan(c) == fed[c] = props[c].account /\ account[c] = Target(props[c])

(* A render with another account, or disabled: the user switches, signs    *)
(* out or signs in again.  Its effects run later; until then the feed, the *)
(* socket, the attempt and the timer are still those of the render before. *)
Render(c, p) ==
    /\ EffectsRan(c) /\ p # props[c]
    /\ FaultOf(c)
    /\ props' = [props EXCEPT ![c] = p]
    /\ UNCHANGED <<fed, account, shown, wsRef, asking, superseded, timer, sockets>>

\* Mutant: the effect that resets the feed is missing.
RunEffectsUnreset(c) ==
    /\ ~EffectsRan(c)
    /\ fed' = [fed EXCEPT ![c] = props[c].account]
    /\ account' = [account EXCEPT ![c] = Target(props[c])]
    /\ NewGeneration(c, Target(props[c]) # None)
    /\ UNCHANGED <<props, shown, faults>>

(* Its effects: the cleanup drops socket, attempt and timer, the feed is   *)
(* reset if it is another accountId, and an enabled hook connects.         *)
RunEffects(c) ==
    /\ ~EffectsRan(c)
    /\ fed' = [fed EXCEPT ![c] = props[c].account]
    /\ shown' = [shown EXCEPT ![c] = IF props[c].account = fed[c] THEN @ ELSE None]
    /\ account' = [account EXCEPT ![c] = Target(props[c])]
    /\ NewGeneration(c, Target(props[c]) # None)
    /\ UNCHANGED <<props, faults>>

(* The token arrives for the attempt of this generation, which opens a      *)
(* socket (whichever identity is not in use) ...                            *)
TokenArrives(c, s) ==
    /\ asking[c]
    /\ sockets[s] = Closed /\ s = CHOOSE t \in Sockets : sockets[t] = Closed
    /\ asking'  = [asking EXCEPT ![c] = FALSE]
    /\ wsRef'   = [wsRef EXCEPT ![c] = s]
    /\ sockets' = [sockets EXCEPT ![s] =
            [Closed EXCEPT !.client = c, !.account = account[c],
                           !.ready = "connecting", !.peer = "restoring"]]
    /\ UNCHANGED <<feedVars, superseded, timer, faults>>

\* Mutant: the generation is not compared.
TokenLateConnects(c) ==
    /\ superseded[c] > 0
    /\ superseded' = [superseded EXCEPT ![c] = @ - 1]
    /\ \E s \in Sockets :
        /\ sockets[s] = Closed
        /\ wsRef' = [wsRef EXCEPT ![c] = s]
        /\ sockets' = [sockets EXCEPT ![s] =
                [Closed EXCEPT !.client = c, !.account = account[c],
                               !.ready = "connecting", !.peer = "restoring"]]
    /\ UNCHANGED <<feedVars, asking, timer, faults>>

(* ... or for one of an earlier generation ... *)
TokenLate(c) ==
    /\ superseded[c] > 0
    /\ superseded' = [superseded EXCEPT ![c] = @ - 1]
    /\ UNCHANGED <<feedVars, wsRef, asking, timer, sockets, faults>>

(* ... or the request fails; the catch clause does not look at the         *)
(* generation.                                                             *)
TokenRejected(c) ==
    /\ FaultOf(c)
    /\ \/ asking[c] /\ asking' = [asking EXCEPT ![c] = FALSE] /\ UNCHANGED superseded
       \/ /\ superseded[c] > 0
          /\ superseded' = [superseded EXCEPT ![c] = @ - 1]
          /\ UNCHANGED asking
    /\ ScheduleReconnect(c)
    /\ UNCHANGED <<feedVars, wsRef, sockets>>

OnOpen(s) ==
    /\ sockets[s].ready = "connecting" /\ sockets[s].peer = "serving"
    /\ ~sockets[s].lost
    /\ sockets' = [sockets EXCEPT ![s].ready = "open"]
    /\ UNCHANGED <<hookVars, faults>>

OnMessage(s) ==
    LET c == sockets[s].client
        m == sockets[s].inbox
    IN  /\ sockets[s].ready = "open" /\ m # None
        /\ sockets' = [sockets EXCEPT ![s].inbox = None]
        /\ shown' = IF wsRef[c] = s /\ m.account = sockets[s].account
                    THEN [shown EXCEPT ![c] =
                            [account |-> m.account, live |-> m.status # "disconnected"]]
                    ELSE shown
        /\ UNCHANGED <<props, fed, account, wsRef, asking, superseded, timer, faults>>

(* The server closed the socket, or the heartbeat found it stale. *)
OnClose(s) ==
    LET c == sockets[s].client
    IN  /\ Alive(s)
        /\ sockets[s].peer = "gone" \/ sockets[s].lost
        /\ sockets' = [sockets EXCEPT ![s] = Done([@ EXCEPT !.ready = "closed",
                                                            !.inbox = None])]
        /\ IF wsRef[c] = s
           THEN wsRef' = [wsRef EXCEPT ![c] = None] /\ ScheduleReconnect(c)
           ELSE UNCHANGED <<wsRef, timer>>
        /\ UNCHANGED <<feedVars, asking, superseded, faults>>

HookInit ==
    /\ props      = [c \in Clients |-> [account |-> Mounted[c], enabled |-> TRUE]]
    /\ fed        = Mounted
    /\ account    = Mounted
    /\ wsRef      = [c \in Clients |-> None]
    /\ asking     = [c \in Clients |-> TRUE]
    /\ superseded = [c \in Clients |-> 0]
    /\ timer      = [c \in Clients |-> FALSE]
    /\ shown      = [c \in Clients |-> None]
=============================================================================
