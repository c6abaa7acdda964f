--------------------------- MODULE LiveFeedProofs ---------------------------
(* What LiveFeed keeps, for any hooks, accounts, sockets and faults.       *)
EXTENDS LiveFeed, FiniteSetTheorems, TLAPS

USE NoneAssumption, MountedAssumption, SocketsAssumption, FaultsAssumption, RecoverAssumption
    DEF NoneAssumption, MountedAssumption, SocketsAssumption, FaultsAssumption, RecoverAssumption

\* The socket of a hook is its own and not closed; a hook that awaits a token
\* has none yet and is enabled.
HookSound ==
    \A c \in Clients :
        /\ wsRef[c] # None => Alive(wsRef[c]) /\ sockets[wsRef[c]].client = c
        /\ asking[c] => wsRef[c] = None /\ account[c] # None

\* A hook shows the accountId its effects last ran for, or nothing, and an
\* enabled one is connected to it.
FeedSound ==
    \A c \in Clients :
        /\ shown[c] # None => shown[c].account = fed[c]
        /\ account[c] # None => account[c] = fed[c]

\* A socket in use has a hook and an account.
SocketsSound ==
    \A s \in Sockets :
        /\ Alive(s) => sockets[s].client \in Clients
        /\ Alive(s) \/ sockets[s].peer # "gone" => sockets[s].account \in Accounts

\* Between its choice and the end of its broadcast the round has an account.
RoundSound == round.pc \notin {"sleep", "next"} => round.account \in Accounts

HookInv   == OneSocketPerHook /\ AlwaysAWayForward /\ FeedSound /\ HookSound
ServerInv == NoGhostSubscribers /\ RoundSound
FInv      == TypeOK /\ SocketsSound /\ HookInv /\ ServerInv

-----------------------------------------------------------------------------
LEMMA ClosedIsSocket == Closed \in SocketType
BY DEF Closed, SocketType

LEMMA DoneIsSocket ==
    ASSUME NEW r \in SocketType
    PROVE  /\ Done(r) \in SocketType
           /\ Done(r).ready = r.ready /\ Done(r).peer = r.peer
           /\ r.ready # "closed" \/ r.peer # "gone" => Done(r) = r
BY ClosedIsSocket DEF Done, Closed, SocketType

LEMMA IdleIsRound == Idle \in RoundType
BY DEF Idle, RoundType

LEMMA OfIsFinite ==
    ASSUME TypeOK, NEW a
    PROVE  Of(a) \subseteq Sockets /\ Cardinality(Of(a)) \in Nat
<1>1. Of(a) \subseteq Sockets
  BY DEF Of, TypeOK
<1>2. QED BY <1>1, FS_Subset, FS_CardinalityType

LEMMA InitFInv == Init => FInv
<1> SUFFICES ASSUME Init PROVE FInv
  OBVIOUS
<1> USE DEF Init, HookInit, ServerInit
<1>1. TypeOK
  <2>1. sockets \in [Sockets -> SocketType]
    BY ClosedIsSocket
  <2>2. round \in RoundType
    BY IdleIsRound
  <2>3. props \in [Clients -> Props]
    BY DEF Props
  <2>4. QED BY <2>1, <2>2, <2>3 DEF TypeOK, Shown, RuntimeStates
<1>2. SocketsSound /\ OneSocketPerHook
  BY DEF SocketsSound, OneSocketPerHook, Alive, Closed
<1>3. AlwaysAWayForward /\ FeedSound /\ HookSound
  BY DEF AlwaysAWayForward, FeedSound, HookSound
<1>4. NoGhostSubscribers /\ RoundSound
  BY DEF NoGhostSubscribers, RoundSound, Idle
<1>5. QED BY <1>1, <1>2, <1>3, <1>4 DEF FInv, HookInv, ServerInv

-----------------------------------------------------------------------------
(* A step of one side leaves the other side's part of the invariant alone. *)

\* The server changes no socket the browser still uses but for its far end.
ServerTouch ==
    \A s \in Sockets :
        /\ sockets'[s].ready = sockets[s].ready
        /\ Alive(s) => /\ sockets'[s].client = sockets[s].client
                       /\ sockets'[s].account = sockets[s].account

LEMMA ServerKeepsHooks ==
    ASSUME FInv, TypeOK', ServerTouch, UNCHANGED hookVars
    PROVE  HookInv'
<1> USE DEF FInv, HookInv, ServerTouch, hookVars, feedVars, Alive
<1>1. OneSocketPerHook'
  BY DEF OneSocketPerHook, SocketsSound
<1>2. AlwaysAWayForward' /\ FeedSound'
  BY DEF AlwaysAWayForward, FeedSound
<1>3. HookSound'
  <2>1. \A c \in Clients : wsRef[c] # None => wsRef[c] \in Sockets
    BY DEF TypeOK
  <2>2. QED BY <2>1 DEF HookSound
<1>4. QED BY <1>1, <1>2, <1>3

\* The browser changes no socket the server still serves but for its near end.
HookTouch ==
    \A s \in Sockets : sockets[s].peer = "serving" =>
        sockets'[s].peer = "serving" /\ sockets'[s].account = sockets[s].account

LEMMA HookKeepsServer ==
    ASSUME FInv, HookTouch, UNCHANGED serverVars
    PROVE  ServerInv'
<1>1. \A a \in DOMAIN conns : conns[a] \subseteq Sockets
  BY DEF FInv, TypeOK
<1>2. QED
  BY <1>1 DEF FInv, ServerInv, HookTouch, serverVars, NoGhostSubscribers, RoundSound

-----------------------------------------------------------------------------
(* The browser.                                                            *)

\* What is to be shown of a step of the browser.
HookGoal == TypeOK' /\ SocketsSound' /\ HookInv' /\ HookTouch

\* What a hook's socket and its sockets are when it drops the one it has.
LEMMA DetachWorks ==
    ASSUME FInv, NEW c \in Clients
    PROVE  /\ Detach(c) \in [Sockets -> SocketType]
           /\ \A s \in Sockets :
                /\ s # wsRef[c] => Detach(c)[s] = sockets[s]
                /\ s = wsRef[c] => Detach(c)[s].ready = "closed"
                /\ Detach(c)[s].peer = sockets[s].peer
                /\ sockets[s].peer # "gone" => Detach(c)[s].account = sockets[s].account
<1> USE DEF FInv, TypeOK
<1>1. CASE wsRef[c] = None
  BY <1>1 DEF Detach
<1>2. CASE wsRef[c] # None
  <2> DEFINE r == [[sockets[wsRef[c]] EXCEPT !.ready = "closed"] EXCEPT !.inbox = None]
  <2>1. wsRef[c] \in Sockets
    BY <1>2
  <2>2. /\ r \in SocketType
        /\ r.ready = "closed" /\ r.peer = sockets[wsRef[c]].peer
        /\ r.account = sockets[wsRef[c]].account
    <3>1. sockets[wsRef[c]] \in SocketType
      BY <2>1
    <3>2. QED BY <3>1 DEF SocketType
  <2>3. Detach(c) = [sockets EXCEPT ![wsRef[c]] = Done(r)]
    BY <1>2, <2>1 DEF Detach
  <2> HIDE DEF r
  <2>4. Done(r) \in SocketType /\ Done(r).ready = "closed" /\ Done(r).peer = r.peer
        /\ (r.peer # "gone" => Done(r).account = r.account)
    BY <2>2, DoneIsSocket
  <2>5. QED BY <2>1, <2>2, <2>3, <2>4
<1>3. QED BY <1>1, <1>2

\* A new generation, for the same account or another one.
LEMMA GenerationStep ==
    ASSUME FInv, NEW c \in Clients, NEW ask \in BOOLEAN, NewGeneration(c, ask),
           UNCHANGED serverVars, faults' \in 0..MaxFaults,
           props' \in [Clients -> Props],
           fed' \in [Clients -> Accounts \union {None}],
           account' \in [Clients -> Accounts \union {None}],
           \A d \in Clients \ {c} : account'[d] = account[d],
           ask <=> account'[c] # None,
           shown' \in [Clients -> Shown], FeedSound'
    PROVE  HookGoal
<1> USE DEF FInv, HookInv, NewGeneration, serverVars
<1>0. /\ sockets' \in [Sockets -> SocketType]
      /\ \A s \in Sockets :
           /\ s # wsRef[c] => sockets'[s] = sockets[s]
           /\ s = wsRef[c] => sockets'[s].ready = "closed"
           /\ sockets'[s].peer = sockets[s].peer
           /\ sockets[s].peer # "gone" => sockets'[s].account = sockets[s].account
  BY DetachWorks
<1>1. TypeOK'
  <2>1. superseded' \in [Clients -> Nat]
    BY DEF TypeOK
  <2>2. asking' \in [Clients -> BOOLEAN] /\ timer' \in [Clients -> BOOLEAN]
    BY DEF TypeOK
  <2>3. wsRef' \in [Clients -> Sockets \union {None}]
    BY DEF TypeOK
  <2>4. QED BY <1>0, <2>1, <2>2, <2>3 DEF TypeOK
<1>2. SocketsSound'
  BY <1>0 DEF SocketsSound, Alive
<1>3. OneSocketPerHook'
  <2> SUFFICES ASSUME NEW s \in Sockets, Alive(s)'
               PROVE  /\ wsRef'[sockets'[s].client] = s
                      /\ sockets'[s].account = account'[sockets'[s].client]
    BY DEF OneSocketPerHook
  <2>1. s # wsRef[c] /\ sockets'[s] = sockets[s] /\ Alive(s)
    BY <1>0 DEF Alive
  <2>2. sockets[s].client \in Clients /\ wsRef[sockets[s].client] = s
        /\ sockets[s].account = account[sockets[s].client]
    BY <2>1 DEF SocketsSound, OneSocketPerHook
  <2>3. sockets[s].client # c
    BY <2>1, <2>2
  <2>4. QED BY <2>1, <2>2, <2>3 DEF TypeOK
<1>4. AlwaysAWayForward'
  BY DEF AlwaysAWayForward, TypeOK
<1>5. FeedSound'
  OBVIOUS
<1>6. HookSound'
  <2> SUFFICES ASSUME NEW d \in Clients
               PROVE  /\ wsRef'[d] # None => /\ sockets'[wsRef'[d]].ready # "closed"
                                             /\ sockets'[wsRef'[d]].client = d
                      /\ asking'[d] => wsRef'[d] = None /\ account'[d] # None
    BY DEF HookSound, Alive
  <2>1. CASE d = c
    BY <2>1 DEF TypeOK
  <2>2. CASE d # c
    <3>1. wsRef'[d] = wsRef[d] /\ asking'[d] = asking[d]
      BY <2>2 DEF TypeOK
    <3>2. wsRef[d] # None => wsRef[d] \in Sockets /\ wsRef[d] # wsRef[c]
      BY <2>2 DEF TypeOK, HookSound
    <3>3. wsRef[d] # None => sockets'[wsRef[d]] = sockets[wsRef[d]]
      BY <1>0, <3>2
    <3>4. QED BY <2>2, <3>1, <3>2, <3>3 DEF HookSound, Alive
  <2>3. QED BY <2>1, <2>2
<1>7. HookTouch
  BY <1>0 DEF HookTouch
<1>8. QED BY <1>1, <1>2, <1>3, <1>4, <1>5, <1>6, <1>7 DEF HookGoal

LEMMA ConnectStep ==
    ASSUME FInv, NEW c \in Clients, Connect(c), faults' \in 0..MaxFaults, UNCHANGED serverVars
    PROVE  HookGoal
<1>1. /\ props' \in [Clients -> Props]
      /\ fed' \in [Clients -> Accounts \union {None}]
      /\ account' \in [Clients -> Accounts \union {None}]
      /\ shown' \in [Clients -> Shown]
      /\ UNCHANGED account
  BY DEF FInv, TypeOK, Connect, feedVars
<1>2. FeedSound'
  BY DEF FInv, HookInv, FeedSound, Connect, feedVars
<1>3. QED BY <1>1, <1>2, GenerationStep DEF Connect

LEMMA FaultsStay ==
    ASSUME TypeOK, NEW x, FaultOf(x)
    PROVE  faults' \in 0..MaxFaults
BY DEF TypeOK, FaultOf, Fault

LEMMA RenderStep ==
    ASSUME FInv, NEW c \in Clients, NEW p \in Props, Render(c, p), UNCHANGED serverVars
    PROVE  HookGoal
<1> USE DEF FInv, HookInv, Render, serverVars
<1>1. faults' \in 0..MaxFaults
  BY FaultsStay
<1>2. TypeOK'
  BY <1>1 DEF TypeOK
<1>3. SocketsSound' /\ OneSocketPerHook' /\ FeedSound' /\ HookSound' /\ HookTouch
  BY DEF SocketsSound, OneSocketPerHook, FeedSound, HookSound, HookTouch, Alive
<1>4. AlwaysAWayForward'
  BY DEF AlwaysAWayForward
<1>5. QED BY <1>2, <1>3, <1>4 DEF HookGoal

LEMMA EffectsStep ==
    ASSUME FInv, NEW c \in Clients, RunEffects(c), UNCHANGED serverVars
    PROVE  HookGoal
<1> DEFINE to == Target(props[c])
           ask == to # None
<1>1. /\ props[c].account \in Accounts \union {None}
      /\ to \in Accounts \union {None}
      /\ to # None => to = props[c].account
  BY DEF FInv, TypeOK, Props, Target
<1>2. /\ fed' = [fed EXCEPT ![c] = props[c].account]
      /\ account' = [account EXCEPT ![c] = to]
      /\ shown' = [shown EXCEPT ![c] = IF props[c].account = fed[c] THEN shown[c] ELSE None]
      /\ NewGeneration(c, ask)
      /\ UNCHANGED <<props, faults>>
  BY DEF RunEffects
<1> HIDE DEF to
<1>3. /\ props' \in [Clients -> Props]
      /\ fed' \in [Clients -> Accounts \union {None}]
      /\ account' \in [Clients -> Accounts \union {None}]
      /\ shown' \in [Clients -> Shown]
      /\ faults' \in 0..MaxFaults
  BY <1>1, <1>2 DEF FInv, TypeOK, Shown
<1>4. /\ \A d \in Clients \ {c} : account'[d] = account[d]
      /\ account'[c] = to
  BY <1>2 DEF FInv, TypeOK
<1>5. FeedSound'
  BY <1>1, <1>2 DEF FInv, HookInv, FeedSound, TypeOK
<1>6. ask \in BOOLEAN /\ (ask <=> account'[c] # None)
  BY <1>4
<1> HIDE DEF ask
<1>7. QED BY <1>2, <1>3, <1>4, <1>5, <1>6, GenerationStep

LEMMA WakeStep ==
    ASSUME FInv, NEW c \in Clients, Wake(c), UNCHANGED serverVars
    PROVE  HookGoal
<1> USE DEF FInv, HookInv, Wake, serverVars, feedVars
<1>1. TypeOK'
  BY DEF TypeOK
<1>2. SocketsSound' /\ OneSocketPerHook' /\ FeedSound' /\ HookSound' /\ HookTouch
  BY DEF SocketsSound, OneSocketPerHook, FeedSound, HookSound, HookTouch, Alive
<1>3. AlwaysAWayForward'
  BY DEF AlwaysAWayForward, TypeOK
<1>4. QED BY <1>1, <1>2, <1>3 DEF HookGoal

LEMMA TokenArrivesStep ==
    ASSUME FInv, NEW c \in Clients, NEW s \in Sockets, TokenArrives(c, s), UNCHANGED serverVars
    PROVE  HookGoal
<1> USE DEF FInv, HookInv, serverVars
<1> DEFINE r == [Closed EXCEPT !.client = c, !.account = account[c],
                               !.ready = "connecting", !.peer = "restoring"]
<1>0. /\ asking[c] /\ wsRef[c] = None /\ account[c] \in Accounts
      /\ sockets[s].ready = "closed" /\ sockets[s].peer = "gone"
      /\ asking' = [asking EXCEPT ![c] = FALSE]
      /\ wsRef' = [wsRef EXCEPT ![c] = s]
      /\ sockets' = [sockets EXCEPT ![s] = r]
      /\ UNCHANGED <<props, fed, account, superseded, timer, shown, faults>>
  <2>1. asking[c] /\ wsRef[c] = None /\ account[c] \in Accounts
    BY DEF TokenArrives, HookSound, TypeOK
  <2>2. sockets[s].ready = "closed" /\ sockets[s].peer = "gone"
    BY DEF TokenArrives, Closed
  <2>4. sockets' = [sockets EXCEPT ![s] = r]
    BY DEF TokenArrives
  <2>5. QED BY <2>1, <2>2, <2>4 DEF TokenArrives, feedVars
<1>1. /\ r \in SocketType
      /\ r.client = c /\ r.account = account[c] /\ r.ready = "connecting"
      /\ r.peer = "restoring"
  BY <1>0, ClosedIsSocket DEF SocketType
<1> HIDE DEF r
<1>3. TypeOK'
  BY <1>0, <1>1 DEF TypeOK
<1>4. SocketsSound'
  BY <1>0, <1>1 DEF SocketsSound, Alive, TypeOK
<1>5. OneSocketPerHook'
  <2> SUFFICES ASSUME NEW t \in Sockets, Alive(t)'
               PROVE  /\ wsRef'[sockets'[t].client] = t
                      /\ sockets'[t].account = account'[sockets'[t].client]
    BY DEF OneSocketPerHook
  <2>1. CASE t = s
    BY <1>0, <1>1, <2>1 DEF TypeOK
  <2>2. CASE t # s
    <3>1. sockets'[t] = sockets[t] /\ Alive(t)
      BY <1>0, <2>2 DEF TypeOK, Alive
    <3>2. sockets[t].client \in Clients /\ wsRef[sockets[t].client] = t
          /\ sockets[t].account = account[sockets[t].client]
      BY <3>1 DEF SocketsSound, OneSocketPerHook
    <3>3. sockets[t].client # c
      BY <1>0, <3>2
    <3>4. QED BY <1>0, <3>1, <3>2, <3>3 DEF TypeOK
  <2>3. QED BY <2>1, <2>2
<1>6. AlwaysAWayForward' /\ FeedSound'
  BY <1>0 DEF AlwaysAWayForward, FeedSound, TypeOK
<1>7. HookSound'
  <2> SUFFICES ASSUME NEW d \in Clients
               PROVE  /\ wsRef'[d] # None => /\ sockets'[wsRef'[d]].ready # "closed"
                                             /\ sockets'[wsRef'[d]].client = d
                      /\ asking'[d] => wsRef'[d] = None /\ account'[d] # None
    BY DEF HookSound, Alive
  <2>1. CASE d = c
    BY <1>0, <1>1, <2>1 DEF TypeOK, Alive
  <2>2. CASE d # c
    <3>1. wsRef'[d] = wsRef[d] /\ asking'[d] = asking[d]
      BY <1>0, <2>2 DEF TypeOK
    <3>2. wsRef[d] # None => wsRef[d] \in Sockets /\ wsRef[d] # s
      BY <1>0 DEF TypeOK, HookSound, Alive
    <3>3. QED BY <1>0, <3>1, <3>2 DEF HookSound, Alive, TypeOK
  <2>3. QED BY <2>1, <2>2
<1>8. HookTouch
  BY <1>0 DEF HookTouch, TypeOK
<1>9. QED BY <1>3, <1>4, <1>5, <1>6, <1>7, <1>8 DEF HookGoal

LEMMA TokenLostStep ==
    ASSUME FInv, NEW c \in Clients, TokenLate(c) \/ TokenRejected(c), UNCHANGED serverVars
    PROVE  HookGoal
<1> USE DEF FInv, HookInv, serverVars
<1>1. /\ UNCHANGED <<props, fed, account, wsRef, shown, sockets>>
      /\ faults' \in 0..MaxFaults
      /\ superseded' \in [Clients -> Nat]
      /\ asking' \in [Clients -> BOOLEAN]
      /\ timer' \in [Clients -> BOOLEAN]
      /\ \A d \in Clients : asking'[d] => asking[d]
      /\ \A d \in Clients : asking[d] \/ timer[d] => asking'[d] \/ timer'[d] \/ account[d] = None
  <2>1. CASE TokenLate(c)
    BY <2>1 DEF TokenLate, TypeOK, feedVars
  <2>2. CASE TokenRejected(c)
    <3>1. faults' \in 0..MaxFaults
      BY <2>2, FaultsStay DEF TokenRejected
    <3>2. timer' = [timer EXCEPT ![c] = account[c] # None]
          /\ timer' \in [Clients -> BOOLEAN]
      BY <2>2 DEF TokenRejected, ScheduleReconnect, TypeOK
    <3>3. /\ asking' \in [Clients -> BOOLEAN]
          /\ \A d \in Clients : asking'[d] => asking[d]
          /\ \A d \in Clients \ {c} : asking'[d] = asking[d]
      <4>1. asking' = asking \/ asking' = [asking EXCEPT ![c] = FALSE]
        BY <2>2 DEF TokenRejected
      <4>2. asking \in [Clients -> BOOLEAN]
        BY DEF TypeOK
      <4>3. QED BY <4>1, <4>2
    <3>8. superseded' \in [Clients -> Nat]
      <4>1. \/ superseded' = superseded
            \/ superseded[c] > 0 /\ superseded' = [superseded EXCEPT ![c] = @ - 1]
        BY <2>2 DEF TokenRejected
      <4>2. superseded \in [Clients -> Nat]
        BY DEF TypeOK
      <4>3. QED BY <4>1, <4>2
    <3>4. \A d \in Clients \ {c} : timer'[d] = timer[d]
      BY <3>2 DEF TypeOK
    <3>5. timer'[c] \/ account[c] = None
      BY <3>2 DEF TypeOK
    <3>6. UNCHANGED <<props, fed, account, wsRef, shown, sockets>>
      BY <2>2 DEF TokenRejected, feedVars
    <3>7. QED BY <3>1, <3>2, <3>3, <3>4, <3>5, <3>6, <3>8
  <2>3. QED BY <2>1, <2>2
<1>2. TypeOK'
  BY <1>1 DEF TypeOK
<1>3. SocketsSound' /\ OneSocketPerHook' /\ FeedSound' /\ HookSound' /\ HookTouch
  BY <1>1 DEF SocketsSound, OneSocketPerHook, FeedSound, HookSound, HookTouch, Alive
<1>4. AlwaysAWayForward'
  BY <1>1 DEF AlwaysAWayForward
<1>5. QED BY <1>2, <1>3, <1>4 DEF HookGoal

\* A socket is changed without being closed.
LEMMA SocketStep ==
    ASSUME FInv, NEW s \in Sockets, NEW r \in SocketType,
           Alive(s), r.ready # "closed", r.client = sockets[s].client,
           r.account = sockets[s].account, r.peer = sockets[s].peer,
           sockets' = [sockets EXCEPT ![s] = r],
           UNCHANGED <<props, fed, account, wsRef, asking, superseded, timer, faults>>,
           UNCHANGED serverVars, shown' \in [Clients -> Shown], FeedSound'
    PROVE  HookGoal
<1> USE DEF FInv, HookInv, serverVars
<1>1. TypeOK'
  BY DEF TypeOK
<1>2. SocketsSound' /\ OneSocketPerHook'
  BY DEF SocketsSound, OneSocketPerHook, Alive, TypeOK
<1>3. AlwaysAWayForward'
  BY DEF AlwaysAWayForward
<1>4. HookSound'
  BY DEF HookSound, Alive, TypeOK
<1>5. HookTouch
  BY DEF HookTouch, TypeOK
<1>6. QED BY <1>1, <1>2, <1>3, <1>4, <1>5 DEF HookGoal

LEMMA OnOpenStep ==
    ASSUME FInv, NEW s \in Sockets, OnOpen(s), UNCHANGED serverVars
    PROVE  HookGoal
<1> DEFINE r == [sockets[s] EXCEPT !.ready = "open"]
<1>1. sockets[s] \in SocketType /\ sockets[s].ready = "connecting"
  BY DEF FInv, TypeOK, OnOpen
<1>2. /\ r \in SocketType /\ r.ready # "closed" /\ r.client = sockets[s].client
      /\ r.account = sockets[s].account /\ r.peer = sockets[s].peer
  BY <1>1 DEF SocketType
<1>3. sockets' = [sockets EXCEPT ![s] = r]
  BY DEF OnOpen
<1>4. shown' \in [Clients -> Shown] /\ FeedSound'
  BY DEF OnOpen, hookVars, feedVars, FInv, HookInv, TypeOK, FeedSound
<1> HIDE DEF r
<1>5. Alive(s)
  BY <1>1 DEF Alive
<1>6. QED BY <1>2, <1>3, <1>4, <1>5, SocketStep DEF OnOpen, hookVars, feedVars

LEMMA OnMessageStep ==
    ASSUME FInv, NEW s \in Sockets, OnMessage(s), UNCHANGED serverVars
    PROVE  HookGoal
<1> DEFINE r == [sockets[s] EXCEPT !.inbox = None]
           c == sockets[s].client
           m == sockets[s].inbox
<1>1. sockets[s] \in SocketType /\ sockets[s].ready = "open" /\ m # None
  BY DEF FInv, TypeOK, OnMessage
<1>2. /\ r \in SocketType /\ r.ready # "closed" /\ r.client = sockets[s].client
      /\ r.account = sockets[s].account /\ r.peer = sockets[s].peer
  BY <1>1 DEF SocketType
<1>3. sockets' = [sockets EXCEPT ![s] = r]
  BY DEF OnMessage
<1>4. Alive(s)
  BY <1>1 DEF Alive
<1>5. /\ c \in Clients /\ sockets[s].account = account[c]
      /\ m \in Messages
  BY <1>1, <1>4 DEF FInv, HookInv, SocketsSound, OneSocketPerHook, SocketType
<1> DEFINE new == [account |-> m.account, live |-> m.status # "disconnected"]
<1>6. new \in Shown /\ new.account = m.account
  BY <1>5 DEF Shown, Messages
<1>7. \/ shown' = shown
      \/ m.account = sockets[s].account /\ shown' = [shown EXCEPT ![c] = new]
  BY DEF OnMessage
<1>8. UNCHANGED <<props, fed, account, wsRef, asking, superseded, timer, faults>>
  BY DEF OnMessage
<1> HIDE DEF r, m, new
<1>9. shown' \in [Clients -> Shown]
  BY <1>6, <1>7 DEF FInv, TypeOK
<1>10. FeedSound'
  <2>1. account[c] # None
    BY <1>4, <1>5 DEF FInv, SocketsSound
  <2>2. QED BY <1>5, <1>6, <1>7, <1>8, <2>1 DEF FInv, HookInv, TypeOK, FeedSound
<1>11. QED BY <1>2, <1>3, <1>4, <1>8, <1>9, <1>10, SocketStep

LEMMA OnCloseStep ==
    ASSUME FInv, NEW s \in Sockets, OnClose(s), UNCHANGED serverVars
    PROVE  HookGoal
<1> USE DEF FInv, HookInv, serverVars
<1> DEFINE c == sockets[s].client
           r == [[sockets[s] EXCEPT !.ready = "closed"] EXCEPT !.inbox = None]
<1>1. Alive(s) /\ c \in Clients /\ wsRef[c] = s
  BY DEF OnClose, SocketsSound, OneSocketPerHook
<1>2. /\ r \in SocketType /\ r.ready = "closed" /\ r.peer = sockets[s].peer
      /\ r.account = sockets[s].account
  <2>1. sockets[s] \in SocketType
    BY DEF TypeOK
  <2>2. QED BY <2>1 DEF SocketType
<1>3. sockets' = [sockets EXCEPT ![s] = Done(r)]
  BY DEF OnClose
<1>4. /\ wsRef' = [wsRef EXCEPT ![c] = None]
      /\ timer' = [timer EXCEPT ![c] = account[c] # None]
      /\ UNCHANGED <<props, fed, account, asking, superseded, shown, faults>>
  BY <1>1 DEF OnClose, ScheduleReconnect, feedVars
<1> HIDE DEF r
<1>5. /\ Done(r) \in SocketType /\ Done(r).ready = "closed" /\ Done(r).peer = sockets[s].peer
      /\ sockets[s].peer # "gone" => Done(r).account = sockets[s].account
  BY <1>2, DoneIsSocket
<1> DEFINE d == Done(r)
<1>6. sockets' = [sockets EXCEPT ![s] = d]
  BY <1>3
<1>7. /\ d \in SocketType /\ d.ready = "closed" /\ d.peer = sockets[s].peer
      /\ sockets[s].peer # "gone" => d.account = sockets[s].account
  BY <1>5
<1> HIDE DEF d
<1>8. TypeOK'
  <2>1. timer' \in [Clients -> BOOLEAN]
    BY <1>4 DEF TypeOK
  <2>2. wsRef' \in [Clients -> Sockets \union {None}]
    BY <1>4 DEF TypeOK
  <2>3. sockets' \in [Sockets -> SocketType]
    BY <1>6, <1>7 DEF TypeOK
  <2>4. QED BY <1>4, <2>1, <2>2, <2>3 DEF TypeOK
<1>9. SocketsSound'
  BY <1>6, <1>7 DEF SocketsSound, Alive, TypeOK
<1>10. OneSocketPerHook'
  <2> SUFFICES ASSUME NEW t \in Sockets, Alive(t)'
               PROVE  /\ wsRef'[sockets'[t].client] = t
                      /\ sockets'[t].account = account'[sockets'[t].client]
    BY DEF OneSocketPerHook
  <2>1. t # s /\ sockets'[t] = sockets[t] /\ Alive(t)
    BY <1>6, <1>7 DEF Alive, TypeOK
  <2>2. sockets[t].client \in Clients /\ wsRef[sockets[t].client] = t
        /\ sockets[t].account = account[sockets[t].client]
    BY <2>1 DEF SocketsSound, OneSocketPerHook
  <2>3. sockets[t].client # c
    BY <1>1, <2>1, <2>2
  <2>4. QED BY <1>4, <2>1, <2>2, <2>3 DEF TypeOK
<1>11. AlwaysAWayForward'
  <2> SUFFICES ASSUME NEW e \in Clients, account[e] # None
               PROVE  wsRef'[e] # None \/ asking[e] \/ timer'[e]
    BY <1>4 DEF AlwaysAWayForward
  <2>1. CASE e = c
    BY <1>4, <2>1 DEF TypeOK
  <2>2. CASE e # c
    BY <1>1, <1>4, <2>2 DEF AlwaysAWayForward, TypeOK
  <2>3. QED BY <2>1, <2>2
<1>12. FeedSound'
  BY <1>4 DEF FeedSound
<1>13. HookSound'
  <2> SUFFICES ASSUME NEW e \in Clients
               PROVE  /\ wsRef'[e] # None => /\ sockets'[wsRef'[e]].ready # "closed"
                                             /\ sockets'[wsRef'[e]].client = e
                      /\ asking'[e] => wsRef'[e] = None /\ account'[e] # None
    BY DEF HookSound, Alive
  <2>1. CASE e = c
    BY <1>1, <1>4, <2>1 DEF HookSound, TypeOK
  <2>2. CASE e # c
    <3>1. wsRef'[e] = wsRef[e] /\ asking'[e] = asking[e]
      BY <1>1, <1>4, <2>2 DEF TypeOK
    <3>2. wsRef[e] # None => wsRef[e] \in Sockets /\ wsRef[e] # s
      BY <2>2 DEF TypeOK, HookSound
    <3>3. QED BY <1>4, <1>6, <3>1, <3>2 DEF HookSound, Alive, TypeOK
  <2>3. QED BY <2>1, <2>2
<1>14. HookTouch
  BY <1>6, <1>7 DEF HookTouch, TypeOK
<1>15. QED BY <1>8, <1>9, <1>10, <1>11, <1>12, <1>13, <1>14 DEF HookGoal

LEMMA BrowserKeeps ==
    ASSUME FInv, Browser, UNCHANGED serverVars
    PROVE  FInv'
<1>1. HookGoal
  <2>1. CASE \E c \in Clients : ReconnectTimer(c) \/ Reconnect(c)
    <3>1. PICK c \in Clients : Connect(c) /\ (FaultOf(c) \/ UNCHANGED faults)
      BY <2>1 DEF ReconnectTimer, Reconnect
    <3>2. faults' \in 0..MaxFaults
      BY <3>1, FaultsStay DEF FInv, TypeOK
    <3>3. QED BY <3>1, <3>2, ConnectStep
  <2>2. CASE \E c \in Clients : Wake(c)
    BY <2>2, WakeStep
  <2>3. CASE \E c \in Clients : (\E p \in Props : Render(c, p)) \/ RunEffects(c)
    BY <2>3, RenderStep, EffectsStep
  <2>4. CASE \E c \in Clients : \E s \in Sockets : TokenArrives(c, s)
    BY <2>4, TokenArrivesStep
  <2>5. CASE \E c \in Clients : TokenLate(c) \/ TokenRejected(c)
    BY <2>5, TokenLostStep
  <2>6. CASE \E s \in Sockets : OnOpen(s) \/ OnMessage(s) \/ OnClose(s)
    BY <2>6, OnOpenStep, OnMessageStep, OnCloseStep
  <2>7. QED BY <2>1, <2>2, <2>3, <2>4, <2>5, <2>6 DEF Browser
<1>2. QED BY <1>1, HookKeepsServer DEF HookGoal, FInv

-----------------------------------------------------------------------------
(* The server.                                                             *)

\* The broadcaster and the environment move on without touching a socket or a
\* set of the manager.
LEMMA QuietStep ==
    ASSUME FInv, UNCHANGED <<sockets, conns, hookVars>>, faults' \in 0..MaxFaults,
           round' \in RoundType, RoundSound',
           failures' \in [Accounts -> 0..RecoverAfter], fresh' \in [Accounts -> BOOLEAN],
           cooled' \in [Accounts -> BOOLEAN], mt5' \in [Accounts -> RuntimeStates]
    PROVE  FInv'
<1> USE DEF FInv
<1>1. TypeOK'
  BY DEF TypeOK, hookVars, feedVars
<1>2. ServerTouch
  BY DEF ServerTouch
<1>3. SocketsSound'
  BY DEF SocketsSound, Alive
<1>4. NoGhostSubscribers'
  BY DEF ServerInv, NoGhostSubscribers
<1>5. QED BY <1>1, <1>2, <1>3, <1>4, ServerKeepsHooks DEF ServerInv

LEMMA AnnounceWorks ==
    ASSUME TypeOK, NEW a \in Accounts, NEW status \in Statuses, Announce(a, status)
    PROVE  round' \in RoundType /\ RoundSound'
<1> DEFINE m == [account |-> a, status |-> status]
           pc == IF Of(a) = {} THEN "next" ELSE "send"
           r == [Idle EXCEPT !.pc = pc, !.todo = round.todo \ {a}, !.account = a,
                             !.message = m, !.size = Cardinality(Of(a)), !.members = Of(a)]
<1>1. m \in Messages
  BY DEF Messages
<1>2. pc \in {"next", "send"}
  OBVIOUS
<1>3. round.todo \ {a} \subseteq Accounts
  BY DEF TypeOK, RoundType
<1>4. round' = r
  BY DEF Announce
<1> HIDE DEF m, pc
<1>5. r \in RoundType /\ r.account = a
  BY <1>1, <1>2, <1>3, IdleIsRound, OfIsFinite DEF RoundType
<1> HIDE DEF r
<1>6. QED BY <1>4, <1>5 DEF RoundSound

LEMMA FailureWorks ==
    ASSUME TypeOK, NEW a \in Accounts, Failure(a)
    PROVE  round' \in RoundType /\ RoundSound'
<1> DEFINE status == IF fresh[a] THEN "degraded" ELSE "disconnected"
<1>1. status \in Statuses /\ Announce(a, status)
  BY DEF Failure, Statuses
<1> HIDE DEF status
<1>2. QED BY <1>1, AnnounceWorks

LEMMA SuccessWorks ==
    ASSUME TypeOK, NEW a \in Accounts, Success(a)
    PROVE  /\ round' \in RoundType /\ RoundSound'
           /\ failures' \in [Accounts -> 0..RecoverAfter]
           /\ fresh' \in [Accounts -> BOOLEAN]
<1>1. "connected" \in Statuses
  BY DEF Statuses
<1>2. round' \in RoundType /\ RoundSound'
  BY <1>1, AnnounceWorks DEF Success
<1>3. QED BY <1>2 DEF Success, TypeOK

LEMMA CountWorks ==
    ASSUME TypeOK, NEW a \in Accounts, CountFailure(a)
    PROVE  failures' \in [Accounts -> 0..RecoverAfter]
BY DEF TypeOK, CountFailure

LEMMA ServeStep ==
    ASSUME FInv, NEW a \in Accounts, Serve(a), UNCHANGED hookVars
    PROVE  FInv'
<1>1. TypeOK /\ faults' \in 0..MaxFaults
      /\ fresh' \in [Accounts -> BOOLEAN] /\ cooled' \in [Accounts -> BOOLEAN]
      /\ mt5' \in [Accounts -> RuntimeStates]
  BY DEF FInv, TypeOK, Serve
<1>2. CASE mt5[a] = "unowned"
  BY <1>1, <1>2, CountWorks, FailureWorks, QuietStep DEF Serve
<1>3. CASE mt5[a] # "unowned"
  <2> DEFINE r == [[round EXCEPT !.pc = "read"] EXCEPT !.account = a]
  <2>1. round \in RoundType
    BY <1>1 DEF TypeOK
  <2>2. r \in RoundType /\ r.account = a
    BY <2>1 DEF RoundType
  <2>3. round' = r /\ failures' \in [Accounts -> 0..RecoverAfter]
    BY <1>1, <1>3 DEF Serve, TypeOK
  <2> HIDE DEF r
  <2>4. RoundSound'
    BY <2>2, <2>3 DEF RoundSound
  <2>5. QED BY <1>1, <2>2, <2>3, <2>4, QuietStep DEF Serve
<1>4. QED BY <1>2, <1>3

LEMMA ReadStep ==
    ASSUME FInv, Read \/ Recover \/ Reread, UNCHANGED hookVars
    PROVE  FInv'
<1>1. TypeOK /\ round \in RoundType /\ round.account \in Accounts
  BY DEF FInv, TypeOK, ServerInv, RoundSound, Read, Recover, Reread
<1>2. faults' \in 0..MaxFaults /\ UNCHANGED <<sockets, conns, hookVars>>
  BY <1>1 DEF TypeOK, Read, Recover, Reread
<1>3. failures \in [Accounts -> 0..RecoverAfter] /\ fresh \in [Accounts -> BOOLEAN]
      /\ cooled \in [Accounts -> BOOLEAN] /\ mt5 \in [Accounts -> RuntimeStates]
  BY <1>1 DEF TypeOK
<1>4. CASE Read
  <2>1. mt5' = mt5
    BY <1>4 DEF Read
  <2>2. CASE Success(round.account) /\ UNCHANGED cooled
    BY <1>1, <1>2, <1>3, <2>1, <2>2, SuccessWorks, QuietStep
  <2>3. CASE /\ CountFailure(round.account) /\ UNCHANGED fresh
             /\ cooled' = [cooled EXCEPT ![round.account] = FALSE]
             /\ round' = [round EXCEPT !.pc = "recover"]
    <3>1. round' \in RoundType /\ round'.account = round.account
      BY <1>1, <2>3 DEF RoundType
    <3>2. RoundSound'
      BY <1>1, <3>1 DEF RoundSound
    <3>3. cooled' \in [Accounts -> BOOLEAN]
      BY <1>3, <2>3
    <3>4. QED BY <1>1, <1>2, <1>3, <2>1, <2>3, <3>1, <3>2, <3>3, CountWorks, QuietStep
  <2>4. CASE CountFailure(round.account) /\ UNCHANGED fresh /\ Failure(round.account)
             /\ UNCHANGED cooled
    BY <1>1, <1>2, <1>3, <2>1, <2>4, CountWorks, FailureWorks, QuietStep
  <2>5. QED BY <1>4, <2>2, <2>3, <2>4 DEF Read
<1>5. CASE Recover
  <2>1. UNCHANGED <<failures, fresh, cooled>>
    BY <1>5 DEF Recover
  <2>2. CASE /\ mt5' = [mt5 EXCEPT ![round.account] = "up"]
             /\ round' = [round EXCEPT !.pc = "reread"]
    <3>1. round' \in RoundType /\ round'.account = round.account
      BY <1>1, <2>2 DEF RoundType
    <3>2. RoundSound'
      BY <1>1, <3>1 DEF RoundSound
    <3>3. mt5' \in [Accounts -> RuntimeStates]
      BY <1>3, <2>2 DEF RuntimeStates
    <3>4. QED BY <1>1, <1>2, <1>3, <2>1, <3>1, <3>2, <3>3, QuietStep
  <2>3. CASE Failure(round.account) /\ UNCHANGED mt5
    BY <1>1, <1>2, <1>3, <2>1, <2>3, FailureWorks, QuietStep
  <2>4. QED BY <1>5, <2>2, <2>3 DEF Recover
<1>6. CASE Reread
  <2>1. UNCHANGED <<cooled, mt5>>
    BY <1>6 DEF Reread
  <2>2. CASE Success(round.account)
    BY <1>1, <1>2, <1>3, <2>1, <2>2, SuccessWorks, QuietStep
  <2>3. CASE Failure(round.account) /\ UNCHANGED <<failures, fresh>>
    BY <1>1, <1>2, <1>3, <2>1, <2>3, FailureWorks, QuietStep
  <2>4. QED BY <1>6, <2>2, <2>3 DEF Reread
<1>7. QED BY <1>4, <1>5, <1>6

\* The round begins, ends or is given up; clocks run and runtimes change.
LEMMA TurnStep ==
    ASSUME FInv, StartRound \/ EndRound \/ SendAborted, UNCHANGED hookVars
    PROVE  FInv'
<1>1. TypeOK /\ faults' \in 0..MaxFaults /\ UNCHANGED <<sockets, conns, hookVars>>
      /\ failures' \in [Accounts -> 0..RecoverAfter] /\ fresh' \in [Accounts -> BOOLEAN]
      /\ cooled' \in [Accounts -> BOOLEAN] /\ mt5' \in [Accounts -> RuntimeStates]
  BY DEF FInv, TypeOK, StartRound, EndRound, SendAborted
<1>2. round' \in RoundType /\ round'.pc \in {"sleep", "next"}
  <2>1. CASE round' = Idle
    BY <2>1, IdleIsRound DEF Idle
  <2>2. CASE round' = [Idle EXCEPT !.pc = "next", !.todo = DOMAIN conns]
    <3>1. DOMAIN conns \subseteq Accounts
      BY <1>1 DEF TypeOK
    <3>2. QED BY <2>2, <3>1, IdleIsRound DEF RoundType
  <2>3. QED BY <2>1, <2>2 DEF StartRound, EndRound, SendAborted
<1>3. RoundSound'
  BY <1>2 DEF RoundSound
<1>4. QED BY <1>1, <1>2, <1>3, QuietStep

LEMMA EnvironmentStep ==
    ASSUME FInv, Environment, UNCHANGED hookVars
    PROVE  FInv'
<1>1. PICK a \in Accounts : GraceElapses(a) \/ CooldownElapses(a) \/ RuntimeChanges(a)
  BY DEF Environment
<1>2. TypeOK
  BY DEF FInv
<1>3. faults' \in 0..MaxFaults
  BY <1>1, <1>2, FaultsStay DEF TypeOK, GraceElapses, CooldownElapses, RuntimeChanges
<1>4. UNCHANGED <<sockets, conns, hookVars, round, failures>>
  BY <1>1 DEF GraceElapses, CooldownElapses, RuntimeChanges
<1>5. /\ fresh' \in [Accounts -> BOOLEAN] /\ cooled' \in [Accounts -> BOOLEAN]
      /\ mt5' \in [Accounts -> RuntimeStates]
  <2>1. CASE GraceElapses(a)
    BY <1>2, <2>1 DEF TypeOK, GraceElapses
  <2>2. CASE CooldownElapses(a)
    BY <1>2, <2>2 DEF TypeOK, CooldownElapses
  <2>3. CASE RuntimeChanges(a)
    <3>1. PICK st \in RuntimeStates : mt5' = [mt5 EXCEPT ![a] = st]
      BY <2>3 DEF RuntimeChanges
    <3>2. QED BY <1>2, <2>3, <3>1 DEF TypeOK, RuntimeChanges
  <2>4. QED BY <1>1, <2>1, <2>2, <2>3
<1>6. round' \in RoundType /\ failures' \in [Accounts -> 0..RecoverAfter] /\ RoundSound'
  BY <1>2, <1>4 DEF TypeOK, FInv, ServerInv, RoundSound
<1>7. QED BY <1>3, <1>4, <1>5, <1>6, QuietStep

\* The far end of a socket changes.
LEMMA FarEndStep ==
    ASSUME FInv, NEW s \in Sockets, NEW r \in SocketType,
           r.ready = sockets[s].ready,
           Alive(s) => r.client = sockets[s].client /\ r.account = sockets[s].account,
           r.peer # "gone" => sockets[s].peer # "gone" /\ r.account = sockets[s].account,
           sockets' = [sockets EXCEPT ![s] = r],
           faults' \in 0..MaxFaults, round' \in RoundType, RoundSound',
           DOMAIN conns' \subseteq Accounts, \A a \in DOMAIN conns' : conns'[a] \subseteq Sockets,
           \A a \in DOMAIN conns' : \A t \in conns'[a] :
              IF t = s THEN r.peer = "serving" /\ r.account = a
              ELSE a \in DOMAIN conns /\ t \in conns[a],
           UNCHANGED <<failures, fresh, cooled, mt5>>, UNCHANGED hookVars
    PROVE  FInv'
<1> USE DEF FInv
<1>1. TypeOK'
  BY DEF TypeOK, hookVars, feedVars
<1>2. ServerTouch
  BY DEF ServerTouch, TypeOK
<1>3. SocketsSound'
  BY DEF SocketsSound, Alive, TypeOK
<1>4. NoGhostSubscribers'
  <2> SUFFICES ASSUME NEW a \in DOMAIN conns', NEW t \in conns'[a]
               PROVE  sockets'[t].peer = "serving" /\ sockets'[t].account = a
    BY DEF NoGhostSubscribers
  <2>1. t \in Sockets
    OBVIOUS
  <2>2. CASE t = s
    BY <2>2 DEF TypeOK
  <2>3. CASE t # s
    BY <2>1, <2>3 DEF TypeOK, ServerInv, NoGhostSubscribers
  <2>4. QED BY <2>2, <2>3
<1>5. QED BY <1>1, <1>2, <1>3, <1>4, ServerKeepsHooks DEF ServerInv

LEMMA AcceptStep ==
    ASSUME FInv, NEW s \in Sockets, Accept(s), UNCHANGED hookVars
    PROVE  FInv'
<1> DEFINE r == [sockets[s] EXCEPT !.peer = "serving"]
           a == sockets[s].account
<1>1. sockets[s] \in SocketType /\ sockets[s].peer = "restoring" /\ a \in Accounts
  BY DEF FInv, TypeOK, Accept, SocketsSound
<1>2. /\ r \in SocketType /\ r.ready = sockets[s].ready /\ r.client = sockets[s].client
      /\ r.account = a /\ r.peer = "serving"
  BY <1>1 DEF SocketType
<1>3. sockets' = [sockets EXCEPT ![s] = r]
  BY DEF Accept
<1>4. /\ DOMAIN conns' = DOMAIN conns \union {a}
      /\ \A b \in DOMAIN conns' : conns'[b] = IF b = a THEN Of(a) \union {s} ELSE conns[b]
      /\ UNCHANGED <<round, failures, fresh, cooled, mt5, faults>>
  BY DEF Accept
<1>5. s \notin Of(a)
  BY <1>1 DEF Of, FInv, ServerInv, NoGhostSubscribers
<1>6. \A b \in DOMAIN conns : s \notin conns[b]
  BY <1>1 DEF FInv, ServerInv, NoGhostSubscribers
<1> HIDE DEF r
<1>7. DOMAIN conns' \subseteq Accounts /\ \A b \in DOMAIN conns' : conns'[b] \subseteq Sockets
  BY <1>1, <1>4, OfIsFinite DEF FInv, TypeOK
<1>8. \A b \in DOMAIN conns' : \A t \in conns'[b] :
          IF t = s THEN r.peer = "serving" /\ r.account = b
          ELSE b \in DOMAIN conns /\ t \in conns[b]
  BY <1>2, <1>4, <1>6 DEF Of
<1>9. faults' \in 0..MaxFaults /\ round' \in RoundType /\ RoundSound'
  BY <1>4 DEF FInv, TypeOK, ServerInv, RoundSound
<1>10. UNCHANGED <<failures, fresh, cooled, mt5>>
  BY <1>4
<1>11. QED BY <1>1, <1>2, <1>3, <1>7, <1>8, <1>9, <1>10, FarEndStep

\* The endpoint of a socket is done with it.
LEMMA GoneSocket ==
    ASSUME TypeOK, NEW s \in Sockets
    PROVE  LET r == Done([sockets[s] EXCEPT !.peer = "gone"])
           IN  /\ r \in SocketType /\ r.ready = sockets[s].ready /\ r.peer = "gone"
               /\ Alive(s) => r.client = sockets[s].client /\ r.account = sockets[s].account
<1> DEFINE q == [sockets[s] EXCEPT !.peer = "gone"]
<1>1. sockets[s] \in SocketType
  BY DEF TypeOK
<1>2. /\ q \in SocketType /\ q.ready = sockets[s].ready /\ q.peer = "gone"
      /\ q.client = sockets[s].client /\ q.account = sockets[s].account
  BY <1>1 DEF SocketType
<1> HIDE DEF q
<1>3. /\ Done(q) \in SocketType
      /\ Done(q).ready = q.ready /\ Done(q).peer = q.peer
      /\ q.ready # "closed" => Done(q) = q
  BY <1>2, DoneIsSocket
<1>4. /\ Done(q) \in SocketType /\ Done(q).ready = sockets[s].ready /\ Done(q).peer = "gone"
      /\ Alive(s) => Done(q).client = sockets[s].client /\ Done(q).account = sockets[s].account
  BY <1>2, <1>3 DEF Alive
<1>5. QED BY <1>4 DEF q

LEMMA RefuseStep ==
    ASSUME FInv, NEW s \in Sockets, Refuse(s), UNCHANGED hookVars
    PROVE  FInv'
<1> DEFINE r == Done([sockets[s] EXCEPT !.peer = "gone"])
<1>1. TypeOK /\ sockets[s].peer = "restoring"
  BY DEF FInv, Refuse
<1>2. /\ r \in SocketType /\ r.ready = sockets[s].ready /\ r.peer = "gone"
      /\ Alive(s) => r.client = sockets[s].client /\ r.account = sockets[s].account
  BY <1>1, GoneSocket
<1>3. sockets' = [sockets EXCEPT ![s] = r] /\ UNCHANGED serverVars
  BY DEF Refuse
<1>4. faults' \in 0..MaxFaults
  BY <1>1, FaultsStay DEF Refuse, TypeOK
<1> HIDE DEF r
<1>5. \A a \in DOMAIN conns : s \notin conns[a]
  BY <1>1 DEF FInv, ServerInv, NoGhostSubscribers
<1>6. round' \in RoundType /\ RoundSound'
  BY <1>1, <1>3 DEF serverVars, FInv, TypeOK, ServerInv, RoundSound
<1>7. DOMAIN conns' \subseteq Accounts /\ \A a \in DOMAIN conns' : conns'[a] \subseteq Sockets
  BY <1>1, <1>3 DEF serverVars, TypeOK
<1>8. \A a \in DOMAIN conns' : \A t \in conns'[a] : t # s /\ a \in DOMAIN conns /\ t \in conns[a]
  BY <1>3, <1>5 DEF serverVars
<1>9. UNCHANGED <<failures, fresh, cooled, mt5>>
  BY <1>3 DEF serverVars
<1>10. QED BY ZenonT(60), <1>2, <1>3, <1>4, <1>6, <1>7, <1>8, <1>9, FarEndStep

LEMMA LeaveStep ==
    ASSUME FInv, NEW s \in Sockets, Leave(s), UNCHANGED hookVars
    PROVE  FInv'
<1> DEFINE r == Done([sockets[s] EXCEPT !.peer = "gone"])
<1>1. TypeOK /\ round \in RoundType
  BY DEF FInv, TypeOK
<1>2. /\ r \in SocketType /\ r.ready = sockets[s].ready /\ r.peer = "gone"
      /\ Alive(s) => r.client = sockets[s].client /\ r.account = sockets[s].account
  BY <1>1, GoneSocket
<1>3. /\ sockets' = [sockets EXCEPT ![s] = r]
      /\ conns' = Unregistered(s)
      /\ UNCHANGED <<failures, fresh, cooled, mt5, faults>>
  BY DEF Leave
<1> HIDE DEF r
<1>4. /\ DOMAIN conns' \subseteq DOMAIN conns
      /\ \A a \in DOMAIN conns' : conns'[a] = conns[a] \ {s}
  BY <1>3 DEF Unregistered
<1>5. round' \in RoundType /\ RoundSound'
  <2> DEFINE popped == round.popped \/ (round.pc = "send" /\ round.account \notin DOMAIN conns')
             members == round.members \ {s}
             seen == round.seen \ {s}
             failed == round.failed \ {s}
  <2>1. round' = [round EXCEPT !.popped = popped, !.members = members,
                               !.seen = seen, !.failed = failed]
    BY DEF Leave
  <2>2. members \subseteq Sockets /\ seen \subseteq Sockets /\ failed \subseteq Sockets
    BY <1>1 DEF RoundType
  <2>3. popped \in BOOLEAN
    BY <1>1 DEF RoundType
  <2> HIDE DEF popped, members, seen, failed
  <2>4. round' \in RoundType /\ round'.pc = round.pc /\ round'.account = round.account
    BY <1>1, <2>1, <2>2, <2>3 DEF RoundType
  <2>5. QED BY <2>4 DEF RoundSound, FInv, ServerInv
<1>6. DOMAIN conns' \subseteq Accounts /\ \A a \in DOMAIN conns' : conns'[a] \subseteq Sockets
  BY <1>1, <1>4 DEF TypeOK
<1>7. \A a \in DOMAIN conns' : \A t \in conns'[a] : t # s /\ a \in DOMAIN conns /\ t \in conns[a]
  BY <1>4
<1>8. faults' \in 0..MaxFaults
  BY <1>1, <1>3 DEF TypeOK
<1>9. UNCHANGED <<failures, fresh, cooled, mt5>>
  BY <1>3
<1>10. \A a \in DOMAIN conns' : \A t \in conns'[a] :
            IF t = s THEN r.peer = "serving" /\ r.account = a
            ELSE a \in DOMAIN conns /\ t \in conns[a]
  BY <1>7
<1>11. r.peer # "gone" => sockets[s].peer # "gone" /\ r.account = sockets[s].account
  BY <1>2
<1>12. QED BY <1>2, <1>3, <1>5, <1>6, <1>8, <1>9, <1>10, <1>11, FarEndStep, ZenonT(60)

LEMMA SendToStep ==
    ASSUME FInv, NEW s \in Sockets, SendTo(s), UNCHANGED hookVars
    PROVE  FInv'
<1>1. TypeOK /\ round \in RoundType /\ sockets[s] \in SocketType
  BY DEF FInv, TypeOK
<1>2. UNCHANGED <<conns, failures, fresh, cooled, mt5, faults>>
  BY DEF SendTo
<1>3. \/ round' = [round EXCEPT !.seen = @ \union {s}]
      \/ \E f \in SUBSET {s} :
            round' = [round EXCEPT !.seen = @ \union {s}, !.failed = @ \union f]
  BY DEF SendTo
<1>4. round' \in RoundType /\ round'.pc = round.pc /\ round'.account = round.account
  <2> DEFINE seen == round.seen \union {s}
  <2>1. seen \subseteq Sockets /\ \A f \in SUBSET {s} : round.failed \union f \subseteq Sockets
    BY <1>1 DEF RoundType
  <2>2. CASE round' = [round EXCEPT !.seen = @ \union {s}]
    <3>1. round' = [round EXCEPT !.seen = seen]
      BY <2>2
    <3> HIDE DEF seen
    <3>2. QED BY <1>1, <2>1, <3>1 DEF RoundType
  <2>3. CASE \E f \in SUBSET {s} :
               round' = [round EXCEPT !.seen = @ \union {s}, !.failed = @ \union f]
    <3>1. PICK f \in SUBSET {s} :
               round' = [round EXCEPT !.seen = @ \union {s}, !.failed = @ \union f]
      BY <2>3
    <3> DEFINE failed == round.failed \union f
    <3>2. failed \subseteq Sockets
      BY <2>1
    <3>3. round' = [round EXCEPT !.seen = seen, !.failed = failed]
      BY <3>1
    <3> HIDE DEF seen, failed
    <3>4. QED BY <1>1, <2>1, <3>2, <3>3 DEF RoundType
  <2>4. QED BY <1>3, <2>2, <2>3
<1>5. RoundSound'
  BY <1>4 DEF RoundSound, FInv, ServerInv
<1>6. CASE sockets' = [sockets EXCEPT ![s].inbox = round.message]
  <2> DEFINE r == [sockets[s] EXCEPT !.inbox = round.message]
  <2>1. round.message \in Messages \union {None}
    BY <1>1 DEF RoundType
  <2>2. /\ r \in SocketType /\ r.ready = sockets[s].ready /\ r.client = sockets[s].client
        /\ r.account = sockets[s].account /\ r.peer = sockets[s].peer
    BY <1>1, <2>1 DEF SocketType
  <2>3. sockets' = [sockets EXCEPT ![s] = r]
    BY <1>6
  <2> HIDE DEF r
  <2>4. DOMAIN conns' \subseteq Accounts /\ \A a \in DOMAIN conns' : conns'[a] \subseteq Sockets
    BY <1>1, <1>2 DEF TypeOK
  <2>5. \A a \in DOMAIN conns' : \A t \in conns'[a] :
            IF t = s THEN r.peer = "serving" /\ r.account = a
            ELSE a \in DOMAIN conns /\ t \in conns[a]
    BY <1>2, <2>2 DEF FInv, ServerInv, NoGhostSubscribers
  <2>6. faults' \in 0..MaxFaults /\ UNCHANGED <<failures, fresh, cooled, mt5>>
    BY <1>1, <1>2 DEF TypeOK
  <2>7. QED BY <1>4, <1>5, <2>2, <2>3, <2>4, <2>5, <2>6, FarEndStep, ZenonT(60)
<1>7. CASE UNCHANGED sockets
  <2>1. /\ faults' \in 0..MaxFaults /\ failures' \in [Accounts -> 0..RecoverAfter]
        /\ fresh' \in [Accounts -> BOOLEAN] /\ cooled' \in [Accounts -> BOOLEAN]
        /\ mt5' \in [Accounts -> RuntimeStates]
    BY <1>1, <1>2 DEF TypeOK
  <2>2. UNCHANGED <<sockets, conns, hookVars>>
    BY <1>2, <1>7
  <2>3. QED BY <1>4, <1>5, <2>1, <2>2, QuietStep
<1>8. QED BY <1>6, <1>7 DEF SendTo

LEMMA SendDoneStep ==
    ASSUME FInv, SendDone, UNCHANGED hookVars
    PROVE  FInv'
<1> USE DEF FInv
<1>1. TypeOK /\ UNCHANGED <<failures, fresh, cooled, mt5, sockets, faults>>
  BY DEF SendDone
<1>2. /\ DOMAIN conns' = DOMAIN conns
      /\ \A a \in DOMAIN conns : conns'[a] \subseteq conns[a]
  BY DEF SendDone
<1>3. round' \in RoundType /\ round'.pc = "next"
  <2>1. round.todo \subseteq Accounts
    BY <1>1 DEF TypeOK, RoundType
  <2>2. round' = [Idle EXCEPT !.pc = "next", !.todo = round.todo]
    BY DEF SendDone
  <2>3. QED BY <2>1, <2>2, IdleIsRound DEF RoundType
<1>4. TypeOK'
  BY <1>1, <1>2, <1>3 DEF TypeOK, hookVars, feedVars
<1>5. SocketsSound' /\ ServerTouch
  BY <1>1 DEF SocketsSound, Alive, ServerTouch
<1>6. ServerInv'
  BY <1>1, <1>2, <1>3 DEF ServerInv, NoGhostSubscribers, RoundSound
<1>7. QED BY <1>4, <1>5, <1>6, ServerKeepsHooks

LEMMA RestartStep ==
    ASSUME FInv, Restart, UNCHANGED hookVars
    PROVE  FInv'
<1>1. TypeOK
  BY DEF FInv
<1>2. ASSUME NEW s \in Sockets
      PROVE  /\ sockets'[s] \in SocketType /\ sockets'[s].ready = sockets[s].ready
             /\ sockets'[s].peer = "gone"
             /\ Alive(s) => /\ sockets'[s].client = sockets[s].client
                            /\ sockets'[s].account = sockets[s].account
  <2>1. sockets'[s] = Done([sockets[s] EXCEPT !.peer = "gone"])
    BY DEF Restart
  <2>2. QED BY <1>1, <2>1, GoneSocket
<1>3. sockets' \in [Sockets -> SocketType]
  <2>1. sockets' = [s \in Sockets |-> Done([sockets[s] EXCEPT !.peer = "gone"])]
    BY DEF Restart
  <2>2. QED BY <1>2, <2>1
<1>4. faults' \in 0..MaxFaults
  BY <1>1 DEF Restart, Fault, TypeOK
<1>5. DOMAIN conns' = {} /\ round' = Idle
  BY DEF Restart
<1>6. TypeOK'
  BY <1>1, <1>3, <1>4, <1>5, IdleIsRound DEF TypeOK, hookVars, feedVars, Restart
<1>7. SocketsSound' /\ ServerTouch
  BY <1>2 DEF SocketsSound, Alive, ServerTouch, FInv
<1>8. ServerInv'
  BY <1>5 DEF ServerInv, NoGhostSubscribers, RoundSound, Idle
<1>9. QED BY <1>6, <1>7, <1>8, ServerKeepsHooks DEF FInv

LEMMA LoseStep ==
    ASSUME FInv, NEW s \in Sockets, Lose(s), UNCHANGED <<hookVars, serverVars>>
    PROVE  FInv'
<1> DEFINE r == [[sockets[s] EXCEPT !.lost = TRUE] EXCEPT !.inbox = None]
<1>1. TypeOK /\ sockets[s] \in SocketType
  BY DEF FInv, TypeOK
<1>2. /\ r \in SocketType /\ r.ready = sockets[s].ready /\ r.client = sockets[s].client
      /\ r.account = sockets[s].account /\ r.peer = sockets[s].peer
  BY <1>1 DEF SocketType
<1>3. sockets' = [sockets EXCEPT ![s] = r]
  BY <1>1 DEF Lose, TypeOK
<1> HIDE DEF r
<1>4. faults' \in 0..MaxFaults
  BY <1>1, FaultsStay DEF Lose
<1>5. round' \in RoundType /\ RoundSound' /\ UNCHANGED <<failures, fresh, cooled, mt5>>
  BY <1>1 DEF serverVars, TypeOK, FInv, ServerInv, RoundSound
<1>6. DOMAIN conns' \subseteq Accounts /\ \A a \in DOMAIN conns' : conns'[a] \subseteq Sockets
  BY <1>1 DEF serverVars, TypeOK
<1>7. \A a \in DOMAIN conns' : \A t \in conns'[a] :
          IF t = s THEN r.peer = "serving" /\ r.account = a
          ELSE a \in DOMAIN conns /\ t \in conns[a]
  BY <1>2 DEF serverVars, FInv, ServerInv, NoGhostSubscribers
<1>8. UNCHANGED hookVars
  OBVIOUS
<1>9. QED BY <1>2, <1>3, <1>4, <1>5, <1>6, <1>7, <1>8, FarEndStep

-----------------------------------------------------------------------------
LEMMA NextKeepsFInv == FInv /\ [Next]_vars => FInv'
<1> SUFFICES ASSUME FInv, [Next]_vars PROVE FInv'
  OBVIOUS
<1>1. CASE UNCHANGED vars
  <2>1. UNCHANGED <<sockets, faults>> /\ UNCHANGED hookVars /\ UNCHANGED serverVars
    BY <1>1 DEF vars
  <2>2. FInv' <=> FInv
    BY <2>1 DEF FInv, TypeOK, SocketsSound, HookInv, ServerInv, OneSocketPerHook,
                AlwaysAWayForward, FeedSound, HookSound, NoGhostSubscribers,
                RoundSound, Alive, hookVars, feedVars, serverVars
  <2>3. QED BY <2>2
<1>2. CASE Browser /\ UNCHANGED serverVars
  BY <1>2, BrowserKeeps
<1>3. CASE (Endpoint \/ Broadcaster \/ Environment \/ Restart) /\ UNCHANGED hookVars
  <2>1. CASE Endpoint
    BY <1>3, <2>1, AcceptStep, RefuseStep, LeaveStep DEF Endpoint
  <2>2. CASE Broadcaster
    BY <1>3, <2>2, TurnStep, ServeStep, ReadStep, SendToStep, SendDoneStep DEF Broadcaster
  <2>3. QED BY <1>3, <2>1, <2>2, EnvironmentStep, RestartStep
<1>4. CASE \E s \in Sockets : Lose(s) /\ UNCHANGED <<hookVars, serverVars>>
  BY <1>4, LoseStep
<1>5. QED BY <1>1, <1>2, <1>3, <1>4 DEF Next

\* Sockets, hooks and the manager agree, whatever is lost, late or restarted.
THEOREM FeedInvariant == Spec => []FInv
<1>1. QED BY InitFInv, NextKeepsFInv, PTL DEF Spec

\* No order of attempts, closes and account switches leaks a socket.
THEOREM SocketsAreNotLeaked == Spec => []OneSocketPerHook
<1>1. FInv => OneSocketPerHook
  BY DEF FInv, HookInv
<1>2. QED BY <1>1, FeedInvariant, PTL

\* An enabled hook without a socket is about to get one.
THEOREM HooksNeverStall == Spec => []AlwaysAWayForward
<1>1. FInv => AlwaysAWayForward
  BY DEF FInv, HookInv
<1>2. QED BY <1>1, FeedInvariant, PTL

\* Once the effects of its last render have run, a dashboard shows the account
\* it was rendered for or nothing.
THEOREM AccountsAreNotMixed == Spec => []NeverThePreviousAccount
<1>1. FInv => NeverThePreviousAccount
  BY DEF FInv, HookInv, FeedSound, NeverThePreviousAccount, EffectsRan
<1>2. QED BY <1>1, FeedInvariant, PTL

\* The manager sends to sockets being served, each under its own account.
THEOREM SubscribersAreServed == Spec => []NoGhostSubscribers
<1>1. FInv => NoGhostSubscribers
  BY DEF FInv, ServerInv
<1>2. QED BY <1>1, FeedInvariant, PTL
=============================================================================
