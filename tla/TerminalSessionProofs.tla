------------------------ MODULE TerminalSessionProofs ------------------------
(* What TerminalSession keeps, for any logins, adapters, threads and       *)
(* number of attempts.                                                     *)
EXTENDS TerminalSession, TLAPS

USE SessionAssumption DEF SessionAssumption

LEMMA IdleIsProgram == Idle \in Programs
<1>1. 0 \in 0..MaxAttempts
  OBVIOUS
<1>2. QED BY <1>1 DEF Idle, Programs

\* A new executor satisfies the invariant of the connection.
LEMMA InitSInv == Init => SInv
<1> SUFFICES ASSUME Init PROVE SInv
  OBVIOUS
<1>1. TypeOK
  BY IdleIsProgram DEF Init, TypeOK, Actors
<1>2. LockHasHolder /\ AdaptersSound /\ CredentialsSound
  BY DEF Init, LockHasHolder, AdaptersSound, CredentialsSound, At, Idle, LockPhases, Actors,
         Reconfigures
<1>3. NoCloseInFlight /\ NoLeakedConnections
  BY DEF Init, NoCloseInFlight, NoLeakedConnections, At, Idle, Actors
<1>4. QED BY <1>1, <1>2, <1>3 DEF SInv

\* Where an actor outside the lock, now at q, may be after a step outside the
\* lock; it may send an order through the executor's adapter, and keeps that
\* adapter in hand while it reads the answer.
May(q, p) ==
  /\ p \in Programs
  /\ q.phase \notin LockPhases
  /\ p.phase \notin LockPhases
  /\ p.cand # None => p.phase \in {"sent", "answered", "verify"}
  /\ p.phase = "sent" => \/ q.phase = "sent" /\ p.cand = q.cand
                         \/ adapter # None /\ p.cand = adapter
  /\ p.job \in {"connect", "restore"} => /\ p.creds # None
                                         /\ p.then = "done"
                                         /\ p.phase \in {"loaded", "lock"}
  /\ p.phase = "loaded" => p.job \in {"connect", "restore"}
  /\ p.phase = "idle" => p = Idle

\* Actor a moves from one phase outside the lock to another.
Moves(a) ==
  /\ actor' = [actor EXCEPT ![a] = actor'[a]]
  /\ May(actor[a], actor'[a])

\* The connection stays, except that the flag may fall.
KeepsConnection ==
  /\ connected' = connected \/ connected' = FALSE
  /\ placed' \in Nat
  /\ saved' \in Logins
  /\ reply' \in {"none", "success", "failure", "error"}
  /\ UNCHANGED <<login, adapter, open, terminal, lock>>

\* A step outside the lock keeps the invariant.
LEMMA OutsideLock ==
  ASSUME SInv, NEW a \in Actors, Moves(a), KeepsConnection
  PROVE  SInv'
<1> USE DEF KeepsConnection
<1> /\ May(actor[a], actor'[a])
    /\ actor' \in [Actors -> Programs]
    /\ \A b \in Actors \ {a} : actor'[b] = actor[b]
  BY DEF SInv, TypeOK, Moves, May
<1> USE DEF May
<1> USE DEF SInv
<1>1. TypeOK'
  BY DEF TypeOK
<1>2. LockHasHolder'
  BY DEF LockHasHolder
<1>3. AdaptersSound'
  <2>1. (connected => adapter # None)' /\ (adapter # None => adapter \in open)'
    BY DEF AdaptersSound
  <2> SUFFICES ASSUME NEW c \in Actors
               PROVE  /\ actor'[c].cand # None =>
                            actor'[c].phase \in {"login", "swap", "drop", "sent", "answered", "verify"}
                      /\ actor'[c].phase \in {"login", "swap"} =>
                            actor'[c].cand \in open /\ actor'[c].cand # adapter
                      /\ actor'[c].phase = "drop" => actor'[c].cand # adapter
                      /\ actor'[c].phase = "sent" =>
                            \/ actor'[c].cand = adapter
                            \/ \E b \in Actors : /\ actor'[b].phase = "drop"
                                                 /\ actor'[b].cand = actor'[c].cand
    BY <2>1 DEF AdaptersSound, At
  <2>2. \A b \in Actors : actor[b].phase = "drop" => actor'[b] = actor[b]
    BY DEF LockPhases
  <2>3. CASE c = a
    BY <2>2, <2>3 DEF AdaptersSound, At, LockPhases
  <2>4. CASE c # a
    <3>1. actor'[c] = actor[c]
      BY <2>4
    <3>2. QED BY <2>2, <3>1 DEF AdaptersSound, At
  <2>5. QED BY <2>3, <2>4
<1>4. CredentialsSound'
  BY DEF CredentialsSound, Reconfigures, At, LockPhases
<1>5. NoCloseInFlight'
  BY DEF NoCloseInFlight, AdaptersSound, At
<1>6. NoLeakedConnections'
  <2>1. lock # a
    BY DEF LockHasHolder
  <2>2. QED BY <2>1 DEF NoLeakedConnections
<1>7. QED BY <1>1, <1>2, <1>3, <1>4, <1>5, <1>6

\* Requests, jobs and snapshots begin outside the lock.
LEMMA BeginningsKeepSInv ==
  ASSUME SInv
  PROVE  /\ BeginOrder => SInv'
         /\ \A l \in Logins : BeginConnect(l) => SInv'
         /\ \A th \in Threads : ThreadStep(th) => SInv'
<1> TypeOK /\ CredentialsSound /\ Loop \in Actors /\ Threads \subseteq Actors
  BY DEF Actors, SInv
<1> USE DEF TypeOK
<1>1. ASSUME BeginOrder PROVE SInv'
  <2>1. actor[Loop] = Idle
    BY <1>1 DEF BeginOrder, CredentialsSound, At
  <2>2. actor' = [actor EXCEPT ![Loop] = [Idle EXCEPT !.phase = "ensure", !.job = "order"]]
    BY <1>1, <2>1 DEF BeginOrder
  <2>3. Moves(Loop)
    BY ZenonT(60), <2>1, <2>2, IdleIsProgram DEF Moves, May, Idle, Programs, LockPhases
  <2>4. KeepsConnection
    BY <1>1 DEF BeginOrder, KeepsConnection
  <2>5. QED BY <2>3, <2>4, OutsideLock
<1>2. ASSUME NEW l \in Logins, BeginConnect(l) PROVE SInv'
  <2>1. actor[Loop] = Idle
    BY <1>2 DEF BeginConnect, CredentialsSound, At
  <2>2. actor' = [actor EXCEPT ![Loop] =
                    [Idle EXCEPT !.phase = "lock", !.job = "connect", !.creds = l]]
    BY <1>2, <2>1 DEF BeginConnect
  <2>3. Moves(Loop)
    BY ZenonT(60), <2>1, <2>2, IdleIsProgram DEF Moves, May, Idle, Programs, LockPhases
  <2>4. KeepsConnection
    BY <1>2 DEF BeginConnect, KeepsConnection
  <2>5. QED BY <2>3, <2>4, OutsideLock
<1>3. ASSUME NEW th \in Threads, BeginRestore(th) PROVE SInv'
  <2>1. actor[th] = Idle
    BY <1>3 DEF BeginRestore, CredentialsSound, At
  <2>2. actor' = [actor EXCEPT ![th] =
                    [Idle EXCEPT !.phase = "loaded", !.job = "restore", !.creds = saved]]
    BY <1>3, <2>1 DEF BeginRestore
  <2>3. Moves(th)
    BY ZenonT(60), <2>1, <2>2, IdleIsProgram DEF Moves, May, Idle, Programs, LockPhases
  <2>4. KeepsConnection
    BY <1>3 DEF BeginRestore, KeepsConnection
  <2>5. QED BY <2>3, <2>4, OutsideLock
<1>4. ASSUME NEW th \in Threads, RestoreChecks(th) PROVE SInv'
  <2>1. /\ actor[th] \in Programs /\ actor[th].cand = None
        /\ actor[th].phase = "loaded" /\ actor[th].then = "done" /\ actor[th].creds # None
    BY <1>4 DEF RestoreChecks, CredentialsSound, AdaptersSound, Reconfigures, At, SInv
  <2>2. Moves(th)
    <3>1. CASE actor' = [actor EXCEPT ![th] = Idle]
      BY <2>1, <3>1, IdleIsProgram DEF Moves, May, Idle, LockPhases
    <3>2. CASE actor' = Goto(th, "lock")
      <4>1. actor' = [actor EXCEPT ![th] = [actor[th] EXCEPT !.phase = "lock"]]
        BY <3>2 DEF Goto
      <4>2. [actor[th] EXCEPT !.phase = "lock"] \in Programs
        BY <2>1 DEF Programs
      <4>3. QED BY ZenonT(60), <2>1, <4>1, <4>2 DEF Moves, May, LockPhases, Programs
    <3>3. QED BY <1>4, <3>1, <3>2 DEF RestoreChecks
  <2>3. KeepsConnection
    BY <1>4 DEF RestoreChecks, KeepsConnection
  <2>4. QED BY <2>2, <2>3, OutsideLock
<1>5. ASSUME NEW th \in Threads, BeginRecover(th) PROVE SInv'
  <2>1. actor[th] = Idle
    BY <1>5 DEF BeginRecover, CredentialsSound, At
  <2>2. actor' = [actor EXCEPT ![th] = [Idle EXCEPT !.phase = "lock", !.job = "recover"]]
    BY <1>5, <2>1 DEF BeginRecover
  <2>3. Moves(th)
    BY ZenonT(60), <2>1, <2>2, IdleIsProgram DEF Moves, May, Idle, Programs, LockPhases
  <2>4. KeepsConnection
    BY <1>5 DEF BeginRecover, KeepsConnection
  <2>5. QED BY <2>3, <2>4, OutsideLock
<1>6. ASSUME NEW th \in Threads, Snapshot(th) PROVE SInv'
  <2>1. actor[th] = Idle /\ actor' = actor
    BY <1>6 DEF Snapshot, CredentialsSound, At
  <2>2. Moves(th)
    BY <2>1, IdleIsProgram DEF Moves, May, Idle, LockPhases
  <2>3. KeepsConnection
    BY <1>6 DEF Snapshot, KeepsConnection
  <2>4. QED BY <2>2, <2>3, OutsideLock
<1>7. QED BY <1>1, <1>2, <1>3, <1>4, <1>5, <1>6 DEF ThreadStep

\* Every step of an order request is a step outside the lock.
LEMMA OrderStepsKeepSInv ==
  ASSUME SInv, NEW a \in Actors, OrderStep(a) \/ BrokerExecutes(a)
  PROVE  SInv'
<1>1. /\ TypeOK /\ actor[a] \in Programs
      /\ actor[a].phase \notin {"idle", "loaded", "lock"} \cup LockPhases
      /\ actor[a].cand # None => actor[a].phase \in {"sent", "answered", "verify"}
      /\ actor[a].job \notin {"connect", "restore"}
  <2>1. actor[a].phase \in
          {"ensure", "body", "send", "ready", "sent", "answered", "verify", "reverify"}
    BY DEF OrderStep, BrokerExecutes, EnsureConnected, MethodRaises, MethodRefuses, ReadSymbol,
           PingFails,
           OrderSend, OrderAnswered, OrderDone, OrderRefused, OrderRaises, Verify, VerifyReconnects, At
  <2>2. QED
    BY <2>1 DEF SInv, TypeOK, AdaptersSound, CredentialsSound, NoCloseInFlight, Reconfigures,
                At, LockPhases
<1> USE <1>1
<1>2. ASSUME NEW next \in {"attempt", "send", "ready", "verify"}, actor' = Reconnecting(a, next)
      PROVE  Moves(a)
  <2> DEFINE p == [actor[a] EXCEPT !.phase = "lock", !.then = next, !.cand = None,
                                   !.executed = FALSE]
  <2>1. actor' = [actor EXCEPT ![a] = p]
    BY <1>2 DEF Reconnecting
  <2>2. p \in Programs
    BY DEF Programs
  <2>3. p.phase = "lock" /\ p.cand = None /\ p.job = actor[a].job
    BY DEF Programs
  <2> HIDE DEF p
  <2>4. QED BY <2>1, <2>2, <2>3 DEF Moves, May, LockPhases, TypeOK
<1>3. ASSUME NEW value, Answer(a, value) PROVE Moves(a)
  BY <1>3, IdleIsProgram DEF Answer, Moves, May, TypeOK, Idle, LockPhases
<1>4. Raise(a) => Moves(a)
  BY <1>2, <1>3 DEF Raise
<1>5. CASE EnsureConnected(a)
  <2>1. Moves(a)
    BY <1>5, <1>2 DEF EnsureConnected, Goto, At, Moves, May, TypeOK, Programs, LockPhases
  <2>2. KeepsConnection
    BY <1>5 DEF EnsureConnected, KeepsConnection, TypeOK
  <2>3. QED BY <2>1, <2>2, OutsideLock
<1>6. CASE MethodRaises(a)
  <2>1. Moves(a)
    BY <1>6, <1>4 DEF MethodRaises
  <2>2. KeepsConnection
    BY <1>6 DEF MethodRaises, Raise, Answer, KeepsConnection, TypeOK
  <2>3. QED BY <2>1, <2>2, OutsideLock
<1>7. CASE MethodRefuses(a)
  <2>1. Moves(a)
    BY <1>7, <1>3 DEF MethodRefuses
  <2>2. KeepsConnection
    BY <1>7 DEF MethodRefuses, Answer, KeepsConnection, TypeOK
  <2>3. QED BY <2>1, <2>2, OutsideLock
<1>8. CASE ReadSymbol(a)
  <2>1. Moves(a)
    BY <1>8, <1>2 DEF ReadSymbol, Goto, At, Moves, May, TypeOK, Programs, LockPhases
  <2>2. KeepsConnection
    BY <1>8 DEF ReadSymbol, KeepsConnection, TypeOK
  <2>3. QED BY <2>1, <2>2, OutsideLock
<1>9. CASE PingFails(a)
  <2>1. Moves(a)
    BY <1>9, <1>2 DEF PingFails
  <2>2. KeepsConnection
    BY <1>9 DEF PingFails, KeepsConnection, TypeOK
  <2>3. QED BY <2>1, <2>2, OutsideLock
<1>10. CASE OrderSend(a)
  <2>1. Moves(a)
    BY <1>10 DEF OrderSend, Moves, May, TypeOK, Programs, LockPhases
  <2>2. KeepsConnection
    BY <1>10 DEF OrderSend, KeepsConnection, TypeOK
  <2>3. QED BY <2>1, <2>2, OutsideLock
<1>11. CASE OrderDone(a)
  <2>1. Moves(a)
    BY <1>11 DEF OrderDone, At, Moves, May, TypeOK, Programs, LockPhases
  <2>2. KeepsConnection
    BY <1>11 DEF OrderDone, KeepsConnection, TypeOK
  <2>3. QED BY <2>1, <2>2, OutsideLock
<1>12. CASE OrderRefused(a)
  <2>1. Moves(a)
    BY <1>12, <1>3 DEF OrderRefused
  <2>2. KeepsConnection
    BY <1>12 DEF OrderRefused, Answer, KeepsConnection, TypeOK
  <2>3. QED BY <2>1, <2>2, OutsideLock
<1>13. CASE OrderRaises(a)
  <2>1. Moves(a)
    BY <1>13, <1>4 DEF OrderRaises
  <2>2. KeepsConnection
    BY <1>13 DEF OrderRaises, Raise, Answer, KeepsConnection, TypeOK
  <2>3. QED BY <2>1, <2>2, OutsideLock
<1>14. CASE Verify(a)
  <2>1. Moves(a)
    BY <1>14, <1>3 DEF Verify
  <2>2. KeepsConnection
    BY <1>14 DEF Verify, Answer, KeepsConnection, TypeOK
  <2>3. QED BY <2>1, <2>2, OutsideLock
<1>15. CASE VerifyReconnects(a)
  <2>1. Moves(a)
    BY <1>15, <1>2 DEF VerifyReconnects
  <2>2. KeepsConnection
    BY <1>15 DEF VerifyReconnects, KeepsConnection, TypeOK
  <2>3. QED BY <2>1, <2>2, OutsideLock
<1>16. CASE BrokerExecutes(a)
  <2> DEFINE p == [actor[a] EXCEPT !.executed = TRUE]
  <2>1. Moves(a)
    <3>1. actor' = [actor EXCEPT ![a] = p]
      BY <1>16 DEF BrokerExecutes
    <3>2. p \in Programs
      BY DEF Programs
    <3>3. /\ p.phase = "sent" /\ actor[a].phase = "sent" /\ p.cand = actor[a].cand
          /\ p.job = actor[a].job
      BY <1>16 DEF Programs, BrokerExecutes, At
    <3> HIDE DEF p
    <3>4. QED BY <3>1, <3>2, <3>3 DEF Moves, May, LockPhases, TypeOK
  <2>2. KeepsConnection
    BY <1>16 DEF BrokerExecutes, KeepsConnection, TypeOK
  <2>3. QED BY <2>1, <2>2, OutsideLock
<1>17. CASE OrderAnswered(a)
  <2> DEFINE p == [actor[a] EXCEPT !.phase = "answered"]
  <2>1. Moves(a)
    <3>1. actor' = [actor EXCEPT ![a] = p]
      BY <1>17 DEF OrderAnswered, Goto
    <3>2. p \in Programs
      BY DEF Programs
    <3>3. p.phase = "answered" /\ p.job = actor[a].job
      BY DEF Programs
    <3> HIDE DEF p
    <3>4. QED BY <3>1, <3>2, <3>3 DEF Moves, May, LockPhases, TypeOK
  <2>2. KeepsConnection
    BY <1>17 DEF OrderAnswered, KeepsConnection, TypeOK
  <2>3. QED BY <2>1, <2>2, OutsideLock
<1>18. QED
  BY <1>5, <1>6, <1>7, <1>8, <1>9, <1>10, <1>11, <1>12, <1>13, <1>14, <1>15, <1>16, <1>17
     DEF OrderStep

\* Where the holder of the lock may be after a step of its own, and what its
\* step may do to the connections: those in flight stay, none is lost.
HolderMay(a, p) ==
  /\ actor' = [actor EXCEPT ![a] = p]
  /\ p \in Programs
  /\ lock' = IF p.phase \in LockPhases THEN a ELSE None
  /\ p.phase \notin {"sent", "loaded"}
  /\ p.cand # None => p.phase \in {"login", "swap", "drop"}
  /\ p.phase \in {"login", "swap"} => p.cand \in open'
  /\ p.cand # None => p.cand # adapter'
  /\ p.phase \in {"dial", "login", "swap"} => p.creds # None
  /\ p.job \in {"connect", "restore"} => /\ p.creds # None
                                         /\ p.then = "done"
                                         /\ p.phase \in LockPhases
  /\ p.phase = "idle" => p = Idle
  /\ p.phase = "drop" => adapter' # None
  /\ open' \subseteq Adapters
  /\ \A x \in open' : x = adapter' \/ x = p.cand
  /\ \A c \in Actors \ {a} : actor[c].phase = "sent" =>
        /\ actor[c].cand \in open'
        /\ \/ actor[c].cand = adapter'
           \/ p.phase = "drop" /\ actor[c].cand = p.cand

\* The executor's own fields after such a step.
HolderKeeps ==
  /\ login' \in Logins
  /\ adapter' \in Adapters \cup {None}
  /\ connected' \in BOOLEAN
  /\ connected' => adapter' # None
  /\ adapter' # None => adapter' \in open'
  /\ terminal' \in Logins \cup {None}
  /\ reply' \in {"none", "success", "failure", "error"}
  /\ UNCHANGED <<saved, placed>>

\* A step of the holder of the lock, its acquisition too, keeps the invariant.
LEMMA InsideLock ==
  ASSUME SInv, NEW a \in Actors, lock \in {a, None}, NEW p, HolderMay(a, p), HolderKeeps
  PROVE  SInv'
<1> USE DEF SInv, HolderMay, HolderKeeps
<1>1. /\ actor' \in [Actors -> Programs] /\ actor'[a] = p
      /\ \A b \in Actors \ {a} : /\ actor'[b] = actor[b]
                                 /\ actor[b].phase \notin LockPhases
  BY DEF TypeOK, LockHasHolder, Actors
<1>2. TypeOK'
  BY <1>1 DEF TypeOK
<1>3. LockHasHolder'
  BY <1>1 DEF LockHasHolder, Actors
<1>4. AdaptersSound'
  <2>1. (connected => adapter # None)' /\ (adapter # None => adapter \in open)'
    OBVIOUS
  <2> SUFFICES ASSUME NEW c \in Actors
               PROVE  /\ actor'[c].cand # None =>
                            actor'[c].phase \in {"login", "swap", "drop", "sent", "answered", "verify"}
                      /\ actor'[c].phase \in {"login", "swap"} =>
                            actor'[c].cand \in open' /\ actor'[c].cand # adapter'
                      /\ actor'[c].phase = "drop" => actor'[c].cand # adapter'
                      /\ actor'[c].phase = "sent" =>
                            \/ actor'[c].cand = adapter'
                            \/ \E b \in Actors : /\ actor'[b].phase = "drop"
                                                 /\ actor'[b].cand = actor'[c].cand
    BY <2>1 DEF AdaptersSound, At
  <2>2. CASE c = a
    BY <1>1, <2>2 DEF TypeOK
  <2>3. CASE c # a
    BY <1>1, <2>3 DEF AdaptersSound, LockPhases
  <2>4. QED BY <2>2, <2>3
<1>5. CredentialsSound'
  BY <1>1 DEF CredentialsSound, Reconfigures, At, LockPhases
<1>6. NoCloseInFlight'
  BY <1>1 DEF NoCloseInFlight, At
<1>7. NoLeakedConnections'
  BY <1>1 DEF NoLeakedConnections, LockPhases
<1>8. QED BY <1>2, <1>3, <1>4, <1>5, <1>6, <1>7

\* What the invariant says of the holder of the lock.
LEMMA HolderFacts ==
  ASSUME SInv, NEW a \in Actors, actor[a].phase \in LockPhases
  PROVE  /\ lock = a /\ a # None
         /\ actor[a] \in Programs
         /\ actor[a].phase \in {"locked", "dial"} => actor[a].cand = None
         /\ Reconfigures(a) => actor[a].creds # None /\ actor[a].then = "done"
         /\ \A x \in open : x = adapter \/ x = actor[a].cand
         /\ \A c \in Actors \ {a} : actor[c].phase = "sent" =>
               /\ actor[c].cand \in open
               /\ \/ actor[c].cand = adapter
                  \/ actor[a].phase = "drop" /\ actor[c].cand = actor[a].cand
<1> USE DEF SInv
<1>1. lock = a /\ a # None /\ actor[a] \in Programs
  BY DEF LockHasHolder, TypeOK, Actors
<1>2. actor[a].phase \in {"locked", "dial"} => actor[a].cand = None
  BY DEF AdaptersSound
<1>3. Reconfigures(a) => actor[a].creds # None /\ actor[a].then = "done"
  BY DEF CredentialsSound
<1>4. \A x \in open : x = adapter \/ x = actor[a].cand
  BY <1>1 DEF NoLeakedConnections
<1>5. ASSUME NEW c \in Actors \ {a}, actor[c].phase = "sent"
      PROVE  /\ actor[c].cand \in open
             /\ \/ actor[c].cand = adapter
                \/ actor[a].phase = "drop" /\ actor[c].cand = actor[a].cand
  <2>1. \A b \in Actors : At(b, "drop") => b = a
    BY <1>1 DEF LockHasHolder, LockPhases, At
  <2>2. QED BY <1>5, <2>1 DEF AdaptersSound, NoCloseInFlight, At
<1>6. QED BY <1>1, <1>2, <1>3, <1>4, <1>5

\* The method that asked for the connection goes on outside the lock.
LEMMA Resumes ==
  ASSUME SInv, NEW a \in Actors, actor[a] \in Programs, NEW ok \in BOOLEAN, Resume(a, ok),
         Reconfigures(a) => actor[a].then = "done"
  PROVE  /\ reply' \in {"none", "success", "failure", "error"}
         /\ \E p \in Programs :
               /\ actor' = [actor EXCEPT ![a] = p]
               /\ p.phase \notin {"sent", "loaded"} \cup LockPhases
               /\ p.cand = None
               /\ p.job \notin {"connect", "restore"}
               /\ p.phase = "idle" => p = Idle
<1> USE DEF Programs
<1>1. reply \in {"none", "success", "failure", "error"}
  BY DEF SInv, TypeOK
<1>2. CASE actor[a].then # "done" /\ (ok \/ actor[a].then = "verify")
  <2> DEFINE next == PhaseAfter[actor[a].then]
             last == actor[a].last \/ actor[a].then = "attempt"
             p    == [actor[a] EXCEPT !.phase = next, !.cand = None, !.tries = 0,
                                      !.creds = None, !.then = "done", !.last = last]
  <2>1. next \in {"body", "send", "ready", "reverify"}
    BY <1>2 DEF PhaseAfter
  <2> HIDE DEF next
  <2>2. UNCHANGED reply /\ actor' = [actor EXCEPT ![a] = p]
    BY <1>2 DEF Resume, next
  <2>3. 0 \in 0..MaxAttempts /\ last \in BOOLEAN
    OBVIOUS
  <2> HIDE DEF last
  <2>4. p \in Programs
    <3> DEFINE q == [actor[a] EXCEPT !.phase = next, !.cand = None, !.tries = 0]
    <3>1. q \in Programs
      BY <2>1, <2>3
    <3> DEFINE u == [q EXCEPT !.creds = None, !.then = "done"]
    <3>2. p = [u EXCEPT !.last = last]
      OBVIOUS
    <3> HIDE DEF q, p
    <3>3. u \in Programs
      BY <3>1
    <3> HIDE DEF u
    <3>4. [u EXCEPT !.last = last] \in Programs
      BY <2>3, <3>3
    <3>5. QED BY <3>2, <3>4
  <2>5. /\ p.phase = next /\ p.cand = None /\ p.job = actor[a].job
    OBVIOUS
  <2> HIDE DEF p
  <2>6. QED BY <1>1, <1>2, <2>1, <2>2, <2>4, <2>5 DEF Reconfigures, LockPhases
<1>3. CASE ~(actor[a].then # "done" /\ (ok \/ actor[a].then = "verify"))
  <2>1. /\ actor' = [actor EXCEPT ![a] = Idle]
        /\ reply' \in {"none", "success", "failure", "error"}
    BY <1>1, <1>3 DEF Resume, Answer
  <2>2. /\ Idle.phase \notin {"sent", "loaded"} \cup LockPhases
        /\ Idle.cand = None /\ Idle.job \notin {"connect", "restore"}
    BY DEF Idle, LockPhases
  <2>3. QED BY <2>1, <2>2, IdleIsProgram
<1>4. QED BY <1>2, <1>3

\* Taking the lock.
LEMMA AcquireKeepsSInv ==
  ASSUME SInv, NEW a \in Actors, Acquire(a)
  PROVE  SInv'
<1> DEFINE p == [actor[a] EXCEPT !.phase = IF Reconfigures(a) THEN "dial" ELSE "locked",
                                 !.tries = 0]
<1>1. /\ actor[a].phase = "lock" /\ lock = None
      /\ actor' = [actor EXCEPT ![a] = p] /\ lock' = a
      /\ connected' \in BOOLEAN /\ (connected' => connected)
      /\ UNCHANGED <<saved, login, adapter, open, terminal, placed, reply>>
  BY DEF Acquire, Free, At
<1>2. /\ actor[a] \in Programs /\ actor[a].cand = None
      /\ Reconfigures(a) => actor[a].creds # None /\ actor[a].then = "done"
  BY <1>1 DEF SInv, TypeOK, AdaptersSound, CredentialsSound
<1>3. 0 \in 0..MaxAttempts
  OBVIOUS
<1>4. /\ p \in Programs
      /\ p.phase = IF Reconfigures(a) THEN "dial" ELSE "locked"
      /\ p.cand = None /\ p.job = actor[a].job /\ p.creds = actor[a].creds
      /\ p.then = actor[a].then
  BY <1>2, <1>3 DEF Programs, LockPhases
<1> HIDE DEF p
<1>5. \A x \in open : x = adapter
  BY <1>1 DEF SInv, NoLeakedConnections, Actors
<1>6. \A c \in Actors : actor[c].phase = "sent" => actor[c].cand \in open
  BY DEF SInv, NoCloseInFlight, At
<1>7. HolderMay(a, p)
  BY <1>1, <1>2, <1>4, <1>5, <1>6 DEF HolderMay, SInv, TypeOK, LockPhases, Reconfigures
<1>8. HolderKeeps
  BY <1>1 DEF HolderKeeps, SInv, TypeOK, AdaptersSound
<1>9. QED BY <1>1, <1>7, <1>8, InsideLock

\* The holder leaves the lock, having closed the adapter in its hand, if any.
LEMMA LeavingKeepsSInv ==
  ASSUME SInv, NEW a \in Actors, actor[a].phase \in LockPhases,
         NEW ok \in BOOLEAN, Resume(a, ok), lock' = None,
         open' = open \ {actor[a].cand},
         actor[a].cand = adapter => adapter = None,
         Quiet(actor[a].cand) \/ actor[a].phase # "drop",
         UNCHANGED <<saved, login, adapter, connected, placed>>,
         terminal' \in Logins \cup {None}
  PROVE  SInv'
<1>1. /\ lock = a /\ a # None
      /\ actor[a] \in Programs
      /\ Reconfigures(a) => actor[a].creds # None /\ actor[a].then = "done"
      /\ \A x \in open : x = adapter \/ x = actor[a].cand
      /\ \A c \in Actors \ {a} : actor[c].phase = "sent" =>
            /\ actor[c].cand \in open
            /\ \/ actor[c].cand = adapter
               \/ actor[a].phase = "drop" /\ actor[c].cand = actor[a].cand
  BY HolderFacts
<1>2. PICK p \in Programs : /\ actor' = [actor EXCEPT ![a] = p]
                            /\ p.phase \notin {"sent", "loaded"} \cup LockPhases
                            /\ p.cand = None
                            /\ p.job \notin {"connect", "restore"}
                            /\ p.phase = "idle" => p = Idle
  BY <1>1, Resumes
<1>3. reply' \in {"none", "success", "failure", "error"}
  BY <1>1, Resumes
<1>4. \A c \in Actors \ {a} : actor[c].phase = "sent" =>
         actor[c].cand \in open' /\ actor[c].cand = adapter
  BY <1>1 DEF Quiet, At, SInv, TypeOK
<1>5. HolderMay(a, p)
  BY <1>1, <1>2, <1>4 DEF HolderMay, SInv, TypeOK, LockPhases
<1>6. HolderKeeps
  BY <1>3 DEF HolderKeeps, SInv, TypeOK, AdaptersSound
<1>7. QED BY <1>1, <1>5, <1>6, InsideLock

\* Another attempt to connect, or none left: either way the adapter in hand,
\* if any, has been closed.
LEMMA FailedKeepsSInv ==
  ASSUME SInv, NEW a \in Actors, actor[a].phase \in {"dial", "login"}, Failed(a),
         open' = open \ {actor[a].cand},
         UNCHANGED <<saved, login, adapter, connected, placed>>,
         terminal' \in Logins \cup {None}
  PROVE  SInv'
<1>1. /\ lock = a /\ a # None
      /\ actor[a] \in Programs
      /\ actor[a].phase = "dial" => actor[a].cand = None
      /\ Reconfigures(a) => actor[a].creds # None /\ actor[a].then = "done"
      /\ \A x \in open : x = adapter \/ x = actor[a].cand
      /\ \A c \in Actors \ {a} : actor[c].phase = "sent" =>
            actor[c].cand \in open /\ actor[c].cand = adapter
  BY HolderFacts DEF LockPhases
<1>2. actor[a].cand = adapter => adapter = None
  BY <1>1 DEF SInv, AdaptersSound
<1> /\ Counted(a) \in Nat /\ Attempts(a) \in Nat
    /\ Attempts(a) <= MaxAttempts
  BY <1>1 DEF Counted, Attempts, Programs
<1>3. CASE Counted(a) >= Attempts(a)
  <2>1. ~(Counted(a) < Attempts(a))
    BY <1>3
  <2>2. lock' = None /\ Resume(a, FALSE)
    BY <2>1, Zenon DEF Failed
  <2>3. QED BY <1>1, <1>2, <2>2, LeavingKeepsSInv DEF LockPhases
<1>4. CASE Counted(a) < Attempts(a)
  <2> DEFINE p == [actor[a] EXCEPT !.phase = "dial", !.cand = None, !.tries = Counted(a)]
  <2>1. Counted(a) \in 0..MaxAttempts
    BY <1>4
  <2> ~(Counted(a) >= Attempts(a))
    BY <1>4
  <2>2. actor' = [actor EXCEPT ![a] = p] /\ UNCHANGED <<lock, reply>>
    BY Zenon DEF Failed
  <2>3. /\ p \in Programs /\ p.phase = "dial" /\ p.cand = None
        /\ p.job = actor[a].job /\ p.creds = actor[a].creds /\ p.then = actor[a].then
    BY <1>1, <2>1 DEF Programs, LockPhases
  <2> HIDE DEF p
  <2>4. actor[a].creds # None
    BY DEF SInv, CredentialsSound
  <2>5. HolderMay(a, p)
    BY <1>1, <1>2, <2>2, <2>3, <2>4 DEF HolderMay, SInv, TypeOK, LockPhases, Reconfigures
  <2>6. HolderKeeps
    BY <1>2, <2>2 DEF HolderKeeps, SInv, TypeOK, AdaptersSound
  <2>7. QED BY <1>1, <2>5, <2>6, InsideLock
<1>5. QED BY <1>3, <1>4

\* Every step under the connection lock.
LEMMA LockStepsKeepSInv ==
  ASSUME SInv, NEW a \in Actors, LockStep(a)
  PROVE  SInv'
<1>1. actor[a].phase \in LockPhases
  BY DEF LockStep, StillConnected, TearDown, Dial, DialFails, LoginSucceeds, LoginFails, Swap, Drop,
         At, LockPhases
<1>2. /\ lock = a /\ a # None
      /\ actor[a] \in Programs
      /\ actor[a].phase \in {"locked", "dial"} => actor[a].cand = None
      /\ Reconfigures(a) => actor[a].creds # None /\ actor[a].then = "done"
      /\ \A x \in open : x = adapter \/ x = actor[a].cand
      /\ \A c \in Actors \ {a} : actor[c].phase = "sent" =>
            /\ actor[c].cand \in open
            /\ \/ actor[c].cand = adapter
               \/ actor[a].phase = "drop" /\ actor[c].cand = actor[a].cand
  BY <1>1, HolderFacts
<1>3. TypeOK /\ AdaptersSound /\ CredentialsSound
  BY DEF SInv
<1>4. CASE StillConnected(a)
  <2>1. open = open \ {actor[a].cand}
    BY <1>2, <1>3, <1>4 DEF StillConnected, At, TypeOK
  <2>2. QED BY <1>1, <1>2, <1>3, <1>4, <2>1, LeavingKeepsSInv DEF StillConnected, At, TypeOK
<1>5. CASE TearDown(a)
  <2> DEFINE p == [actor[a] EXCEPT !.phase = "dial", !.creds = login]
  <2>1. /\ p \in Programs /\ p.phase = "dial" /\ p.cand = None /\ p.creds = login
        /\ p.job = actor[a].job /\ p.then = actor[a].then
    BY <1>2, <1>3, <1>5 DEF TearDown, At, Programs, LockPhases, TypeOK
  <2>2. actor' = [actor EXCEPT ![a] = p]
    BY <1>5 DEF TearDown
  <2> HIDE DEF p
  <2>3. HolderMay(a, p)
    BY <1>2, <1>3, <1>5, <2>1, <2>2
       DEF TearDown, At, Quiet, HolderMay, TypeOK, LockPhases, Reconfigures
  <2>4. HolderKeeps
    BY <1>3, <1>5 DEF TearDown, HolderKeeps, TypeOK
  <2>5. QED BY <1>2, <2>3, <2>4, InsideLock
<1>6. CASE Dial(a)
  <2>1. PICK x \in Adapters \ open :
           /\ x # adapter
           /\ open' = open \cup {x}
           /\ actor' = [actor EXCEPT ![a].phase = "login", ![a].cand = x]
    BY <1>6 DEF Dial
  <2> DEFINE p == [actor[a] EXCEPT !.phase = "login", !.cand = x]
  <2>2. /\ p \in Programs /\ p.phase = "login" /\ p.cand = x /\ p.creds = actor[a].creds
        /\ p.job = actor[a].job /\ p.then = actor[a].then
    BY <1>2 DEF Programs, LockPhases
  <2>3. actor' = [actor EXCEPT ![a] = p]
    BY <2>1
  <2> HIDE DEF p
  <2>4. actor[a].creds # None
    BY <1>3, <1>6 DEF Dial, At, CredentialsSound
  <2>5. /\ actor[a].cand = None /\ UNCHANGED <<adapter, lock>>
        /\ \A y \in open' : y = adapter \/ y = x
        /\ \A c \in Actors \ {a} : actor[c].phase = "sent" =>
              actor[c].cand \in open' /\ actor[c].cand = adapter
    BY <1>2, <1>3, <1>6, <2>1 DEF Dial, At, TypeOK
  <2>6. HolderMay(a, p)
    BY <1>2, <1>3, <2>1, <2>2, <2>3, <2>4, <2>5 DEF HolderMay, TypeOK, LockPhases, Reconfigures
  <2>7. HolderKeeps
    BY <1>3, <1>6, <2>1 DEF Dial, HolderKeeps, TypeOK, AdaptersSound
  <2>8. QED BY <1>2, <2>6, <2>7, InsideLock
<1>7. CASE DialFails(a)
  <2>1. open = open \ {actor[a].cand}
    BY <1>2, <1>3, <1>7 DEF DialFails, At, TypeOK
  <2>2. QED BY <1>3, <1>7, <2>1, FailedKeepsSInv DEF DialFails, At, TypeOK
<1>8. CASE LoginSucceeds(a)
  <2> DEFINE p == [actor[a] EXCEPT !.phase = "swap"]
  <2>1. /\ p \in Programs /\ p.phase = "swap" /\ p.cand = actor[a].cand
        /\ p.creds = actor[a].creds /\ p.job = actor[a].job /\ p.then = actor[a].then
    BY <1>2 DEF Programs, LockPhases
  <2>2. actor' = [actor EXCEPT ![a] = p]
    BY <1>8 DEF LoginSucceeds, Goto
  <2> HIDE DEF p
  <2>3. actor[a].creds # None /\ actor[a].cand \in open /\ actor[a].cand # adapter
    BY <1>3, <1>8 DEF LoginSucceeds, At, CredentialsSound, AdaptersSound
  <2>4. HolderMay(a, p)
    BY <1>2, <1>3, <1>8, <2>1, <2>2, <2>3
       DEF LoginSucceeds, At, HolderMay, TypeOK, LockPhases, Reconfigures
  <2>5. HolderKeeps
    BY <1>2, <1>3, <1>8 DEF LoginSucceeds, HolderKeeps, TypeOK, AdaptersSound, Programs
  <2>6. QED BY <1>2, <2>4, <2>5, InsideLock
<1>9. CASE LoginFails(a)
  BY <1>2, <1>3, <1>9, FailedKeepsSInv DEF LoginFails, At, TypeOK, Programs
<1>10. CASE Swap(a)
  <2> DEFINE p == [actor[a] EXCEPT !.phase = "drop", !.cand = adapter]
  <2>1. /\ p \in Programs /\ p.phase = "drop" /\ p.cand = adapter
        /\ p.creds = actor[a].creds /\ p.job = actor[a].job /\ p.then = actor[a].then
    BY <1>2, <1>3 DEF Programs, LockPhases, TypeOK
  <2>2. actor' = [actor EXCEPT ![a] = p]
    BY <1>10 DEF Swap
  <2> HIDE DEF p
  <2>3. actor[a].creds # None /\ actor[a].cand \in open /\ actor[a].cand # adapter
    BY <1>3, <1>10 DEF Swap, At, CredentialsSound, AdaptersSound
  <2>4. HolderMay(a, p)
    BY <1>2, <1>3, <1>10, <2>1, <2>2, <2>3
       DEF Swap, At, HolderMay, TypeOK, LockPhases, Reconfigures
  <2>5. HolderKeeps
    BY <1>2, <1>3, <1>10, <2>3 DEF Swap, HolderKeeps, TypeOK, Programs
  <2>6. QED BY <1>2, <2>4, <2>5, InsideLock
<1>11. CASE Drop(a)
  <2>1. actor[a].cand # adapter
    BY <1>3, <1>11 DEF Drop, AdaptersSound
  <2>2. QED BY <1>1, <1>3, <1>11, <2>1, LeavingKeepsSInv DEF Drop, Dropped, TypeOK
<1>12. QED
  BY <1>4, <1>5, <1>6, <1>7, <1>8, <1>9, <1>10, <1>11 DEF LockStep

\* The invariant of the connection: the lock has one holder, an adapter in use
\* is open, and none is lost.
THEOREM ConnectionInvariant == Spec => []SInv
<1>1. SInv /\ [Next]_vars => SInv'
  <2> SUFFICES ASSUME SInv, [Next]_vars PROVE SInv'
    OBVIOUS
  <2>1. CASE Next
    BY <2>1, BeginningsKeepSInv, OrderStepsKeepSInv, AcquireKeepsSInv, LockStepsKeepSInv DEF Next
  <2>2. CASE UNCHANGED vars
    BY <2>2 DEF vars, SInv, TypeOK, LockHasHolder, AdaptersSound, CredentialsSound, NoCloseInFlight,
                NoLeakedConnections, At, Reconfigures
  <2>3. QED BY <2>1, <2>2
<1>2. QED BY InitSInv, <1>1, PTL DEF Spec

\* No recovery, restore or connect closes the connection order_send is on.
THEOREM OrdersKeepTheirConnection == Spec => []NoCloseInFlight
<1>1. SInv => NoCloseInFlight
  BY DEF SInv
<1>2. QED BY <1>1, ConnectionInvariant, PTL

\* No connection to the terminal is leaked.
THEOREM ConnectionsAreNotLeaked == Spec => []NoLeakedConnections
<1>1. SInv => NoLeakedConnections
  BY DEF SInv
<1>2. QED BY <1>1, ConnectionInvariant, PTL

-----------------------------------------------------------------------------
(* The orders a request places.                                            *)

\* A step of a thread that is not an order's leaves the order request alone.
LEMMA ThreadsPlaceNothing ==
  ASSUME TypeOK, OInv, NEW th \in Threads, NEW p,
         actor' = [actor EXCEPT ![th] = p],
         p.phase \notin OrderPhases, p.then = "done",
         UNCHANGED <<placed, reply>>
  PROVE  OInv'
<1>1. actor'[Loop] = actor[Loop]
  BY DEF TypeOK, Actors
<1>2. \A t \in Threads : actor'[t] = IF t = th THEN p ELSE actor[t]
  BY DEF TypeOK, Actors
<1>3. QED BY <1>1, <1>2 DEF OInv, OrderProgress, Progress, AtMostTwoOrders, SuccessIsPlaced

\* A step of the event loop.
LEMMA LoopProgresses ==
  ASSUME TypeOK, OInv, NEW p,
         actor' = [actor EXCEPT ![Loop] = p],
         Progress(p, placed'), placed' <= 2, reply' = "success" => placed' > 0
  PROVE  OInv'
<1>1. actor'[Loop] = p /\ \A t \in Threads : actor'[t] = actor[t]
  BY DEF TypeOK, Actors
<1>2. QED BY <1>1 DEF OInv, OrderProgress, AtMostTwoOrders, SuccessIsPlaced

\* Waiting for the connection, under the lock or not, is no progress.
LEMMA WaitingKeepsOInv ==
  ASSUME TypeOK, OInv, NEW a \in Actors, NEW p,
         actor' = [actor EXCEPT ![a] = p],
         actor[a].phase \notin OrderPhases, p.phase \notin OrderPhases,
         p.then = actor[a].then, p.last = actor[a].last, p.executed = actor[a].executed,
         UNCHANGED <<placed, reply>>
  PROVE  OInv'
<1>1. CASE a \in Threads
  <2>1. p.then = "done"
    BY <1>1 DEF OInv, OrderProgress
  <2>2. QED BY <1>1, <2>1, ThreadsPlaceNothing
<1>2. CASE a = Loop
  <2>1. Progress(p, placed)
    BY <1>2 DEF OInv, OrderProgress, Progress, OrderPhases
  <2>2. QED BY <1>2, <2>1, LoopProgresses DEF OInv, AtMostTwoOrders, SuccessIsPlaced
<1>3. QED BY <1>1, <1>2 DEF Actors

\* An actor that finishes with an answer, or without one.
LEMMA FinishingKeepsOInv ==
  ASSUME TypeOK, OInv, NEW a \in Actors, actor' = [actor EXCEPT ![a] = Idle],
         UNCHANGED placed,
         reply' = reply \/ (a = Loop /\ (reply' = "success" => placed > 0))
  PROVE  OInv'
<1>1. /\ Idle.phase \notin OrderPhases /\ Idle.then = "done" /\ ~Idle.executed
  BY DEF Idle, OrderPhases
<1>2. CASE a \in Threads
  BY <1>1, <1>2, ThreadsPlaceNothing
<1>3. CASE a = Loop
  <2>1. Progress(Idle, placed)
    BY <1>1 DEF Progress, OrderPhases
  <2>2. QED BY <1>3, <2>1, LoopProgresses DEF OInv, AtMostTwoOrders, SuccessIsPlaced
<1>4. QED BY <1>2, <1>3 DEF Actors

\* The method goes on, or ends, once its wait for the connection is over.
LEMMA ResumeKeepsOInv ==
  ASSUME TypeOK, OInv, NEW a \in Actors, NEW ok \in BOOLEAN, Resume(a, ok),
         actor[a].phase \notin OrderPhases, UNCHANGED placed
  PROVE  OInv'
<1>1. CASE actor[a].then = "done"
  <2>1. actor' = [actor EXCEPT ![a] = Idle] /\ UNCHANGED reply
    BY <1>1 DEF Resume
  <2>2. QED BY <2>1, FinishingKeepsOInv
<1>2. CASE actor[a].then \notin {"done", "verify"} /\ ~ok
  <2>1. a = Loop
    BY <1>2 DEF OInv, OrderProgress, Actors
  <2>2. actor' = [actor EXCEPT ![a] = Idle] /\ reply' = "failure"
    BY <1>2 DEF Resume, Answer
  <2>3. QED BY <2>1, <2>2, FinishingKeepsOInv
<1>3. CASE actor[a].then # "done" /\ (ok \/ actor[a].then = "verify")
  <2>1. a = Loop
    BY <1>3 DEF OInv, OrderProgress, Actors
  <2>2. actor[a] \in Programs
    BY DEF TypeOK
  <2> DEFINE then == actor[a].then
             last == actor[a].last \/ then = "attempt"
             p    == [actor[a] EXCEPT !.phase = PhaseAfter[then], !.cand = None, !.tries = 0,
                                      !.creds = None, !.then = "done", !.last = last]
  <2>3. actor' = [actor EXCEPT ![a] = p] /\ UNCHANGED reply
    BY <1>3 DEF Resume
  <2>4. /\ p.phase = PhaseAfter[then] /\ p.executed = actor[a].executed
        /\ p.last <=> (actor[a].last \/ then = "attempt")
    BY <2>2 DEF Programs
  <2>5. then \in {"attempt", "send", "ready", "verify"}
    BY <1>3, <2>2 DEF Programs
  <2>6. Progress(actor[a], placed)
    BY <2>1 DEF OInv, OrderProgress
  <2>7. Progress(p, placed)
    <3> HIDE DEF p
    <3>1. ~actor[a].executed
      BY <2>6 DEF Progress, OrderPhases
    <3>2. CASE then = "attempt"
      BY <2>4, <2>6, <3>1, <3>2 DEF Progress, PhaseAfter, OrderPhases, TypeOK
    <3>3. CASE then \in {"send", "ready"}
      BY <2>4, <2>6, <3>1, <3>3 DEF Progress, PhaseAfter, OrderPhases, TypeOK
    <3>4. CASE then = "verify"
      BY <2>4, <2>6, <3>1, <3>4 DEF Progress, PhaseAfter, OrderPhases, TypeOK
    <3>5. QED BY <2>5, <3>2, <3>3, <3>4
  <2>8. QED BY <2>1, <2>3, <2>7, LoopProgresses DEF OInv, AtMostTwoOrders, SuccessIsPlaced
<1>4. QED BY <1>1, <1>2, <1>3

\* Requests, jobs and snapshots begin.
LEMMA BeginningsKeepOInv ==
  ASSUME SInv, OInv
  PROVE  /\ BeginOrder => OInv'
         /\ \A l \in Logins : BeginConnect(l) => OInv'
         /\ \A th \in Threads : ThreadStep(th) => OInv'
<1> TypeOK /\ CredentialsSound /\ Loop \in Actors /\ Threads \subseteq Actors
  BY DEF Actors, SInv
<1> USE DEF At
<1>1. ASSUME BeginOrder PROVE OInv'
  <2> DEFINE p == [Idle EXCEPT !.phase = "ensure", !.job = "order"]
  <2>1. actor' = [actor EXCEPT ![Loop] = p] /\ placed' = 0 /\ reply' = "none"
    BY <1>1 DEF BeginOrder, CredentialsSound
  <2>2. Progress(p, 0)
    BY DEF Idle, Progress, OrderPhases
  <2> HIDE DEF p
  <2>3. Progress(p, placed')
    BY <2>1, <2>2
  <2>4. placed' <= 2 /\ reply' # "success"
    BY <2>1
  <2>5. QED BY <2>1, <2>3, <2>4, LoopProgresses
<1>2. ASSUME NEW l \in Logins, BeginConnect(l) PROVE OInv'
  <2> DEFINE p == [Idle EXCEPT !.phase = "lock", !.job = "connect", !.creds = l]
  <2>1. actor' = [actor EXCEPT ![Loop] = p] /\ UNCHANGED <<placed, reply>>
    BY <1>2 DEF BeginConnect, CredentialsSound
  <2>2. Progress(p, placed)
    BY DEF Idle, Progress, OrderPhases
  <2>3. QED BY <2>1, <2>2, LoopProgresses DEF OInv, AtMostTwoOrders, SuccessIsPlaced
<1>3. ASSUME NEW th \in Threads, ThreadStep(th) PROVE OInv'
  <2>1. UNCHANGED <<placed, reply>>
    BY <1>3 DEF ThreadStep, BeginRestore, RestoreChecks, BeginRecover, Snapshot
  <2>2. actor[th] \in Programs /\ actor[th].then = "done"
    BY DEF TypeOK, OInv, OrderProgress
  <2>3. PICK p : /\ actor' = [actor EXCEPT ![th] = p]
                 /\ p.phase \notin OrderPhases /\ p.then = "done"
    <3>1. CASE BeginRestore(th)
      <4> DEFINE q == [actor[th] EXCEPT !.phase = "loaded", !.job = "restore", !.creds = saved]
      <4>1. actor' = [actor EXCEPT ![th] = q]
        BY <3>1 DEF BeginRestore
      <4>2. q.phase \notin OrderPhases /\ q.then = "done"
        BY <2>2, <3>1 DEF Programs, OrderPhases
      <4> HIDE DEF q
      <4>3. QED BY <4>1, <4>2
    <3>2. CASE RestoreChecks(th)
      <4>1. CASE actor' = [actor EXCEPT ![th] = Idle]
        <5>1. Idle.phase \notin OrderPhases /\ Idle.then = "done"
          BY DEF Idle, OrderPhases
        <5>2. QED BY <4>1, <5>1
      <4>2. CASE actor' = Goto(th, "lock")
        <5> DEFINE q == [actor[th] EXCEPT !.phase = "lock"]
        <5>1. actor' = [actor EXCEPT ![th] = q]
          BY <4>2 DEF Goto
        <5>2. q.phase \notin OrderPhases /\ q.then = "done"
          BY <2>2, <4>2 DEF Programs, OrderPhases
        <5> HIDE DEF q
        <5>3. QED BY <5>1, <5>2
      <4>3. QED BY <3>2, <4>1, <4>2 DEF RestoreChecks
    <3>3. CASE BeginRecover(th)
      <4> DEFINE q == [actor[th] EXCEPT !.phase = "lock", !.job = "recover"]
      <4>1. actor' = [actor EXCEPT ![th] = q]
        BY <3>3 DEF BeginRecover
      <4>2. q.phase \notin OrderPhases /\ q.then = "done"
        BY <2>2, <3>3 DEF Programs, OrderPhases
      <4> HIDE DEF q
      <4>3. QED BY <4>1, <4>2
    <3>4. CASE Snapshot(th)
      <4>1. actor' = [actor EXCEPT ![th] = actor[th]]
        BY <3>4 DEF Snapshot, TypeOK
      <4>2. QED BY <4>1 DEF OInv, OrderProgress
    <3>5. QED BY <1>3, <3>1, <3>2, <3>3, <3>4 DEF ThreadStep
  <2>4. QED BY <2>1, <2>3, ThreadsPlaceNothing
<1>4. QED BY <1>1, <1>2, <1>3

\* The steps of the order request.
LEMMA OrderStepsKeepOInv ==
  ASSUME SInv, OInv, NEW a \in Actors, OrderStep(a) \/ BrokerExecutes(a)
  PROVE  OInv'
<1>1. actor[a].phase \in OrderPhases
  BY DEF OrderStep, BrokerExecutes, EnsureConnected, MethodRaises, MethodRefuses, ReadSymbol,
           PingFails,
         OrderSend, OrderAnswered, OrderDone, OrderRefused, OrderRaises, Verify, VerifyReconnects, At, OrderPhases
<1>2. a = Loop /\ TypeOK /\ actor[a] \in Programs /\ placed \in Nat
  BY <1>1 DEF OInv, OrderProgress, Actors, SInv, TypeOK
<1>3. Progress(actor[a], placed) /\ placed <= 2 /\ (reply = "success" => placed > 0)
  BY <1>2 DEF OInv, OrderProgress, AtMostTwoOrders, SuccessIsPlaced
<1>4. actor[a].executed => placed > 0 /\ actor[a].phase \in {"sent", "answered"}
  BY <1>3 DEF Progress
<1>5. ASSUME NEW next, actor' = Reconnecting(a, next), UNCHANGED <<placed, reply>>,
             \/ next = "attempt" /\ Protected(a)
             \/ next \in {"send", "ready"} /\ actor[a].phase \in {"ensure", "body", "send", "ready"}
             \/ next = "verify" /\ actor[a].phase = "verify"
      PROVE  OInv'
  <2> DEFINE p == [actor[a] EXCEPT !.phase = "lock", !.then = next, !.cand = None,
                                   !.executed = FALSE]
  <2>1. actor' = [actor EXCEPT ![a] = p]
    BY <1>5 DEF Reconnecting
  <2>2. /\ p.phase = "lock" /\ p.then = next /\ ~p.executed
        /\ p.last <=> actor[a].last
    BY <1>2 DEF Programs
  <2> HIDE DEF p
  <2>3. Progress(p, placed)
    BY <1>1, <1>2, <1>3, <1>5, <2>2 DEF Progress, OrderPhases, Protected
  <2>4. QED BY <1>2, <1>3, <1>5, <2>1, <2>3, LoopProgresses
<1>6. ASSUME NEW value, Answer(a, value), UNCHANGED placed, value = "success" => placed > 0
      PROVE  OInv'
  BY <1>2, <1>6, FinishingKeepsOInv DEF Answer
<1>7. ASSUME Raise(a), UNCHANGED placed PROVE OInv'
  BY <1>5, <1>6, <1>7 DEF Raise
<1>8. ASSUME NEW p, actor' = [actor EXCEPT ![a] = p], UNCHANGED reply,
             placed' = placed \/ placed' = placed + 1,
             Progress(p, placed'), p.phase \in OrderPhases
      PROVE  OInv'
  <2>1. placed' <= 2
    BY <1>2, <1>8 DEF Progress
  <2>2. reply' = "success" => placed' > 0
    BY <1>2, <1>3, <1>8
  <2>3. QED BY <1>2, <1>8, <2>1, <2>2, LoopProgresses
<1>9. CASE EnsureConnected(a)
  <2>1. CASE actor' = Goto(a, "body")
    <3> DEFINE p == [actor[a] EXCEPT !.phase = "body"]
    <3>1. actor' = [actor EXCEPT ![a] = p] /\ UNCHANGED <<placed, reply>>
      BY <1>9, <2>1 DEF EnsureConnected, Goto
    <3>2. Progress(p, placed) /\ p.phase \in OrderPhases
      BY <1>2, <1>3, <1>9 DEF EnsureConnected, At, Progress, OrderPhases, Programs
    <3> HIDE DEF p
    <3>3. placed' = placed /\ Progress(p, placed')
      BY <3>1, <3>2
    <3>4. QED BY <1>8, <3>1, <3>2, <3>3
  <2>2. CASE actor' = Reconnecting(a, "attempt")
    <3>1. Protected(a)
      BY <1>3, <1>9 DEF EnsureConnected, At, Progress, Protected
    <3>2. QED BY <1>5, <1>9, <2>2, <3>1 DEF EnsureConnected
  <2>3. QED BY <1>9, <2>1, <2>2 DEF EnsureConnected
<1>10. CASE MethodRaises(a)
  BY <1>7, <1>10 DEF MethodRaises
<1>11. CASE MethodRefuses(a)
  BY <1>6, <1>11 DEF MethodRefuses
<1>12. CASE ReadSymbol(a)
  <2>1. CASE actor' = Goto(a, "send")
    <3> DEFINE p == [actor[a] EXCEPT !.phase = "send"]
    <3>1. actor' = [actor EXCEPT ![a] = p] /\ UNCHANGED <<placed, reply>>
      BY <1>12, <2>1 DEF ReadSymbol, Goto
    <3>2. Progress(p, placed) /\ p.phase \in OrderPhases
      BY <1>2, <1>3, <1>12 DEF ReadSymbol, At, Progress, OrderPhases, Programs
    <3> HIDE DEF p
    <3>3. placed' = placed /\ Progress(p, placed')
      BY <3>1, <3>2
    <3>4. QED BY <1>8, <3>1, <3>2, <3>3
  <2>2. CASE actor' = Reconnecting(a, "send")
    BY <1>5, <1>12, <2>2 DEF ReadSymbol, At
  <2>3. QED BY <1>12, <2>1, <2>2 DEF ReadSymbol
<1>13. CASE PingFails(a)
  BY <1>5, <1>13 DEF PingFails, At
<1>14. CASE OrderSend(a)
  <2> DEFINE p == [actor[a] EXCEPT !.phase = "sent", !.cand = adapter]
  <2>1. actor' = [actor EXCEPT ![a] = p] /\ UNCHANGED reply /\ placed' = placed
    BY <1>14 DEF OrderSend
  <2>2. Progress(p, placed) /\ p.phase \in OrderPhases
    BY <1>2, <1>3, <1>4, <1>14 DEF OrderSend, At, Progress, OrderPhases, Programs
  <2> HIDE DEF p
  <2>3. Progress(p, placed')
    BY <2>1, <2>2
  <2>4. QED BY <1>8, <2>1, <2>2, <2>3
<1>15. CASE BrokerExecutes(a)
  <2> DEFINE p == [actor[a] EXCEPT !.executed = TRUE]
  <2>1. actor' = [actor EXCEPT ![a] = p] /\ UNCHANGED reply /\ placed' = placed + 1
    BY <1>15 DEF BrokerExecutes
  <2>2. Progress(p, placed + 1) /\ p.phase \in OrderPhases
    BY <1>2, <1>3, <1>4, <1>15 DEF BrokerExecutes, At, Progress, OrderPhases, Programs
  <2> HIDE DEF p
  <2>3. Progress(p, placed')
    BY <2>1, <2>2
  <2>4. QED BY <1>8, <2>1, <2>2, <2>3
<1>16. CASE OrderDone(a)
  <2> DEFINE p == [actor[a] EXCEPT !.phase = "verify", !.executed = FALSE]
  <2>1. actor' = [actor EXCEPT ![a] = p] /\ UNCHANGED reply /\ placed' = placed
    BY <1>16 DEF OrderDone
  <2>2. Progress(p, placed) /\ p.phase \in OrderPhases
    BY <1>2, <1>3, <1>4, <1>16 DEF OrderDone, Done, At, Progress, OrderPhases, Programs
  <2> HIDE DEF p
  <2>3. Progress(p, placed')
    BY <2>1, <2>2
  <2>4. QED BY <1>8, <2>1, <2>2, <2>3
<1>17. CASE OrderRefused(a)
  BY <1>6, <1>17 DEF OrderRefused
<1>18. CASE OrderRaises(a)
  BY <1>7, <1>18 DEF OrderRaises
<1>19. CASE Verify(a)
  <2>1. placed > 0
    BY <1>3, <1>19 DEF Verify, At, Progress
  <2>2. Answer(a, "success") /\ UNCHANGED placed
    BY <1>19 DEF Verify
  <2>3. QED BY <1>6, <2>1, <2>2
<1>20. CASE VerifyReconnects(a)
  BY <1>5, <1>20 DEF VerifyReconnects, At
<1>21. CASE OrderAnswered(a)
  <2> DEFINE p == [actor[a] EXCEPT !.phase = "answered"]
  <2>1. actor' = [actor EXCEPT ![a] = p] /\ UNCHANGED reply /\ placed' = placed
    BY <1>21 DEF OrderAnswered, Goto
  <2>2. Progress(p, placed) /\ p.phase \in OrderPhases
    BY <1>2, <1>3, <1>21 DEF OrderAnswered, At, Progress, OrderPhases, Programs
  <2> HIDE DEF p
  <2>3. Progress(p, placed')
    BY <2>1, <2>2
  <2>4. QED BY <1>8, <2>1, <2>2, <2>3
<1>22. QED
  BY <1>9, <1>10, <1>11, <1>12, <1>13, <1>14, <1>15, <1>16, <1>17, <1>18, <1>19, <1>20, <1>21
     DEF OrderStep

\* Taking the lock, and every step under it.
LEMMA LockStepsKeepOInv ==
  ASSUME SInv, OInv, NEW a \in Actors, Acquire(a) \/ LockStep(a)
  PROVE  OInv'
<1>1. /\ actor[a].phase \in {"lock"} \cup LockPhases /\ actor[a].phase \notin OrderPhases
      /\ UNCHANGED placed
  BY DEF Acquire, LockStep, StillConnected, TearDown, Dial, DialFails, LoginSucceeds, LoginFails,
         Swap, Drop, At, LockPhases, OrderPhases
<1>2. TypeOK /\ actor[a] \in Programs
  BY DEF SInv, TypeOK
<1>3. ASSUME Failed(a) PROVE OInv'
  <2>1. CASE lock' = None /\ Resume(a, FALSE)
    BY <1>1, <1>2, <2>1, ResumeKeepsOInv
  <2>2. CASE /\ actor' = [actor EXCEPT ![a].phase = "dial", ![a].cand = None,
                                       ![a].tries = Counted(a)]
             /\ UNCHANGED reply
    <3> DEFINE p == [actor[a] EXCEPT !.phase = "dial", !.cand = None, !.tries = Counted(a)]
    <3>1. actor' = [actor EXCEPT ![a] = p]
      BY <2>2
    <3>2. /\ p.phase \notin OrderPhases
          /\ p.then = actor[a].then /\ p.last = actor[a].last /\ p.executed = actor[a].executed
      BY <1>2 DEF Programs, OrderPhases
    <3> HIDE DEF p
    <3>3. QED BY <1>1, <1>2, <2>2, <3>1, <3>2, WaitingKeepsOInv
  <2>3. QED BY <1>3, <2>1, <2>2 DEF Failed
<1>4. CASE Acquire(a)
  <2> DEFINE p == [actor[a] EXCEPT !.phase = IF Reconfigures(a) THEN "dial" ELSE "locked",
                                   !.tries = 0]
  <2>1. actor' = [actor EXCEPT ![a] = p] /\ UNCHANGED reply
    BY <1>4 DEF Acquire
  <2>2. /\ p.phase \notin OrderPhases
        /\ p.then = actor[a].then /\ p.last = actor[a].last /\ p.executed = actor[a].executed
    BY <1>2 DEF Programs, OrderPhases
  <2> HIDE DEF p
  <2>3. QED BY <1>1, <1>2, <2>1, <2>2, WaitingKeepsOInv
<1>5. CASE StillConnected(a)
  BY <1>1, <1>2, <1>5, ResumeKeepsOInv DEF StillConnected
<1>6. CASE TearDown(a)
  <2> DEFINE p == [actor[a] EXCEPT !.phase = "dial", !.creds = login]
  <2>1. actor' = [actor EXCEPT ![a] = p] /\ UNCHANGED reply
    BY <1>6 DEF TearDown
  <2>2. /\ p.phase \notin OrderPhases
        /\ p.then = actor[a].then /\ p.last = actor[a].last /\ p.executed = actor[a].executed
    BY <1>2 DEF Programs, OrderPhases
  <2> HIDE DEF p
  <2>3. QED BY <1>1, <1>2, <2>1, <2>2, WaitingKeepsOInv
<1>7. CASE Dial(a)
  <2>0. PICK x : actor' = [actor EXCEPT ![a].phase = "login", ![a].cand = x]
    BY <1>7 DEF Dial
  <2> DEFINE p == [actor[a] EXCEPT !.phase = "login", !.cand = x]
  <2>1. actor' = [actor EXCEPT ![a] = p] /\ UNCHANGED reply
    BY ZenonT(60), <1>7, <2>0 DEF Dial
  <2>2. /\ p.phase \notin OrderPhases
        /\ p.then = actor[a].then /\ p.last = actor[a].last /\ p.executed = actor[a].executed
    BY <1>2 DEF Programs, OrderPhases
  <2> HIDE DEF p
  <2>3. QED BY <1>1, <1>2, <2>1, <2>2, WaitingKeepsOInv
<1>8. CASE DialFails(a)
  BY <1>3, <1>8 DEF DialFails
<1>9. CASE LoginSucceeds(a)
  <2> DEFINE p == [actor[a] EXCEPT !.phase = "swap"]
  <2>1. actor' = [actor EXCEPT ![a] = p] /\ UNCHANGED reply
    BY <1>9 DEF LoginSucceeds, Goto
  <2>2. /\ p.phase \notin OrderPhases
        /\ p.then = actor[a].then /\ p.last = actor[a].last /\ p.executed = actor[a].executed
    BY <1>2 DEF Programs, OrderPhases
  <2> HIDE DEF p
  <2>3. QED BY <1>1, <1>2, <2>1, <2>2, WaitingKeepsOInv
<1>10. CASE LoginFails(a)
  BY <1>3, <1>10 DEF LoginFails
<1>11. CASE Swap(a)
  <2> DEFINE p == [actor[a] EXCEPT !.phase = "drop", !.cand = adapter]
  <2>1. actor' = [actor EXCEPT ![a] = p] /\ UNCHANGED reply
    BY <1>11 DEF Swap
  <2>2. /\ p.phase \notin OrderPhases
        /\ p.then = actor[a].then /\ p.last = actor[a].last /\ p.executed = actor[a].executed
    BY <1>2 DEF Programs, OrderPhases
  <2> HIDE DEF p
  <2>3. QED BY <1>1, <1>2, <2>1, <2>2, WaitingKeepsOInv
<1>12. CASE Drop(a)
  BY <1>1, <1>2, <1>12, ResumeKeepsOInv DEF Drop
<1>13. QED
  BY <1>4, <1>5, <1>6, <1>7, <1>8, <1>9, <1>10, <1>11, <1>12 DEF LockStep

\* The invariant of the order request: how many orders it has placed, wherever
\* it is.
THEOREM OrderInvariant == Spec => []OInv
<1>1. Init => OInv
  <2> SUFFICES ASSUME Init PROVE OInv
    OBVIOUS
  <2>1. placed = 0 /\ reply = "none" /\ \A a \in Actors : actor[a] = Idle
    BY DEF Init
  <2>2. Idle.phase \notin OrderPhases /\ Idle.then = "done" /\ Progress(Idle, 0)
    BY DEF Idle, Progress, OrderPhases
  <2>3. QED
    BY <2>1, <2>2 DEF OInv, OrderProgress, AtMostTwoOrders, SuccessIsPlaced, Actors
<1>2. SInv /\ OInv /\ [Next]_vars => OInv'
  <2> SUFFICES ASSUME SInv, OInv, [Next]_vars PROVE OInv'
    OBVIOUS
  <2>1. CASE Next
    BY <2>1, BeginningsKeepOInv, OrderStepsKeepOInv, LockStepsKeepOInv DEF Next
  <2>2. CASE UNCHANGED vars
    BY <2>2 DEF vars, OInv, OrderProgress, Progress, AtMostTwoOrders, SuccessIsPlaced
  <2>3. QED BY <2>1, <2>2
<1>3. QED BY <1>1, <1>2, ConnectionInvariant, PTL DEF Spec

\* One order request places at most two orders, whatever fails around it.
THEOREM OrdersAreBounded == Spec => []AtMostTwoOrders
<1>1. OInv => AtMostTwoOrders
  BY DEF OInv
<1>2. QED BY <1>1, OrderInvariant, PTL

\* Only an order the broker executed is answered with "success".
THEOREM SuccessNeedsAnOrder == Spec => []SuccessIsPlaced
<1>1. OInv => SuccessIsPlaced
  BY DEF OInv
<1>2. QED BY <1>1, OrderInvariant, PTL
=============================================================================
