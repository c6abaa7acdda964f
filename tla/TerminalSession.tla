--------------------------- MODULE TerminalSession ---------------------------
(***************************************************************************)
(* One account's MT5 executor and the terminal behind it.  Order and       *)
(* connect requests run on the event loop, one after the other; snapshots, *)
(* recoveries and restores run in threads.  The connection lock guards     *)
(* everything that replaces the adapter, not the order methods, which use  *)
(* whatever adapter they find.  An adapter's request lock is held during a *)
(* remote call and taken to close it; the answer of an order is an object  *)
(* of the remote side, and its fields are read without that lock.          *)
(***************************************************************************)
EXTENDS Integers

CONSTANTS
    Logins,      \* MT5 logins the user may save
    Adapters,    \* adapter objects, reused once nothing refers to them
    Threads,     \* worker threads
    Loop,        \* the event loop
    None,        \* no login, adapter or lock holder
    MaxAttempts  \* max_reconnect_attempts

ASSUME SessionAssumption ==
    /\ Loop \notin Threads
    /\ None \notin Logins \cup Adapters \cup Threads \cup {Loop}
    /\ MaxAttempts \in Nat \ {0}

VARIABLES
    saved,      \* login in the account's saved configuration
    login,      \* credentials of the executor
    adapter,    \* its adapter
    connected,  \* its connected flag
    open,       \* adapters with an open connection
    terminal,   \* login of the remote terminal session (external)
    lock,       \* holder of _connection_lock
    actor,      \* event loop and threads: where each one is
    placed,     \* orders the broker executed for the current order request
    reply       \* answer to the last order request

vars == <<saved, login, adapter, connected, open, terminal, lock, actor, placed, reply>>

Actors == Threads \cup {Loop}

Idle == [phase |-> "idle", job |-> "none", last |-> FALSE, creds |-> None,
         cand |-> None, tries |-> 0, then |-> "done", executed |-> FALSE]

\* Phases under the connection lock.
LockPhases == {"locked", "dial", "login", "drop", "swap"}

Programs == [phase    : {"idle", "ensure", "body", "send", "ready", "sent", "answered",
                         "verify", "reverify", "loaded", "lock"} \cup LockPhases,
             job      : {"none", "order", "connect", "restore", "recover"},
             last     : BOOLEAN,                  \* not protected by with_reconnect
             creds    : Logins \cup {None},       \* login in use
             cand     : Adapters \cup {None},     \* adapter at hand: dialled, dropped, or in
                                                  \* use by an order and its answer
             tries    : 0..MaxAttempts,           \* failed attempts to connect
             then     : {"attempt", "send", "ready", "verify", "done"},
             executed : BOOLEAN]                  \* the order in flight took effect

TypeOK ==
    /\ saved \in Logins
    /\ login \in Logins
    /\ adapter \in Adapters \cup {None}
    /\ connected \in BOOLEAN
    /\ open \subseteq Adapters
    /\ terminal \in Logins \cup {None}
    /\ lock \in Actors \cup {None}
    /\ actor \in [Actors -> Programs]
    /\ placed \in Nat
    /\ reply \in {"none", "success", "failure", "error"}

\* A new executor: credentials from the saved configuration, not connected.
Init ==
    /\ saved \in Logins
    /\ login = saved
    /\ adapter = None
    /\ connected = FALSE
    /\ open = {}
    /\ terminal \in Logins \cup {None}
    /\ lock = None
    /\ actor = [a \in Actors |-> Idle]
    /\ placed = 0
    /\ reply = "none"

At(a, phase) == actor[a].phase = phase

Goto(a, phase) == [actor EXCEPT ![a].phase = phase]

\* Mutant: adapters are closed without the request lock.
QuietUnchecked(x) == TRUE

\* No remote call holds the adapter's request lock.
Quiet(x) == \A a \in Actors : ~(At(a, "sent") /\ actor[a].cand = x)

-----------------------------------------------------------------------------
(* Requests and jobs begin.                                                *)

BeginOrder ==
    /\ At(Loop, "idle")
    /\ connected /\ adapter # None
    /\ actor' = [actor EXCEPT ![Loop].phase = "ensure", ![Loop].job = "order"]
    /\ placed' = 0
    /\ reply' = "none"
    /\ UNCHANGED <<saved, login, adapter, connected, open, terminal, lock>>

\* POST /connect saves the credentials first.
BeginConnect(l) ==
    /\ At(Loop, "idle")
    /\ saved' = l
    /\ actor' = [actor EXCEPT ![Loop].phase = "lock", ![Loop].job = "connect", ![Loop].creds = l]
    /\ UNCHANGED <<login, adapter, connected, open, terminal, lock, placed, reply>>

\* activate_account_runtime loads the saved configuration and looks at the
\* executor afterwards.
BeginRestore(th) ==
    /\ At(th, "idle")
    /\ actor' = [actor EXCEPT ![th].phase = "loaded", ![th].job = "restore", ![th].creds = saved]
    /\ UNCHANGED <<saved, login, adapter, connected, open, terminal, lock, placed, reply>>

RestoreChecks(th) ==
    /\ At(th, "loaded")
    /\ \/ /\ connected /\ adapter # None
          /\ Quiet(adapter)
          /\ actor' = [actor EXCEPT ![th] = Idle]
       \/ actor' = Goto(th, "lock")
    /\ UNCHANGED <<saved, login, adapter, connected, open, terminal, lock, placed, reply>>

BeginRecover(th) ==
    /\ At(th, "idle")
    /\ actor' = [actor EXCEPT ![th].phase = "lock", ![th].job = "recover"]
    /\ UNCHANGED <<saved, login, adapter, connected, open, terminal, lock, placed, reply>>

\* get_dashboard_snapshot: under the lock; a failed ping clears the flag.
Snapshot(th) ==
    /\ At(th, "idle")
    /\ lock = None
    /\ adapter # None
    /\ Quiet(adapter)
    /\ connected' = FALSE
    /\ UNCHANGED <<saved, login, adapter, open, terminal, lock, actor, placed, reply>>

-----------------------------------------------------------------------------
(* execute_signal under with_reconnect.                                    *)

\* Wait for the connection lock to reconnect; go on with next afterwards.
Reconnecting(a, next) == [actor EXCEPT ![a].phase = "lock", ![a].then = next,
                                       ![a].cand = None, ![a].executed = FALSE]

Answer(a, value) ==
    /\ reply' = value
    /\ actor' = [actor EXCEPT ![a] = Idle]

EnsureConnected(a) ==
    /\ At(a, "ensure")
    /\ \/ /\ connected /\ adapter # None
          /\ actor' = Goto(a, "body")
          /\ UNCHANGED connected
       \/ /\ connected' = FALSE
          /\ actor' = Reconnecting(a, "attempt")
    /\ UNCHANGED <<saved, login, adapter, open, terminal, lock, placed, reply>>

\* Mutant: the repeated attempt is repeated as well.
ProtectedAlways(a) == TRUE

Protected(a) == ~actor[a].last

\* An exception leaves the method: reconnect and call it again, once.
Raise(a) ==
    \/ /\ Protected(a)
       /\ connected' = FALSE
       /\ actor' = Reconnecting(a, "attempt")
       /\ UNCHANGED reply
    \/ /\ ~Protected(a)
       /\ Answer(a, "error")
       /\ UNCHANGED connected

MethodRaises(a) ==
    /\ actor[a].phase \in {"body", "send", "ready"}
    /\ Raise(a)
    /\ UNCHANGED <<saved, login, adapter, open, terminal, lock, placed>>

\* Not connected, no symbol, no price, an adapter closed before the call: an
\* answer without an order.
MethodRefuses(a) ==
    /\ actor[a].phase \in {"body", "send", "ready"}
    /\ Answer(a, "failure")
    /\ UNCHANGED <<saved, login, adapter, connected, open, terminal, lock, placed>>

\* get_symbol_info has a with_reconnect of its own.
ReadSymbol(a) ==
    /\ At(a, "body")
    /\ \/ /\ adapter # None
          /\ actor' = Goto(a, "send")
          /\ UNCHANGED connected
       \/ /\ connected' = FALSE
          /\ actor' = Reconnecting(a, "send")
    /\ UNCHANGED <<saved, login, adapter, open, terminal, lock, placed, reply>>

\* The ping before the order failed.
PingFails(a) ==
    /\ At(a, "send")
    /\ adapter # None
    /\ actor' = Reconnecting(a, "ready")
    /\ UNCHANGED <<saved, login, adapter, connected, open, terminal, lock, placed, reply>>

OrderSend(a) ==
    /\ actor[a].phase \in {"send", "ready"}
    /\ adapter # None
    /\ actor' = [actor EXCEPT ![a].phase = "sent", ![a].cand = adapter]
    /\ UNCHANGED <<saved, login, adapter, connected, open, terminal, lock, placed, reply>>

\* The terminal executes the order in flight (external).
BrokerExecutes(a) ==
    /\ At(a, "sent")
    /\ ~actor[a].executed
    /\ terminal # None
    /\ placed' = placed + 1
    /\ actor' = [actor EXCEPT ![a].executed = TRUE]
    /\ UNCHANGED <<saved, login, adapter, connected, open, terminal, lock, reply>>

\* _eval returns a reference to the answer and releases the request lock.
OrderAnswered(a) ==
    /\ At(a, "sent")
    /\ actor' = Goto(a, "answered")
    /\ UNCHANGED <<saved, login, adapter, connected, open, terminal, lock, placed, reply>>

\* The fields of the answer can be read while its connection is open.
Readable(a) == actor[a].cand \in open

\* Mutant: every answer counts as TRADE_RETCODE_DONE.
DoneUnread(a) == TRUE

Done(a) == actor[a].executed

OrderDone(a) ==
    /\ At(a, "answered")
    /\ adapter # None
    /\ Readable(a)
    /\ Done(a)
    /\ actor' = [actor EXCEPT ![a].phase = "verify", ![a].executed = FALSE]
    /\ UNCHANGED <<saved, login, adapter, connected, open, terminal, lock, placed, reply>>

\* Another retcode, or no answer object at all.
OrderRefused(a) ==
    /\ At(a, "answered")
    /\ adapter # None
    /\ ~actor[a].executed
    /\ Answer(a, "failure")
    /\ UNCHANGED <<saved, login, adapter, connected, open, terminal, lock, placed>>

\* The connection broke, was closed before the answer was read, or the call
\* timed out, whatever became of the order.
OrderRaises(a) ==
    /\ actor[a].phase \in {"sent", "answered", "verify", "reverify"}
    /\ Raise(a)
    /\ UNCHANGED <<saved, login, adapter, open, terminal, lock, placed>>

\* get_position and modify_position check the stop levels of the new position;
\* the price of the answer is read last.
Verify(a) ==
    /\ At(a, "verify")
    /\ Readable(a)
    /\ Answer(a, "success")
    /\ UNCHANGED <<saved, login, adapter, connected, open, terminal, lock, placed>>

\* They reconnect on their own, which closes the connection of the answer.
VerifyReconnects(a) ==
    /\ At(a, "verify")
    /\ connected' = FALSE
    /\ actor' = Reconnecting(a, "verify")
    /\ UNCHANGED <<saved, login, adapter, open, terminal, lock, placed, reply>>

-----------------------------------------------------------------------------
(* Under the connection lock: _reconnect and reconfigure.                  *)

Reconfigures(a) == actor[a].job \in {"connect", "restore"}

Free == lock = None

\* reconfigure dials at once; recover_connection clears the flag first.
Acquire(a) ==
    /\ At(a, "lock")
    /\ Free
    /\ lock' = a
    /\ actor' = [actor EXCEPT ![a].phase = IF Reconfigures(a) THEN "dial" ELSE "locked",
                              ![a].tries = 0]
    /\ connected' = (connected /\ actor[a].job # "recover")
    /\ UNCHANGED <<saved, login, adapter, open, terminal, placed, reply>>

\* Where a method that waited for the connection goes on.
PhaseAfter == [attempt |-> "body", send |-> "send", ready |-> "ready", verify |-> "reverify"]

\* The rest of the method that asked for the connection.
Resume(a, ok) ==
    LET then == actor[a].then
    IN  \/ /\ then # "done" /\ (ok \/ then = "verify")
           /\ actor' = [actor EXCEPT ![a].phase = PhaseAfter[then], ![a].cand = None,
                                     ![a].tries = 0, ![a].creds = None, ![a].then = "done",
                                     ![a].last = @ \/ then = "attempt"]
           /\ UNCHANGED reply
        \/ /\ then \in {"attempt", "send", "ready"} /\ ~ok
           /\ Answer(a, "failure")
        \/ /\ then = "done"
           /\ actor' = [actor EXCEPT ![a] = Idle]
           /\ UNCHANGED reply

\* Another actor reconnected meanwhile: the ping succeeds.
StillConnected(a) ==
    /\ At(a, "locked")
    /\ adapter # None /\ connected
    /\ Quiet(adapter)
    /\ lock' = None
    /\ Resume(a, TRUE)
    /\ UNCHANGED <<saved, login, adapter, connected, open, terminal, placed>>

TearDown(a) ==
    /\ At(a, "locked")
    /\ Quiet(adapter)
    /\ open' = open \ {adapter}
    /\ adapter' = None
    /\ connected' = FALSE
    /\ actor' = [actor EXCEPT ![a].phase = "dial", ![a].creds = login]
    /\ UNCHANGED <<saved, login, terminal, lock, placed, reply>>

\* A new adapter connects, and its login shuts the remote session down.
Dial(a) ==
    /\ At(a, "dial")
    /\ \E x \in Adapters \ open :
          /\ x # adapter
          /\ \A b \in Actors : actor[b].cand # x
          /\ open' = open \cup {x}
          /\ actor' = [actor EXCEPT ![a].phase = "login", ![a].cand = x]
    /\ terminal' = None
    /\ UNCHANGED <<saved, login, adapter, connected, lock, placed, reply>>

Attempts(a) == IF Reconfigures(a) THEN 1 ELSE MaxAttempts

\* Mutant: failed attempts are not counted.
CountedNever(a) == actor[a].tries

Counted(a) == actor[a].tries + 1

\* Another attempt, or the end of the method that needed the connection.
Failed(a) ==
    \/ /\ Counted(a) < Attempts(a)
       /\ actor' = [actor EXCEPT ![a].phase = "dial", ![a].cand = None, ![a].tries = Counted(a)]
       /\ UNCHANGED <<lock, reply>>
    \/ /\ Counted(a) >= Attempts(a)
       /\ lock' = None
       /\ Resume(a, FALSE)

DialFails(a) ==
    /\ At(a, "dial")
    /\ Failed(a)
    /\ UNCHANGED <<saved, login, adapter, connected, open, terminal, placed>>

LoginSucceeds(a) ==
    /\ At(a, "login")
    /\ terminal' = actor[a].creds
    /\ actor' = Goto(a, "swap")
    /\ UNCHANGED <<saved, login, adapter, connected, open, lock, placed, reply>>

\* Refused, or logged in and then broken.
LoginFails(a) ==
    /\ At(a, "login")
    /\ terminal' \in {None, actor[a].creds}
    /\ open' = open \ {actor[a].cand}
    /\ Failed(a)
    /\ UNCHANGED <<saved, login, adapter, connected, placed>>

\* _activate_adapter: swap the adapters, then close the old one.
Swap(a) ==
    /\ At(a, "swap")
    /\ login' = actor[a].creds
    /\ adapter' = actor[a].cand
    /\ connected' = TRUE
    /\ actor' = [actor EXCEPT ![a].phase = "drop", ![a].cand = adapter]
    /\ UNCHANGED <<saved, open, terminal, lock, placed, reply>>

\* Mutant: the replaced adapter is forgotten, not closed.
DroppedNothing(a) == open

Dropped(a) == open \ {actor[a].cand}

Drop(a) ==
    /\ At(a, "drop")
    /\ Quiet(actor[a].cand)
    /\ open' = Dropped(a)
    /\ lock' = None
    /\ Resume(a, TRUE)
    /\ UNCHANGED <<saved, login, adapter, connected, terminal, placed>>

-----------------------------------------------------------------------------
OrderStep(a) ==
    \/ EnsureConnected(a) \/ MethodRaises(a) \/ MethodRefuses(a) \/ ReadSymbol(a)
    \/ PingFails(a) \/ OrderSend(a) \/ OrderAnswered(a) \/ OrderDone(a) \/ OrderRefused(a)
    \/ OrderRaises(a) \/ Verify(a) \/ VerifyReconnects(a)

LockStep(a) ==
    \/ StillConnected(a) \/ TearDown(a) \/ Dial(a) \/ DialFails(a)
    \/ LoginSucceeds(a) \/ LoginFails(a) \/ Swap(a) \/ Drop(a)

ThreadStep(th) ==
    BeginRestore(th) \/ RestoreChecks(th) \/ BeginRecover(th) \/ Snapshot(th)

Next ==
    \/ BeginOrder
    \/ \E l \in Logins : BeginConnect(l)
    \/ \E th \in Threads : ThreadStep(th)
    \/ \E a \in Actors : OrderStep(a) \/ BrokerExecutes(a) \/ Acquire(a) \/ LockStep(a)

Spec == Init /\ [][Next]_vars

\* Remote calls end, at the latest with the timeout of RPyC; attempts to
\* connect are counted.  The lock is fair enough for the event loop: threads
\* use it for a moment once in a broadcast interval.
Fairness ==
    /\ WF_vars(OrderStep(Loop))
    /\ SF_vars(Acquire(Loop))
    /\ \A a \in Actors : WF_vars(LockStep(a))

FairSpec == Spec /\ Fairness
-----------------------------------------------------------------------------
\* A recovery, a restore or a connect never closes the connection under the
\* call order_send, though it may swap the executor's adapter meanwhile.  The
\* answer has no such protection: it is read when the call has ended.
NoCloseInFlight == \A a \in Actors : At(a, "sent") => actor[a].cand \in open

\* However connects, recoveries and failures interleave, no connection to the
\* terminal is leaked: besides the executor's only the lock holder has one.
NoLeakedConnections ==
    \A x \in open : \/ x = adapter
                    \/ \E a \in Actors : lock = a /\ actor[a].cand = x

\* One order request places two orders at most, though the calls around
\* order_send reconnect and repeat on their own.
AtMostTwoOrders == placed <= 2

\* "success" is answered only for an order the broker executed, through
\* every reconnect on the way.
SuccessIsPlaced == reply = "success" => placed > 0

\* Every request on the event loop is answered: recoveries and restores that
\* hold the connection lock do not block the API for ever.
EveryCallReturns == ~At(Loop, "idle") ~> At(Loop, "idle")

\* executor.py, reconfigure: "The current connection is left untouched if the
\* new login fails."
FailedReconfigureKeepsSession ==
    [][\A a \in Actors :
         LoginFails(a) /\ Reconfigures(a) /\ connected => terminal' = login]_vars

-----------------------------------------------------------------------------
\* The lock has the holder the phases say.
LockHasHolder == \A a \in Actors : actor[a].phase \in LockPhases <=> lock = a

\* The executor's adapter has an open connection, and an adapter in hand is
\* being connected, being dropped, or in use by an order and its answer.
AdaptersSound ==
    /\ connected => adapter # None
    /\ adapter # None => adapter \in open
    /\ \A a \in Actors :
          /\ actor[a].cand # None => actor[a].phase \in {"login", "swap", "drop", "sent", "answered", "verify"}
          /\ actor[a].phase \in {"login", "swap"} => /\ actor[a].cand \in open
                                                     /\ actor[a].cand # adapter
          /\ At(a, "drop") => actor[a].cand # adapter
          /\ At(a, "sent") => \/ actor[a].cand = adapter
                              \/ \E b \in Actors : At(b, "drop") /\ actor[b].cand = actor[a].cand

\* Whoever dials has credentials; a connect or a restore keeps its own.  An
\* actor that has finished remembers nothing.
CredentialsSound ==
    \A a \in Actors :
       /\ actor[a].phase \in {"dial", "login", "swap"} => actor[a].creds # None
       /\ Reconfigures(a) => /\ actor[a].creds # None
                             /\ actor[a].then = "done"
                             /\ actor[a].phase \in {"loaded", "lock"} \cup LockPhases
       /\ At(a, "loaded") => Reconfigures(a)
       /\ At(a, "idle") => actor[a] = Idle

\* The inductive invariant of the connection.
SInv ==
    /\ TypeOK
    /\ LockHasHolder
    /\ AdaptersSound
    /\ CredentialsSound
    /\ NoCloseInFlight
    /\ NoLeakedConnections

OrderPhases == {"ensure", "body", "send", "ready", "sent", "answered", "verify", "reverify"}

\* How many orders a request at p has placed: its first attempt places one,
\* the repeated attempt another.
Progress(p, n) ==
    LET before == IF p.last THEN 1 ELSE 0
    IN  /\ p.phase = "ensure" => ~p.last
        /\ p.executed => p.phase \in {"sent", "answered"} /\ n > 0
        /\ p.phase \in OrderPhases => n <= before + 1
        /\ p.phase \in {"ensure", "body", "send", "ready"} => n <= before
        /\ p.phase \in {"sent", "answered"} /\ ~p.executed => n <= before
        /\ p.phase \in {"verify", "reverify"} => n > 0
        /\ p.phase \notin OrderPhases =>
              /\ p.then = "attempt" => n <= 1 /\ ~p.last
              /\ p.then \in {"send", "ready"} => n <= before
              /\ p.then = "verify" => n > 0 /\ n <= before + 1

OrderProgress ==
    /\ \A th \in Threads : actor[th].phase \notin OrderPhases /\ actor[th].then = "done"
    /\ Progress(actor[Loop], placed)

\* The inductive invariant of the order request.
OInv == OrderProgress /\ AtMostTwoOrders /\ SuccessIsPlaced
=============================================================================
