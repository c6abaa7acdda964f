----------------------------- MODULE RuntimePool -----------------------------
(***************************************************************************)
(* Isolated MT5 terminals: the persisted registry that gives every account *)
(* an endpoint of the configured pool, and the executors that API          *)
(* processes keep per account and connect to those endpoints.              *)
(*                                                                         *)
(* The registry is read, checked, changed and replaced under one thread    *)
(* lock and one file lock, hence in one step.                              *)
(***************************************************************************)
EXTENDS Integers, Sequences

CONSTANTS
    Accounts,   \* dashboard accounts
    Endpoints,  \* "host:port" of private terminals
    Pools,      \* values MT5_RUNTIME_ENDPOINTS may have
    Processes,  \* API processes that share the registry file
    Threads,    \* threads that run connect_account_executor
    ProcessOf,  \* the process of each thread
    None        \* no endpoint

\* configured_runtime_endpoints refuses an endpoint named twice.
ASSUME PoolAssumption ==
    /\ None \notin Endpoints
    /\ ProcessOf \in [Threads -> Processes]
    /\ \A q \in Pools : /\ q \in Seq(Endpoints)
                        /\ \A i, j \in DOMAIN q : q[i] = q[j] => i = j

VARIABLES
    pool,       \* the pool of the running deployment, empty when it is down
    registry,   \* account -> assigned endpoint, as persisted
    executors,  \* process -> account -> endpoint of its cached executor
    task        \* thread -> progress of connect_account_executor

vars == <<pool, registry, executors, task>>

Pooled == {pool[i] : i \in DOMAIN pool}

Free == [phase |-> "idle", account |-> None, endpoint |-> None]

Tasks == [phase    : {"idle", "resolved", "obtained"},
          account  : Accounts \cup {None},
          endpoint : Endpoints \cup {None}]

NoExecutors == [p \in Processes |-> [a \in Accounts |-> None]]

TypeOK ==
    /\ pool \in Pools \cup {<< >>}
    /\ registry \in [Accounts -> Endpoints \cup {None}]
    /\ executors \in [Processes -> [Accounts -> Endpoints \cup {None}]]
    /\ task \in [Threads -> Tasks]

\* The file may be left from any earlier deployment, even edited by hand.
Init ==
    /\ pool = << >>
    /\ registry \in [Accounts -> Endpoints \cup {None}]
    /\ executors = NoExecutors
    /\ task = [th \in Threads |-> Free]

\* Mutant: duplicate assignments are not looked for.
UniqueUnchecked(q) == TRUE

\* _validate_unique_assignments: no endpoint of the pool has two accounts.
Unique(q) ==
    \A a, b \in Accounts : \A i \in DOMAIN q :
        registry[a] = q[i] /\ registry[b] = q[i] => a = b

\* All processes stop and start again with a pool; a registry that collides
\* in it keeps them down.
Deploy(q) ==
    /\ pool' = IF Unique(q) THEN q ELSE << >>
    /\ executors' = NoExecutors
    /\ task' = [th \in Threads |-> Free]
    /\ UNCHANGED registry

\* Mutant: an assignment made by another process is not seen.
OccupiedUnseen(a) == {}

\* The endpoints of other accounts.
Occupied(a) == {registry[b] : b \in Accounts \ {a}}

\* Mutant: an assignment is taken over although the slot was retired.
KeepsRetired(a) == registry[a] # None

Keeps(a) == registry[a] \in Pooled

\* assign_runtime_endpoint: the account's endpoint while the pool has it, else
\* the first one of the pool that no other account has; none left is an error.
Assign(a, endpoint) ==
    /\ Unique(pool)
    /\ \/ /\ Keeps(a)
          /\ endpoint = registry[a]
          /\ UNCHANGED registry
       \/ /\ ~Keeps(a)
          /\ \E i \in DOMAIN pool :
                /\ pool[i] \notin Occupied(a)
                /\ \A j \in 1..(i - 1) : pool[j] \in Occupied(a)
                /\ endpoint = pool[i]
          /\ registry' = [registry EXCEPT ![a] = endpoint]

\* get_executor_for_account_id under _executors_lock: the cached executor, or
\* a new one for the assigned endpoint.
GetExecutor(p, a) ==
    \/ /\ executors[p][a] # None
       /\ UNCHANGED <<registry, executors>>
    \/ /\ executors[p][a] = None
       /\ \E endpoint \in Endpoints :
             /\ Assign(a, endpoint)
             /\ executors' = [executors EXCEPT ![p][a] = endpoint]

\* A route or the broadcaster asks for the account's executor.
Use(p, a) ==
    /\ executors[p][a] = None
    /\ GetExecutor(p, a)
    /\ UNCHANGED <<pool, task>>

\* connect_account_executor resolves the endpoint, gets the executor, then
\* reconfigures it to the endpoint it resolved first.
Resolve(th, a) ==
    /\ task[th].phase = "idle"
    /\ \E endpoint \in Endpoints :
          /\ Assign(a, endpoint)
          /\ task' = [task EXCEPT ![th] =
               [phase |-> "resolved", account |-> a, endpoint |-> endpoint]]
    /\ UNCHANGED <<pool, executors>>

Obtain(th) ==
    /\ task[th].phase = "resolved"
    /\ GetExecutor(ProcessOf[th], task[th].account)
    /\ task' = [task EXCEPT ![th].phase = "obtained"]
    /\ UNCHANGED pool

Reconfigure(th) ==
    /\ task[th].phase = "obtained"
    /\ executors' = [executors EXCEPT ![ProcessOf[th]][task[th].account] = task[th].endpoint]
    /\ task' = [task EXCEPT ![th] = Free]
    /\ UNCHANGED <<pool, registry>>

\* The login failed: the executor keeps the endpoint it had.
ReconfigureFails(th) ==
    /\ task[th].phase = "obtained"
    /\ task' = [task EXCEPT ![th] = Free]
    /\ UNCHANGED <<pool, registry, executors>>

Next ==
    \/ \E q \in Pools : Deploy(q)
    \/ \E p \in Processes, a \in Accounts : Use(p, a)
    \/ \E th \in Threads :
          \/ \E a \in Accounts : Resolve(th, a)
          \/ Obtain(th) \/ Reconfigure(th) \/ ReconfigureFails(th)

Spec == Init /\ [][Next]_vars
-----------------------------------------------------------------------------
\* Isolation (dependencies.py: every account a different private endpoint): no
\* two accounts are ever connected to one terminal, over all processes and
\* pools, after slots were retired and came back, whatever file was found.
NoSharedTerminal ==
    \A p, q \in Processes, a, b \in Accounts :
        executors[p][a] # None /\ executors[p][a] = executors[q][b] => a = b

\* The processes agree: an account has one terminal, the persisted one.
OneTerminal ==
    \A p \in Processes, a \in Accounts :
        executors[p][a] # None => executors[p][a] = registry[a] /\ registry[a] \in Pooled

\* assign_runtime_endpoint returns "the account's stable endpoint": it moves
\* only after a deployment retired it, and then to a slot nobody had.
StableEndpoint ==
    [][\A a \in Accounts : registry'[a] # registry[a] =>
          /\ registry[a] \notin Pooled
          /\ \A b \in Accounts \ {a} : registry[b] # registry'[a]]_vars

\* The inductive invariant: every executor and every endpoint on its way to
\* one is the persisted assignment of its account in a pool without duplicates.
PInv ==
    /\ TypeOK
    /\ Unique(pool)
    /\ OneTerminal
    /\ \A th \in Threads :
          task[th].phase # "idle" =>
             /\ task[th].account \in Accounts
             /\ task[th].endpoint = registry[task[th].account]
             /\ task[th].endpoint \in Pooled
=============================================================================
