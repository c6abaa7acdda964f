-------------------------- MODULE RuntimePoolProofs --------------------------
(***************************************************************************)
(* Terminals are never shared, for any accounts, pools and processes.      *)
(***************************************************************************)
EXTENDS RuntimePool, TLAPS

\* What assign_runtime_endpoint does to the registry: the account gets its
\* endpoint from the pool, nobody else has it, assignments in the pool stay.
LEMMA AssignEffect ==
  ASSUME PInv, NEW a \in Accounts, NEW endpoint \in Endpoints, Assign(a, endpoint)
  PROVE  /\ registry' \in [Accounts -> Endpoints \cup {None}]
         /\ registry'[a] = endpoint
         /\ endpoint \in Pooled
         /\ \A b \in Accounts \ {a} : registry'[b] = registry[b] /\ registry[b] # endpoint
         /\ \A b \in Accounts : registry[b] \in Pooled => registry'[b] = registry[b]
  <1>1. registry \in [Accounts -> Endpoints \cup {None}] /\ Unique(pool)
    BY DEF PInv, TypeOK
  <1>2. CASE Keeps(a) /\ endpoint = registry[a] /\ UNCHANGED registry
    BY <1>1, <1>2 DEF Keeps, Unique, Pooled
  <1>3. CASE ~Keeps(a) /\ registry' = [registry EXCEPT ![a] = endpoint]
             /\ \E i \in DOMAIN pool : pool[i] \notin Occupied(a) /\ endpoint = pool[i]
    BY <1>1, <1>3 DEF Keeps, Occupied, Pooled
  <1>4. QED
    BY <1>2, <1>3 DEF Assign

\* After an assignment the pool is still free of duplicates and everything
\* that relied on the registry still does.
LEMMA AssignInv ==
  ASSUME PInv, NEW a \in Accounts, NEW endpoint \in Endpoints, Assign(a, endpoint),
         UNCHANGED pool
  PROVE  /\ Unique(pool)'
         /\ Pooled' = Pooled
         /\ \A b \in Accounts, e \in Pooled : registry[b] = e => registry'[b] = e
  <1>1. Pooled' = Pooled
    BY DEF Pooled
  <1>2. Unique(pool)'
    BY AssignEffect DEF PInv, Unique
  <1>3. QED
    BY <1>1, <1>2, AssignEffect

LEMMA GetExecutorInv ==
  ASSUME PInv, NEW p \in Processes, NEW a \in Accounts, GetExecutor(p, a), UNCHANGED pool
  PROVE  /\ registry' \in [Accounts -> Endpoints \cup {None}]
         /\ executors' \in [Processes -> [Accounts -> Endpoints \cup {None}]]
         /\ Unique(pool)' /\ OneTerminal' /\ Pooled' = Pooled
         /\ \A b \in Accounts, e \in Pooled : registry[b] = e => registry'[b] = e
  <1>1. CASE UNCHANGED <<registry, executors>>
    BY <1>1 DEF PInv, TypeOK, Unique, OneTerminal, Pooled
  <1>2. ASSUME NEW endpoint \in Endpoints, Assign(a, endpoint),
               executors' = [executors EXCEPT ![p][a] = endpoint]
        PROVE  /\ registry' \in [Accounts -> Endpoints \cup {None}]
               /\ executors' \in [Processes -> [Accounts -> Endpoints \cup {None}]]
               /\ Unique(pool)' /\ OneTerminal' /\ Pooled' = Pooled
               /\ \A b \in Accounts, e \in Pooled : registry[b] = e => registry'[b] = e
    <2>1. /\ registry' \in [Accounts -> Endpoints \cup {None}]
          /\ registry'[a] = endpoint /\ endpoint \in Pooled
      BY <1>2, AssignEffect
    <2>2. /\ Unique(pool)' /\ Pooled' = Pooled
          /\ \A b \in Accounts, e \in Pooled : registry[b] = e => registry'[b] = e
      BY <1>2, AssignInv
    <2>3. executors' \in [Processes -> [Accounts -> Endpoints \cup {None}]]
      BY <1>2 DEF PInv, TypeOK
    <2>4. ASSUME NEW r \in Processes, NEW b \in Accounts, executors'[r][b] # None
          PROVE  executors'[r][b] = registry'[b] /\ registry'[b] \in Pooled'
      <3>1. CASE r = p /\ b = a
        BY <1>2, <2>1, <2>2, <3>1 DEF PInv, TypeOK
      <3>2. CASE ~(r = p /\ b = a)
        <4>1. executors'[r][b] = executors[r][b]
          BY <1>2, <3>2 DEF PInv, TypeOK
        <4>2. executors[r][b] = registry[b] /\ registry[b] \in Pooled
          BY <2>4, <4>1 DEF PInv, OneTerminal
        <4>3. QED BY <2>2, <4>1, <4>2
      <3>3. QED BY <3>1, <3>2
    <2>5. QED BY <2>1, <2>2, <2>3, <2>4 DEF OneTerminal
  <1>3. QED
    BY <1>1, <1>2 DEF GetExecutor
-----------------------------------------------------------------------------
LEMMA PInvInit == Init => PInv
  <1> SUFFICES ASSUME Init PROVE PInv
    OBVIOUS
  <1>1. TypeOK
    BY DEF Init, TypeOK, NoExecutors, Free, Tasks
  <1>2. Unique(pool) /\ OneTerminal
    BY DEF Init, Unique, OneTerminal, NoExecutors
  <1>3. \A th \in Threads : task[th].phase = "idle"
    BY DEF Init, Free
  <1>4. QED
    BY <1>1, <1>2, <1>3 DEF PInv

LEMMA PInvNext == PInv /\ [Next]_vars => PInv'
  <1> SUFFICES ASSUME PInv, [Next]_vars PROVE PInv'
    OBVIOUS
  <1> USE DEF TypeOK, Tasks
  <1>1. ASSUME NEW q \in Pools, Deploy(q) PROVE PInv'
    <2>1. TypeOK'
      BY <1>1 DEF PInv, Deploy, NoExecutors, Free
    <2>2. Unique(pool)'
      BY <1>1 DEF Deploy, Unique
    <2>3. OneTerminal'
      BY <1>1 DEF Deploy, OneTerminal, NoExecutors
    <2>4. \A th \in Threads : task'[th].phase = "idle"
      BY <1>1 DEF Deploy, Free
    <2>5. QED
      BY <2>1, <2>2, <2>3, <2>4 DEF PInv
  <1>2. ASSUME NEW p \in Processes, NEW a \in Accounts, Use(p, a) PROVE PInv'
    <2>1. UNCHANGED <<pool, task>> /\ GetExecutor(p, a)
      BY <1>2 DEF Use
    <2>2. QED
      BY <2>1, GetExecutorInv DEF PInv
  <1>3. ASSUME NEW th \in Threads, NEW a \in Accounts, Resolve(th, a) PROVE PInv'
    <2>1. PICK endpoint \in Endpoints :
             /\ Assign(a, endpoint)
             /\ task' = [task EXCEPT ![th] =
                  [phase |-> "resolved", account |-> a, endpoint |-> endpoint]]
      BY <1>3 DEF Resolve
    <2>2. UNCHANGED <<pool, executors>>
      BY <1>3 DEF Resolve
    <2>3. /\ Unique(pool)' /\ Pooled' = Pooled
          /\ \A b \in Accounts, e \in Pooled : registry[b] = e => registry'[b] = e
      BY <2>1, <2>2, AssignInv
    <2>4. /\ registry' \in [Accounts -> Endpoints \cup {None}]
          /\ registry'[a] = endpoint /\ endpoint \in Pooled
      BY <2>1, AssignEffect
    <2>5. TypeOK'
      BY <2>1, <2>2, <2>4 DEF PInv
    <2>6. OneTerminal'
      BY <2>2, <2>3 DEF PInv, OneTerminal
    <2>7. \A h \in Threads : task'[h].phase # "idle" =>
             /\ task'[h].account \in Accounts
             /\ task'[h].endpoint = registry'[task'[h].account]
             /\ task'[h].endpoint \in Pooled'
      BY <2>1, <2>3, <2>4 DEF PInv
    <2>8. QED
      BY <2>3, <2>5, <2>6, <2>7 DEF PInv
  <1>4. ASSUME NEW th \in Threads, Obtain(th) PROVE PInv'
    <2>1. /\ task[th].account \in Accounts /\ ProcessOf[th] \in Processes
          /\ GetExecutor(ProcessOf[th], task[th].account)
          /\ UNCHANGED pool
          /\ task[th].phase # "idle"
          /\ task' = [task EXCEPT ![th].phase = "obtained"]
      BY <1>4, PoolAssumption DEF Obtain, PInv
    <2>2. /\ registry' \in [Accounts -> Endpoints \cup {None}]
          /\ executors' \in [Processes -> [Accounts -> Endpoints \cup {None}]]
          /\ Unique(pool)' /\ OneTerminal' /\ Pooled' = Pooled
          /\ \A b \in Accounts, e \in Pooled : registry[b] = e => registry'[b] = e
      BY <2>1, GetExecutorInv
    <2>3. \A h \in Threads : /\ task'[h].account = task[h].account
                             /\ task'[h].endpoint = task[h].endpoint
                             /\ task'[h].phase # "idle" => task[h].phase # "idle"
      BY <2>1 DEF PInv
    <2>4. task' \in [Threads -> Tasks]
      BY <2>1 DEF PInv
    <2>5. QED
      BY <2>1, <2>2, <2>3, <2>4 DEF PInv
  <1>5. ASSUME NEW th \in Threads, Reconfigure(th) PROVE PInv'
    <2>1. /\ task[th].account \in Accounts /\ ProcessOf[th] \in Processes
          /\ task[th].endpoint = registry[task[th].account]
          /\ task[th].endpoint \in Pooled
          /\ executors' = [executors EXCEPT ![ProcessOf[th]][task[th].account] = task[th].endpoint]
          /\ task' = [task EXCEPT ![th] = Free]
          /\ UNCHANGED <<pool, registry>>
      BY <1>5, PoolAssumption DEF Reconfigure, PInv
    <2>2. TypeOK'
      BY <2>1 DEF PInv, Free
    <2>3. OneTerminal'
      BY <2>1 DEF PInv, OneTerminal, Pooled
    <2>4. Unique(pool)'
      BY <2>1 DEF PInv, Unique
    <2>5. QED
      BY <2>1, <2>2, <2>3, <2>4 DEF PInv, Free, Pooled
  <1>6. ASSUME NEW th \in Threads, ReconfigureFails(th) PROVE PInv'
    BY <1>6 DEF ReconfigureFails, PInv, Free, OneTerminal, Unique, Pooled
  <1>7. CASE UNCHANGED vars
    BY <1>7 DEF vars, PInv, OneTerminal, Unique, Pooled
  <1>8. QED
    BY <1>1, <1>2, <1>3, <1>4, <1>5, <1>6, <1>7 DEF Next

\* The inductive invariant of the pool holds in every reachable state.
THEOREM PoolInvariant == Spec => []PInv
  BY PInvInit, PInvNext, PTL DEF Spec

\* No two accounts are ever connected to one terminal, whatever the pools, the
\* number of processes and the registry file found at the start.
THEOREM TerminalsAreIsolated == Spec => []NoSharedTerminal
  <1>1. PInv => NoSharedTerminal
    BY DEF PInv, OneTerminal, NoSharedTerminal, Unique, Pooled
  <1>2. QED
    BY <1>1, PoolInvariant, PTL

\* An assignment moves only after its endpoint was retired, to a free one.
THEOREM EndpointsAreStable == Spec => StableEndpoint
  <1> DEFINE Moves == \A a \in Accounts : registry'[a] # registry[a] =>
          /\ registry[a] \notin Pooled
          /\ \A b \in Accounts \ {a} : registry[b] # registry'[a]
  <1>1. ASSUME PInv, [Next]_vars PROVE Moves \/ UNCHANGED vars
    <2>1. ASSUME NEW a \in Accounts, NEW endpoint \in Endpoints, Assign(a, endpoint)
          PROVE  Moves
      BY <1>1, <2>1, AssignEffect
    <2>2. CASE UNCHANGED registry
      BY <2>2
    <2>3. ASSUME NEW p \in Processes, NEW a \in Accounts, GetExecutor(p, a)
          PROVE  Moves
      BY <2>1, <2>2, <2>3 DEF GetExecutor
    <2>4. ASSUME NEW th \in Threads, Obtain(th) PROVE Moves
      BY <1>1, <2>3, <2>4, PoolAssumption DEF Obtain, PInv
    <2>5. QED
      BY <1>1, <2>1, <2>2, <2>3, <2>4
      DEF Next, Deploy, Use, Resolve, Reconfigure, ReconfigureFails
  <1>2. QED
    BY <1>1, PoolInvariant, PTL DEF Spec, StableEndpoint
=============================================================================
