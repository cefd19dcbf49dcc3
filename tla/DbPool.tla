------------------------------- MODULE DbPool -------------------------------
(***************************************************************************)
(* db/pool.py: the connection pool of the API process, a global variable   *)
(* without a lock.  The lifespan of the application opens it and closes it;*)
(* audits run in threads of their own, which outlive their request and may *)
(* outlive the server.  The database itself is up.                         *)
(***************************************************************************)
EXTENDS Integers

CONSTANTS Threads,  \* the threads that run an audit
          MaxPools  \* the most pools ever created

ASSUME PoolAssumption == MaxPools \in Nat

VARIABLES server, \* the lifespan: "down", "serving", "closing" or "closed"
          pool,   \* _POOL: 0 stands for None, pools are numbered
          opened, \* the pools that are open
          made,   \* how many pools were created
          at,     \* where each thread is in init_db and connection
          held,   \* the pool it read or created last
          phase   \* what it needs the pool for

poolVars == <<server, pool, opened, made, at, held, phase>>

Places == {"init", "assign", "get", "use", "out"}

(* "insert" is the row in processing, "attempt" the attempts, "persist" and     *)
(* "again" are the two tries of _persist_failed_run.  The others are ends: no   *)
(* row was written, the run's outcome was recorded, or it was lost.             *)
Phases == {"none", "insert", "attempt", "persist", "again", "unrecorded", "recorded", "lost"}

PoolTypeOK ==
  /\ server \in {"down", "serving", "closing", "closed"}
  /\ made \in 0 .. MaxPools
  /\ pool \in 0 .. made
  /\ opened \subseteq 1 .. made
  /\ at \in [Threads -> Places]
  /\ held \in [Threads -> 0 .. made]
  /\ phase \in [Threads -> Phases]

PoolInit ==
  /\ server = "down"
  /\ pool = 0
  /\ opened = {}
  /\ made = 0
  /\ at = [t \in Threads |-> "out"]
  /\ held = [t \in Threads |-> 0]
  /\ phase = [t \in Threads |-> "none"]

-----------------------------------------------------------------------------
(* lifespan, before requests are served: init_db with nobody beside it. *)
Startup ==
  /\ server = "down"
  /\ made < MaxPools
  /\ server' = "serving"
  /\ made' = made + 1
  /\ pool' = made'
  /\ opened' = opened \union {made'}
  /\ UNCHANGED <<at, held, phase>>

(* lifespan, in the end: close_db closes the pool, and only then forgets it. *)
Close ==
  /\ server = "serving"
  /\ server' = "closing"
  /\ opened' = opened \ {pool}
  /\ UNCHANGED <<pool, made, at, held, phase>>

Forget ==
  /\ server = "closing"
  /\ server' = "closed"
  /\ pool' = 0
  /\ UNCHANGED <<opened, made, at, held, phase>>

-----------------------------------------------------------------------------
Goto(t, place, what) ==
  /\ at' = [at EXCEPT ![t] = place]
  /\ phase' = [phase EXCEPT ![t] = what]

(* A request is accepted only while the server serves; run_audit starts with init_db. *)
Accept(t) ==
  /\ server = "serving"
  /\ phase[t] = "none"
  /\ Goto(t, "init", "insert")
  /\ UNCHANGED <<server, pool, opened, made, held>>

(* init_db returns at once if there is a pool. *)
InitReturns(t) ==
  /\ at[t] = "init"
  /\ pool # 0
  /\ Goto(t, "get", phase[t])
  /\ UNCHANGED <<server, pool, opened, made, held>>

(* Mutant: the new pool is left unopened. *)
InitCreates(t) ==
  /\ at[t] = "init"
  /\ pool = 0
  /\ made < MaxPools
  /\ made' = made + 1
  /\ held' = [held EXCEPT ![t] = made']
  /\ Goto(t, "assign", phase[t])
  /\ UNCHANGED <<server, pool, opened>>

(* Otherwise it opens a new one, which takes time, and then assigns it. *)
InitOpens(t) ==
  /\ at[t] = "init"
  /\ pool = 0
  /\ made < MaxPools
  /\ made' = made + 1
  /\ opened' = opened \union {made'}
  /\ held' = [held EXCEPT ![t] = made']
  /\ Goto(t, "assign", phase[t])
  /\ UNCHANGED <<server, pool>>

Assign(t) ==
  /\ at[t] = "assign"
  /\ pool' = held[t]
  /\ Goto(t, "get", phase[t])
  /\ UNCHANGED <<server, opened, made, held>>

(* connection(): get_pool reads the global ... *)
GetPool(t) ==
  /\ at[t] = "get"
  /\ pool # 0
  /\ held' = [held EXCEPT ![t] = pool]
  /\ Goto(t, "use", phase[t])
  /\ UNCHANGED <<server, pool, opened, made>>

(* Mutant: lookup_methodology closes the pool behind it. *)
UseAndClose(t) ==
  /\ at[t] = "use"
  /\ held[t] \in opened
  /\ \/ phase[t] = "insert" /\ Goto(t, "get", "attempt") /\ UNCHANGED <<opened, pool>>
     \/ phase[t] = "attempt" /\ Goto(t, "get", "attempt") /\ opened' = opened \ {held[t]} /\ pool' = 0
  /\ UNCHANGED <<server, made, held>>

(* ... and what it returned gives a connection, if it is still open. *)
UseSucceeds(t) ==
  /\ at[t] = "use"
  /\ held[t] \in opened
  /\ \/ phase[t] = "insert" /\ Goto(t, "get", "attempt")
     \/ phase[t] = "attempt" /\ \/ Goto(t, "get", "attempt")  \* the next transaction
                                \/ Goto(t, "init", "attempt") \* lookup_methodology
                                \/ Goto(t, "get", "persist")  \* the last attempt failed
                                \/ Goto(t, "out", "recorded") \* completed
     \/ phase[t] \in {"persist", "again"} /\ Goto(t, "out", "recorded")
  /\ UNCHANGED <<server, pool, opened, made, held>>

(* An exception ends the attempt or the audit; the handler runs once a row exists. *)
Fails(t) ==
  \/ phase[t] = "insert" /\ Goto(t, "out", "unrecorded")
  \/ phase[t] = "attempt" /\ (Goto(t, "get", "attempt") \/ Goto(t, "get", "persist"))

(* get_pool raises DatabaseError, which the handler answers with init_db ... *)
NoPool(t) ==
  /\ at[t] = "get"
  /\ pool = 0
  /\ \/ Fails(t)
     \/ phase[t] = "persist" /\ Goto(t, "init", "again")
     \/ phase[t] = "again" /\ Goto(t, "out", "lost")
  /\ UNCHANGED <<server, pool, opened, made, held>>

(* ... but a closed pool raises PoolClosed, which is not a DatabaseError. *)
PoolClosed(t) ==
  /\ at[t] = "use"
  /\ held[t] \notin opened
  /\ \/ Fails(t)
     \/ phase[t] \in {"persist", "again"} /\ Goto(t, "out", "lost")
  /\ UNCHANGED <<server, pool, opened, made, held>>

Thread(t) ==
  \/ Accept(t)
  \/ InitReturns(t)
  \/ InitOpens(t)
  \/ Assign(t)
  \/ GetPool(t)
  \/ UseSucceeds(t)
  \/ NoPool(t)
  \/ PoolClosed(t)

PoolNext ==
  \/ Startup
  \/ Close
  \/ Forget
  \/ \E t \in Threads : Thread(t)

PoolSpec == PoolInit /\ [][PoolNext]_poolVars

-----------------------------------------------------------------------------
(* While the server serves there is one pool, it is the global one and it is  *)
(* open: no audit closes it for the requests, and none opens a second one.    *)
OnePoolWhileServing ==
  server = "serving" => pool # 0 /\ opened = {pool}

(* ADR-0020, as far as the code keeps it: the outcome of a run is lost only to *)
(* the pool the lifespan has closed.  Whoever finds no pool makes a new one,   *)
(* and no pool made that way is ever closed under its users.                   *)
LostOnlyToShutdown ==
  \A t \in Threads :
    phase[t] = "lost" => held[t] = 1 /\ server \in {"closing", "closed"}
=============================================================================
