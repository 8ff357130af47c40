----------------------------- MODULE WorkerPool -----------------------------
(***************************************************************************)
(* The supervisor of workerPool.js: it forks worker processes, resizes     *)
(* their number to the queue's backlog on a timer, replaces those that die *)
(* and stops them all on SIGTERM.  Workers are interchangeable, so the     *)
(* state counts them by what has become of them.                           *)
(***************************************************************************)
EXTENDS Integers

CONSTANTS
  Min, Max,        \* WORKER_POOL_MIN, WORKER_POOL_MAX
  PerWorker,       \* WORKER_POOL_BACKLOG_PER_WORKER
  ScaleDownAfter,  \* WORKER_POOL_SCALE_DOWN_TICKS
  MaxBacklog,      \* bound: waiting plus active jobs
  MaxTicks,        \* bound: ticks waiting for Redis at the same time
  MaxDeaths,       \* bound: workers that die unasked
  MaxLeaving       \* bound: workers taken out of the map and not yet forgotten

(* config/env.js accepts any positive integers; Min <= Max is left to the  *)
(* operator.                                                               *)
ASSUME PoolAssumption ==
  /\ Min \in Nat \ {0} /\ Max \in Nat /\ Min <= Max
  /\ PerWorker \in Nat \ {0} /\ ScaleDownAfter \in Nat \ {0}
  /\ MaxBacklog \in Nat /\ MaxTicks \in Nat /\ MaxDeaths \in Nat
  /\ MaxLeaving \in Nat

VARIABLES
  fresh,      \* running, in the workers map, never signalled
  signalled,  \* running, in the map, sent SIGTERM by stop()
  leaving,    \* running, taken out of the map by stopOne()
  dead,       \* exited, in the map: the 'exit' event is still to come
  gone,       \* exited, no longer in the map, 'exit' event still to come
  quietTicks, \* this.quietTicks
  ticks,      \* calls of tick() awaiting backlog()
  stopping,   \* this.stopping
  deaths      \* workers that have died unasked

procVars == <<fresh, signalled, leaving, dead, gone>>
vars     == <<procVars, quietTicks, ticks, stopping, deaths>>

(* this.workers.size. *)
size == fresh + signalled + dead

(* desiredWorkers: one worker per PerWorker jobs, rounded up, within bounds. *)
Ceil(a, b) == (a + b - 1) \div b

(* Mutant: no cap. *)
DesiredUncapped(backlog) ==
  IF Ceil(backlog, PerWorker) < Min THEN Min ELSE Ceil(backlog, PerWorker)

DesiredWorkers(backlog) ==
  LET needed == Ceil(backlog, PerWorker)
  IN  IF needed < Min THEN Min ELSE IF needed > Max THEN Max ELSE needed

TypeOK ==
  /\ fresh \in Nat /\ signalled \in Nat /\ leaving \in Nat
  /\ dead \in Nat /\ gone \in Nat
  /\ quietTicks \in 0 .. ScaleDownAfter
  /\ ticks \in 0 .. MaxTicks
  /\ stopping \in BOOLEAN
  /\ deaths \in 0 .. MaxDeaths

(* start(). *)
Init ==
  /\ fresh = Min
  /\ signalled = 0 /\ leaving = 0 /\ dead = 0 /\ gone = 0
  /\ quietTicks = 0 /\ ticks = 0
  /\ stopping = FALSE
  /\ deaths = 0

(* The timer fires, or fires again before the last tick has its counts. *)
TickBegins ==
  /\ ~stopping
  /\ ticks < MaxTicks
  /\ ticks' = ticks + 1
  /\ UNCHANGED <<procVars, quietTicks, stopping, deaths>>

(* Redis is unreachable: the pool is left as it is. *)
TickFails ==
  /\ ticks > 0
  /\ ticks' = ticks - 1
  /\ UNCHANGED <<procVars, quietTicks, stopping, deaths>>

Spawn(n) == fresh' = fresh + n

(* stopOne: the oldest entry leaves the map at once and gets a SIGTERM,     *)
(* whatever state its process is in.                                       *)
StopOne ==
  /\ leaving + gone < MaxLeaving
  /\ \/ fresh > 0 /\ fresh' = fresh - 1 /\ leaving' = leaving + 1
          /\ UNCHANGED <<signalled, dead, gone>>
     \/ signalled > 0 /\ signalled' = signalled - 1 /\ leaving' = leaving + 1
          /\ UNCHANGED <<fresh, dead, gone>>
     \/ dead > 0 /\ dead' = dead - 1 /\ gone' = gone + 1
          /\ UNCHANGED <<fresh, signalled, leaving>>

(* The rest of tick(), with whatever backlog Redis reported.  stopping is   *)
(* not looked at again.                                                    *)
TickGrows(backlog) ==
  /\ ticks > 0
  /\ DesiredWorkers(backlog) > size
  /\ Spawn(DesiredWorkers(backlog) - size)
  /\ quietTicks' = 0
  /\ ticks' = ticks - 1
  /\ UNCHANGED <<signalled, leaving, dead, gone, stopping, deaths>>

(* Mutant: the count of quiet ticks is not reset. *)
TickShrinksForGood(backlog) ==
  /\ ticks > 0
  /\ DesiredWorkers(backlog) < size
  /\ quietTicks' = quietTicks + 1
  /\ IF quietTicks + 1 >= ScaleDownAfter THEN StopOne ELSE UNCHANGED procVars
  /\ ticks' = ticks - 1
  /\ UNCHANGED <<stopping, deaths>>

TickShrinks(backlog) ==
  /\ ticks > 0
  /\ DesiredWorkers(backlog) < size
  /\ IF quietTicks + 1 >= ScaleDownAfter
     THEN StopOne /\ quietTicks' = 0
     ELSE quietTicks' = quietTicks + 1 /\ UNCHANGED procVars
  /\ ticks' = ticks - 1
  /\ UNCHANGED <<stopping, deaths>>

TickKeeps(backlog) ==
  /\ ticks > 0
  /\ DesiredWorkers(backlog) = size
  /\ quietTicks' = 0
  /\ ticks' = ticks - 1
  /\ UNCHANGED <<procVars, stopping, deaths>>

(* A worker dies unasked (OOM, an unhandled rejection) ... *)
Dies ==
  /\ deaths < MaxDeaths
  /\ fresh > 0
  /\ fresh' = fresh - 1 /\ dead' = dead + 1
  /\ deaths' = deaths + 1
  /\ UNCHANGED <<signalled, leaving, gone, quietTicks, ticks, stopping>>

(* ... or one that was asked to stop has finished its submissions. *)
Leaves ==
  /\ \/ signalled > 0 /\ signalled' = signalled - 1 /\ dead' = dead + 1
          /\ UNCHANGED <<leaving, gone>>
     \/ leaving > 0 /\ leaving' = leaving - 1 /\ gone' = gone + 1
          /\ UNCHANGED <<signalled, dead>>
  /\ UNCHANGED <<fresh, quietTicks, ticks, stopping, deaths>>

(* A worker's 'exit' event: its entry, if it still has one, leaves the map. *)
Forget ==
  \/ dead > 0 /\ dead' = dead - 1 /\ UNCHANGED gone
  \/ gone > 0 /\ gone' = gone - 1 /\ UNCHANGED dead

(* Mutant: never replaced. *)
ExitUnreplaced ==
  /\ Forget
  /\ UNCHANGED <<fresh, signalled, leaving, quietTicks, ticks, stopping, deaths>>

(* Mutant: replaced while stopping, too. *)
ExitAlwaysReplaced ==
  /\ Forget
  /\ IF fresh + signalled + dead' < Min THEN Spawn(1) ELSE UNCHANGED fresh
  /\ UNCHANGED <<signalled, leaving, quietTicks, ticks, stopping, deaths>>

(* The 'exit' handler: below Min, and not stopping, the worker is replaced  *)
(* in the same turn.                                                       *)
ExitEvent ==
  /\ Forget
  /\ IF ~stopping /\ fresh + signalled + dead' < Min THEN Spawn(1) ELSE UNCHANGED fresh
  /\ UNCHANGED <<signalled, leaving, quietTicks, ticks, stopping, deaths>>

(* stop(): no more timers, SIGTERM to every worker in the map. *)
Stop ==
  /\ ~stopping
  /\ stopping' = TRUE
  /\ signalled' = signalled + fresh
  /\ fresh' = 0
  /\ UNCHANGED <<leaving, dead, gone, quietTicks, ticks, deaths>>

Tick == \E backlog \in 0 .. MaxBacklog :
          TickGrows(backlog) \/ TickShrinks(backlog) \/ TickKeeps(backlog)

Next == TickBegins \/ TickFails \/ Tick \/ Dies \/ Leaves \/ ExitEvent \/ Stop

Spec == Init /\ [][Next]_vars

(* The 'exit' event of every process in the map is delivered.  Nothing is   *)
(* assumed of the ticks.                                                   *)
FairSpec == Spec /\ WF_vars(ExitEvent /\ dead' < dead)

-----------------------------------------------------------------------------
(* Until it is stopped the pool stays between WORKER_POOL_MIN and           *)
(* WORKER_POOL_MAX (CHANGELOG 906), although ticks act on old counts, run  *)
(* over each other, and workers die between them.                          *)
WithinBounds == ~stopping => Min <= size /\ size <= Max

(* After stop() nothing is forked except by a tick that was waiting for    *)
(* its counts when stop() ran (workerPool.js:145, which does not look at   *)
(* stopping again): the exit handlers of the workers it stops fork none.   *)
ForksAfterStop == stopping /\ fresh' > fresh => ticks' < ticks
OnlyLateTicksFork == [][ForksAfterStop]_vars

(* A pool that has lost workers is back at Min running ones, or stopping:   *)
(* "A worker that dies on its own is replaced" (backend/README.md:404),    *)
(* so the pool does not shrink to nothing over a long term.                *)
RecoversMin == fresh < Min ~> fresh >= Min \/ stopping
=============================================================================
