---------------------------- MODULE PodLifecycle ----------------------------
(***************************************************************************)
(* The processes of src/src/k8s/serve-main.ts and lifecycle.ts: migrate    *)
(* under an advisory lock, boot, listen, and drain on SIGTERM.  Kubernetes *)
(* is external: it routes to a pod whose /readyz answered 200, takes a     *)
(* terminating pod out of the endpoints within Propagation ticks and kills *)
(* it after Grace.  A pod that is replaced is a new element of Pods.       *)
(***************************************************************************)
EXTENDS Naturals, FiniteSets

CONSTANTS
    Pods,
    Drain,         \* DRAIN_MS
    CloseTimeout,  \* CLOSE_TIMEOUT_MS
    Grace,         \* terminationGracePeriodSeconds
    Propagation    \* how long a terminating pod may still be routed to

\* infra/index.ts throws unless the first holds; the second is what Drain is for.
ASSUME LifecycleAssumption ==
    /\ {Drain, CloseTimeout, Grace, Propagation} \subseteq Nat
    /\ Grace > Drain + CloseTimeout
    /\ Propagation < Drain

VARIABLES
    stage,    \* how far main() or shutdown() has come
    since,    \* ticks since SIGTERM of a pod that drains or closes
    routed,   \* pods in the Service's endpoints
    pending,  \* migrators whose list of pending migrations is not empty
    applied   \* how often the migrations were committed

podVars == <<stage, since, routed, pending, applied>>

Starting == {"locking", "migrating", "booting"}
Serving == {"ready", "draining"}
Ended == {"gone", "crashed", "killed"}

PodTypeOK ==
    /\ stage \in [Pods -> Starting \union Serving \union Ended \union {"closing"}]
    /\ since \in [Pods -> 0 .. Grace]
    /\ routed \subseteq Pods /\ pending \subseteq Pods
    /\ applied \in Nat

PodInit ==
    /\ stage = [p \in Pods |-> "locking"] /\ since = [p \in Pods |-> 0]
    /\ routed = {} /\ pending = {} /\ applied = 0

Enters(p, s) == stage' = [stage EXCEPT ![p] = s]

-----------------------------------------------------------------------------
\* main().  pg_advisory_lock waits; a pod that is not scheduled yet waits there
\* too.  Then runMigrations() reads what is not applied yet.  (Lock and migrations
\* are two sessions of one process; that only the first of them is lost is left
\* out.)
TakeLockTry(p) ==
    /\ stage[p] = "locking"
    /\ pending' = IF applied = 0 THEN pending \union {p} ELSE pending
    /\ Enters(p, "migrating")
    /\ UNCHANGED <<since, routed, applied>>

TakeLock(p) ==
    /\ stage[p] = "locking" /\ \A q \in Pods : stage[q] # "migrating"
    /\ pending' = IF applied = 0 THEN pending \union {p} ELSE pending
    /\ Enters(p, "migrating")
    /\ UNCHANGED <<since, routed, applied>>

\* All migrations in one transaction, then the unlock.
Migrate(p) ==
    /\ stage[p] = "migrating"
    /\ applied' = IF p \in pending THEN applied + 1 ELSE applied
    /\ pending' = pending \ {p}
    /\ Enters(p, "booting")
    /\ UNCHANGED <<since, routed>>

\* Nest boots, the warm-up floor passes and listen() returns; nothing else can
\* tell these apart.
Listen(p) ==
    /\ stage[p] = "booting" /\ Enters(p, "ready")
    /\ UNCHANGED <<since, routed, pending, applied>>

\* /readyz is 200: ready and not draining.
Probe(p) ==
    /\ stage[p] = "ready" /\ p \notin routed
    /\ routed' = routed \union {p}
    /\ UNCHANGED <<stage, since, pending, applied>>

Unroute(p) ==
    /\ p \in routed /\ stage[p] # "ready"
    /\ routed' = routed \ {p}
    /\ UNCHANGED <<stage, since, pending, applied>>

-----------------------------------------------------------------------------
\* Before listen() has returned there is no server: exit at once.  (A SIGTERM that
\* comes before the handler is registered is ignored and ends in SIGKILL, which
\* CrashPod allows at any moment.)
Sigterm(p) ==
    /\ stage[p] \in Starting \union {"ready"}
    /\ Enters(p, IF stage[p] = "ready" THEN "draining" ELSE "gone")
    /\ pending' = pending \ {p}
    /\ UNCHANGED <<since, routed, applied>>

\* The two timers of shutdown().  The second cuts the connections the HTTP server
\* knows, which upgraded sockets no longer belong to.
DrainDueAtOnce(p) == stage[p] = "draining"
DrainDue(p) == stage[p] = "draining" /\ since[p] = Drain

CutDueNever(p) == FALSE
CutDue(p) == stage[p] = "closing" /\ since[p] = Drain + CloseTimeout

BeginClose(p) ==
    /\ DrainDue(p) /\ Enters(p, "closing")
    /\ UNCHANGED <<since, routed, pending, applied>>

\* app.close() has resolved.
EndClose(p) ==
    /\ stage[p] = "closing" /\ Enters(p, "gone")
    /\ since' = [since EXCEPT ![p] = 0]
    /\ UNCHANGED <<routed, pending, applied>>

\* SIGKILL at the end of the grace period.
Kill(p) ==
    /\ stage[p] \in {"draining", "closing"} /\ since[p] = Grace
    /\ Enters(p, "killed")
    /\ since' = [since EXCEPT ![p] = 0]
    /\ UNCHANGED <<routed, pending, applied>>

\* A rejected main() exits with 1, or the process dies.
CrashPod(p) ==
    /\ stage[p] \notin Ended /\ Enters(p, "crashed")
    /\ pending' = pending \ {p}
    /\ since' = [since EXCEPT ![p] = 0]
    /\ UNCHANGED <<routed, applied>>

\* Time passes; the endpoints of a terminating pod are not later than said.
PodTick ==
    /\ \A p \in Pods : p \in routed /\ stage[p] = "draining" => since[p] < Propagation
    /\ \A p \in Pods : since[p] < Grace
    /\ since' = [p \in Pods |-> IF stage[p] \in {"draining", "closing"}
                                THEN since[p] + 1 ELSE since[p]]
    /\ UNCHANGED <<stage, routed, pending, applied>>

-----------------------------------------------------------------------------
\* However many pods start at once, die or are told to stop between the list of
\* pending migrations and its COMMIT, the migrations are applied once.
AppliedOnce == applied <= 1

\* A pod that is routed to serves, unless it has crashed: its socket outlives
\* its endpoint.
RoutedServes == \A p \in routed : stage[p] \in Serving \union {"crashed"}

=============================================================================
