-------------------------------- MODULE Release --------------------------------
(***************************************************************************)
(* Releases to production (release.yml): one job at a time migrates the     *)
(* database, deploys the API, reads /health on the production host and      *)
(* deploys the web.  The host may still route to the deployment before the  *)
(* last.  An instance boots, and /health answers 200, when the revision of  *)
(* the database is the head of the scripts it carries or one they do not    *)
(* know (readiness.py, ADR-070).                                            *)
(*                                                                         *)
(* External: GitHub keeps one waiting run of a concurrency group and drops  *)
(* the one that waited before; Vercel assigns the production host to a new  *)
(* deployment, until a rollback turns that off and a promotion on again.    *)
(***************************************************************************)
EXTENDS Integers

CONSTANTS
    Releases,       \* the tags, numbered in the order of their commits on main
    Head(_),        \* the last migration that a tag carries
    MaxAttempts     \* reads of /health in one job: 6 in release.yml

VARIABLES
    database,       \* alembic_version
    live, previous, \* the releases of the API that the host routes to
    assigned,       \* whether a new API deployment gets the host
    web,            \* the release of the web, and of the API whose answer it was deployed on
    job, waiting    \* the job that runs and the release that waits; 0 is none

vars == <<database, live, previous, assigned, web, job, waiting>>

TypeOK ==
    /\ database \in {Head(k) : k \in Releases}
    /\ {live, previous} \subseteq Releases
    /\ assigned \in BOOLEAN
    /\ web \in [release : Releases, answered : Releases]
    /\ job \in [step : {"none", "migrate", "api", "health", "web"}, release : Releases,
                attempts : 0..MaxAttempts, answered : Releases]
    /\ waiting \in {0} \cup Releases

Init ==
    /\ \E k \in Releases :
          /\ database = Head(k)
          /\ live = k /\ previous = k
          /\ web = [release |-> k, answered |-> k]
          /\ job = [step |-> "none", release |-> k, attempts |-> 0, answered |-> k]
    /\ assigned = TRUE
    /\ waiting = 0

-----------------------------------------------------------------------------
(* The code of release k against the database *)

\* The revisions that the scripts of release k know: they are in one line.
Revisions(k) == {Head(j) : j \in {j \in Releases : j <= k}}

Status(k) ==
    CASE database = Head(k) -> "current"
      [] database \in Revisions(k) \ {Head(k)} -> "behind"
      [] database \notin Revisions(k) -> "ahead"

Servable == {"current", "ahead"}

\* lifespan boots an instance, and /health answers 200.
Serves(k) == Status(k) \in Servable

-----------------------------------------------------------------------------
(* The job *)

\* A tag is released, or released again by a dispatch, and its gates have passed.
Publish(k) ==
    /\ waiting' = k
    /\ UNCHANGED <<database, live, previous, assigned, web, job>>

Start ==
    /\ waiting # 0 /\ job.step = "none"
    /\ job' = [job EXCEPT !.step = "migrate", !.release = waiting, !.attempts = 0]
    /\ waiting' = 0
    /\ UNCHANGED <<database, live, previous, assigned, web>>

\* `alembic upgrade head`, in one transaction; it fails on a revision it does not know.
Migrate ==
    /\ job.step = "migrate"
    /\ database \in Revisions(job.release)
    /\ database' = Head(job.release)
    /\ job' = [job EXCEPT !.step = "api"]
    /\ UNCHANGED <<live, previous, assigned, web, waiting>>

DeployApi ==
    /\ job.step = "api"
    /\ job' = [job EXCEPT !.step = "health"]
    /\ IF assigned THEN live' = job.release /\ previous' = live
                   ELSE UNCHANGED <<live, previous>>
    /\ UNCHANGED <<database, assigned, web, waiting>>

\* Mutant: any 200 passes.
PassesServable(k) == Serves(k)

\* jq reads "current" in an answer with status 200.
Passes(k) == Serves(k) /\ Status(k) = "current"

\* One read of /health, answered by either deployment or by nobody.
ReadHealth ==
    /\ job.step = "health" /\ job.attempts < MaxAttempts
    /\ \/ \E k \in {live, previous} :
             /\ Passes(k)
             /\ job' = [job EXCEPT !.step = "web", !.answered = k]
       \/ job' = [job EXCEPT !.attempts = @ + 1]
    /\ UNCHANGED <<database, live, previous, assigned, web, waiting>>

DeployWeb ==
    /\ job.step = "web"
    /\ web' = [release |-> job.release, answered |-> job.answered]
    /\ job' = [job EXCEPT !.step = "none"]
    /\ UNCHANGED <<database, live, previous, assigned, waiting>>

\* A step fails, the reads are used up or the job times out: what it did stays done.
Fail ==
    /\ job.step # "none"
    /\ job' = [job EXCEPT !.step = "none"]
    /\ UNCHANGED <<database, live, previous, assigned, web, waiting>>

-----------------------------------------------------------------------------
(* The operator *)

\* Instant Rollback of the API to the deployment before the last.
RollBack ==
    /\ live # previous
    /\ live' = previous /\ previous' = live
    /\ assigned' = FALSE
    /\ UNCHANGED <<database, web, job, waiting>>

\* Undo Rollback: back to the deployment that was rolled back.
Promote ==
    /\ ~assigned
    /\ live' = previous /\ previous' = live
    /\ assigned' = TRUE
    /\ UNCHANGED <<database, web, job, waiting>>

Next ==
    \/ \E k \in Releases : Publish(k)
    \/ Start \/ Migrate \/ DeployApi \/ ReadHealth \/ DeployWeb \/ Fail
    \/ RollBack \/ Promote

Spec == Init /\ [][Next]_vars

-----------------------------------------------------------------------------
(* Property *)

\* The database never stops the code that a request can reach from booting, and the web
\* is deployed only on the answer of an API that carries the same migrations
\* (readiness.py, read_migrations; main.py, lifespan and health).
ReleaseKeepsServing ==
    /\ Serves(live) /\ Serves(previous)
    /\ Head(web.answered) = Head(web.release)
=============================================================================
