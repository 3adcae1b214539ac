------------------------------ MODULE Startup -------------------------------
(***************************************************************************)
(* From docker compose up to a process that serves, and back: the API and  *)
(* the worker (run of cmd/api and cmd/worker) load their configuration,    *)
(* open MySQL, open Redis, build what they serve with and serve; when run  *)
(* returns, the calls it has deferred close the stores, the last first.    *)
(* Docker starts them once the stores are healthy and the migration has    *)
(* succeeded, and restarts them, without looking at either again, until an *)
(* operator stops them.                                                    *)
(*                                                                         *)
(* What a serving process does is the subject of AsyncJobs and HttpServer; *)
(* here it goes on until a signal or a failure of its own ends it.         *)
(* A definition named ...Mutant is the next one with a plausible mistake.  *)
(***************************************************************************)
EXTENDS Naturals, Sequences, Config

CONSTANTS
    Environments,   \* environments that the operator may have written
    MaxOutages,     \* bound: outages of MySQL and Redis, together
    MaxKills        \* bound: ends of a process that nobody asked for

Api == "api"
Services == {Api, "worker"}
Stores == {"mysql", "redis"}

ASSUME EnvironmentsAssumption ==
    \A e \in Environments : DOMAIN e = Names /\ \A n \in Names : e[n] \in Classes(n)
ASSUME BoundsAssumption == MaxOutages \in Nat /\ MaxKills \in Nat

VARIABLES
    env,        \* the environment; compose gives both services the same
    up,         \* up[x]: store x answers
    migration,  \* the migrate container: "waiting", "done" or "failed"
    pc,         \* pc[s]: where run of s is
    opened,     \* opened[s]: the stores that it holds connections to
    deferred,   \* deferred[s]: the stores that run of s has a deferred Close for
    ctxDone,    \* ctxDone[s]: SIGINT or SIGTERM has arrived
    stopped,    \* stopped[s]: the operator has stopped s
    cause,      \* history, cause[s]: why run of s is ending or ended last
    outages, kills   \* used parts of the bounds

infrastructure == <<up, migration, outages>>
held == <<opened, deferred>>
vars == <<env, infrastructure, pc, held, ctxDone, stopped, cause, kills>>

PC == {"created", "config", "mysql", "pingMySQL", "redis", "pingRedis", "build",
       "serving", "closing", "exited"}

\* Why a process ends: a mistake Load finds or leaves to a constructor, a store or
\* the assets that are missing, the end of the server, the signal or a kill.
Cause == {"none", "config", "options", "store", "assets", "server", "signal", "kill"}

Running(s) == pc[s] \notin {"created", "exited"}

Init ==
    /\ env \in Environments
    /\ up = [x \in Stores |-> FALSE]
    /\ migration = "waiting"
    /\ pc = [s \in Services |-> "created"]
    /\ opened = [s \in Services |-> {}]
    /\ deferred = [s \in Services |-> <<>>]
    /\ ctxDone = [s \in Services |-> FALSE]
    /\ stopped = [s \in Services |-> FALSE]
    /\ cause = [s \in Services |-> "none"]
    /\ outages = 0 /\ kills = 0

-----------------------------------------------------------------------------
(* The infrastructure.                                                     *)

Comes(x) ==
    /\ ~up[x]
    /\ up' = [up EXCEPT ![x] = TRUE]
    /\ UNCHANGED <<env, migration, outages, pc, held, ctxDone, stopped, cause, kills>>

Goes(x) ==
    /\ up[x]
    /\ outages < MaxOutages
    /\ outages' = outages + 1
    /\ up' = [up EXCEPT ![x] = FALSE]
    /\ UNCHANGED <<env, migration, pc, held, ctxDone, stopped, cause, kills>>

\* It waits for a healthy MySQL and is not restarted.
Migrate ==
    /\ migration = "waiting"
    /\ up["mysql"]
    /\ migration' \in {"done", "failed"}
    /\ UNCHANGED <<env, up, outages, pc, held, ctxDone, stopped, cause, kills>>

-----------------------------------------------------------------------------
(* Docker.                                                                 *)

Begin(s) ==
    /\ pc' = [pc EXCEPT ![s] = "config"]
    /\ opened' = [opened EXCEPT ![s] = {}]
    /\ deferred' = [deferred EXCEPT ![s] = <<>>]
    /\ ctxDone' = [ctxDone EXCEPT ![s] = FALSE]
    /\ cause' = [cause EXCEPT ![s] = "none"]
    /\ UNCHANGED <<env, infrastructure, stopped, kills>>

StartMutant(s) ==     \* depends_on with service_started for migrate
    /\ pc[s] = "created" /\ ~stopped[s]
    /\ \A x \in Stores : up[x]
    /\ Begin(s)

\* depends_on: service_healthy, and service_completed_successfully for migrate.
Start(s) ==
    /\ pc[s] = "created" /\ ~stopped[s]
    /\ \A x \in Stores : up[x]
    /\ migration = "done"
    /\ Begin(s)

RestartMutant(s) == FALSE /\ Begin(s)     \* restart: "no", as for migrate

\* restart: unless-stopped.
Restart(s) ==
    /\ pc[s] = "exited" /\ ~stopped[s]
    /\ Begin(s)

\* docker stop, or a signal to the process alone (which Docker restarts).
Signal(s) ==
    /\ Running(s) /\ ~ctxDone[s]
    /\ ctxDone' = [ctxDone EXCEPT ![s] = TRUE]
    /\ \/ stopped' = [stopped EXCEPT ![s] = TRUE] /\ UNCHANGED kills
       \/ kills < MaxKills /\ kills' = kills + 1 /\ UNCHANGED stopped
    /\ UNCHANGED <<env, infrastructure, pc, held, cause>>

\* A crash, or the SIGKILL that follows the grace period of docker stop.
Kill(s) ==
    /\ Running(s)
    /\ \/ stopped[s] /\ ctxDone[s] /\ UNCHANGED kills
       \/ kills < MaxKills /\ kills' = kills + 1
    /\ pc' = [pc EXCEPT ![s] = "exited"]
    /\ cause' = [cause EXCEPT ![s] = "kill"]
    /\ UNCHANGED <<env, infrastructure, held, ctxDone, stopped>>

-----------------------------------------------------------------------------
(* run.                                                                    *)

Goto(s, to) == pc' = [pc EXCEPT ![s] = to] /\ UNCHANGED cause

\* run returns, and its deferred calls begin.
End(s, c) ==
    /\ pc' = [pc EXCEPT ![s] = "closing"]
    /\ cause' = [cause EXCEPT ![s] = c]

\* config.Load and logging.New.
LoadConfig(s) ==
    /\ pc[s] = "config"
    /\ IF Loads(env) /\ LoggerAccepts(env)
       THEN Goto(s, "mysql")
       ELSE End(s, IF Loads(env) THEN "options" ELSE "config")
    /\ UNCHANGED <<env, infrastructure, held, ctxDone, stopped, kills>>

\* The first half of OpenMySQL and OpenRedis: the options are checked and a pool of
\* connections is made.
Open(s, x, accepts, answers, to) ==
    /\ pc[s] = x
    /\ IF accepts /\ answers
       THEN opened' = [opened EXCEPT ![s] = @ \cup {x}] /\ Goto(s, to)
       ELSE End(s, IF accepts THEN "store" ELSE "options") /\ UNCHANGED opened
    /\ UNCHANGED <<env, infrastructure, deferred, ctxDone, stopped, kills>>

\* gorm.Open asks MySQL for its version; redis.NewClient connects later.
OpenMySQL(s) == Open(s, "mysql", MySQLAccepts(env), up["mysql"], "pingMySQL")
OpenRedis(s) == Open(s, "redis", RedisAccepts(env), TRUE, "pingRedis")

PingMutant(s, from, x, to) ==     \* a failed ping returns without the Close
    /\ pc[s] = from
    /\ IF up[x] /\ ~ctxDone[s]
       THEN deferred' = [deferred EXCEPT ![s] = <<x>> \o @] /\ Goto(s, to)
       ELSE End(s, "store") /\ UNCHANGED deferred
    /\ UNCHANGED <<env, infrastructure, opened, ctxDone, stopped, kills>>

\* The second half: a ping with the context of the process.  When it fails, nobody
\* else knows of the pool, which is closed at once; otherwise run defers its Close.
Ping(s, from, x, to) ==
    /\ pc[s] = from
    /\ IF up[x] /\ ~ctxDone[s]
       THEN /\ deferred' = [deferred EXCEPT ![s] = <<x>> \o @]
            /\ Goto(s, to)
            /\ UNCHANGED opened
       ELSE /\ opened' = [opened EXCEPT ![s] = @ \ {x}]
            /\ End(s, "store")
            /\ UNCHANGED deferred
    /\ UNCHANGED <<env, infrastructure, ctxDone, stopped, kills>>

PingMySQL(s) == Ping(s, "pingMySQL", "mysql", "redis")
PingRedis(s) == Ping(s, "pingRedis", "redis", "build")

\* The repository, the queue and the use cases; the API needs its UI assets.
HasAssets(s) == s = Api => Field(env, "UI_ASSETS_DIR") # "bad"

Build(s) ==
    /\ pc[s] = "build"
    /\ IF QueueAccepts(env) /\ HasAssets(s)
       THEN Goto(s, "serving")
       ELSE End(s, IF QueueAccepts(env) THEN "assets" ELSE "options")
    /\ UNCHANGED <<env, infrastructure, held, ctxDone, stopped, kills>>

\* Pool.Run or HTTPServer.Run returns: because of the signal or, at any moment, for
\* the reasons that AsyncJobs (the dispatcher gives up) and HttpServer (the listener
\* fails) have.  These are counted with the kills.
Serve(s) ==
    /\ pc[s] = "serving"
    /\ \/ ctxDone[s] /\ End(s, "signal") /\ UNCHANGED kills
       \/ kills < MaxKills /\ kills' = kills + 1 /\ End(s, "server")
    /\ UNCHANGED <<env, infrastructure, held, ctxDone, stopped>>

\* The next deferred Close; an error is only logged.
Close(s) ==
    /\ pc[s] = "closing"
    /\ deferred[s] # <<>>
    /\ opened' = [opened EXCEPT ![s] = @ \ {Head(deferred[s])}]
    /\ deferred' = [deferred EXCEPT ![s] = Tail(@)]
    /\ UNCHANGED <<env, infrastructure, pc, ctxDone, stopped, cause, kills>>

\* os.Exit, after run has returned.
Exit(s) ==
    /\ pc[s] = "closing"
    /\ deferred[s] = <<>>
    /\ Goto(s, "exited")
    /\ UNCHANGED <<env, infrastructure, held, ctxDone, stopped, kills>>

RunStep(s) == \/ LoadConfig(s) \/ OpenMySQL(s) \/ PingMySQL(s) \/ OpenRedis(s)
              \/ PingRedis(s) \/ Build(s) \/ Close(s) \/ Exit(s)

Next == \/ \E x \in Stores : Comes(x) \/ Goes(x)
        \/ Migrate
        \/ \E s \in Services : \/ Start(s) \/ Restart(s) \/ Signal(s) \/ Kill(s)
                               \/ RunStep(s) \/ Serve(s)

\* Docker starts and restarts what it should, a store that is down comes back
\* (restart: unless-stopped), the migration ends and a process goes on.  A signalled
\* API leaves Serve (HttpServer), but no promise is made for a worker: its BRPOP on
\* an empty list does not end with the context.
Spec == /\ Init /\ [][Next]_vars
        /\ \A x \in Stores : WF_vars(Comes(x))
        /\ WF_vars(Migrate)
        /\ \A s \in Services : /\ WF_vars(Start(s)) /\ WF_vars(Restart(s))
                               /\ WF_vars(RunStep(s))
        /\ WF_vars(ctxDone[Api] /\ Serve(Api))

-----------------------------------------------------------------------------
(* Properties.                                                             *)

\* Every variable keeps its type, and Close is deferred for no store that is not open.
TypeOK ==
    /\ env \in Environments
    /\ up \in [Stores -> BOOLEAN]
    /\ migration \in {"waiting", "done", "failed"}
    /\ pc \in [Services -> PC] /\ opened \in [Services -> SUBSET Stores]
    /\ ctxDone \in [Services -> BOOLEAN] /\ stopped \in [Services -> BOOLEAN]
    /\ cause \in [Services -> Cause]
    /\ outages \in 0..MaxOutages /\ kills \in 0..MaxKills
    /\ DOMAIN deferred = Services
    /\ \A s \in Services : deferred[s] \in Seq(opened[s])

\* A process that ends by itself has closed each pool it has made: the Close of a
\* failed ping and those that run has deferred leave out none, at whichever step it
\* ends and for whichever reason.
EndedIsClosed ==
    \A s \in Services : pc[s] = "exited" /\ cause[s] # "kill" => opened[s] = {}

\* No process reads or writes jobs before the schema is there, also when it is
\* restarted, which no depends_on delays.
ServesMigrated ==
    \A s \in Services : opened[s] # {} => migration = "done"

\* README, "Configuration": the services validate their settings "before beginning
\* work".  What Load lets pass no constructor refuses later, so a mistake never
\* shows only after MySQL or Redis has been opened.
ConfigIsComplete == \A s \in Services : cause[s] # "options"

\* Once the outages are over, both services serve again by themselves, unless the
\* operator has stopped them, the migration failed or the environment is wrong.  A
\* worker that got a signal of its own may wait in BRPOP instead.
ServesInTheEnd ==
    \A s \in Services :
        Loads(env) /\ Field(env, "UI_ASSETS_DIR") # "bad" =>
            <>[](\/ pc[s] = "serving" /\ (ctxDone[s] => s = "worker")
                 \/ stopped[s]
                 \/ migration = "failed")

=============================================================================
