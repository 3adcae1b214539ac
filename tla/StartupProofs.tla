--------------------------- MODULE StartupProofs ---------------------------
(***************************************************************************)
(* Coming up and going down, for every environment the operator may write, *)
(* any number of outages and of deaths, and at any moment of either.       *)
(***************************************************************************)
EXTENDS Startup, SequenceTheorems, TLAPS

-----------------------------------------------------------------------------
(* The configuration.                                                      *)

\* A constructor refuses nothing that Load let pass, for any environment: each
\* check of a constructor follows from one of Validate, or from a default.
LEMMA LoadFindsEveryMistake ==
    ASSUME NEW e, Loads(e)
    PROVE  LoggerAccepts(e) /\ MySQLAccepts(e) /\ RedisAccepts(e) /\ QueueAccepts(e)
  <1>1. /\ \A n \in Required : e[n] \notin {"unset", "blank"}
        /\ \A n \in Checked : Field(e, n) \notin {"bad", "outOfRange"}
    BY DEF Loads, Validates
  <1>2. LoggerAccepts(e)
    BY <1>1 DEF LoggerAccepts, Checked
  <1>3. MySQLAccepts(e)
    BY <1>1 DEF MySQLAccepts, Checked, Numbers, Required
  <1>4. RedisAccepts(e)
    BY <1>1 DEF RedisAccepts, Checked, Numbers, Required
  <1>5. QueueAccepts(e)
    BY DEF QueueAccepts, Field, Required
  <1> QED BY <1>2, <1>3, <1>4, <1>5

-----------------------------------------------------------------------------
(* The invariant.  A process has open what the steps behind it have opened, *)
(* has deferred the Close of each pool whose ping has succeeded, last first, *)
(* has begun after the migration, and goes beyond config only with an        *)
(* environment that Load accepts.                                            *)

\* What run has deferred, before MySQL is open, before Redis is open, and after.
Stack == {<<>>, <<"mysql">>, <<"redis", "mysql">>}

\* What those calls will close.
Owed(stack) == IF stack = <<>> THEN {}
               ELSE IF stack = <<"mysql">> THEN {"mysql"} ELSE Stores

Types ==
    /\ env \in Environments
    /\ up \in [Stores -> BOOLEAN]
    /\ migration \in {"waiting", "done", "failed"}
    /\ pc \in [Services -> PC] /\ opened \in [Services -> SUBSET Stores]
    /\ deferred \in [Services -> Stack]
    /\ ctxDone \in [Services -> BOOLEAN] /\ stopped \in [Services -> BOOLEAN]
    /\ cause \in [Services -> Cause]
    /\ outages \in 0..MaxOutages /\ kills \in 0..MaxKills

\* While a pool is pinged nobody else knows of it; at every other moment the deferred
\* calls close exactly what is open.
HoldsAt(at, open, stack) ==
    /\ at \in {"created", "config", "mysql"} => open = {} /\ stack = <<>>
    /\ at = "pingMySQL" => open = {"mysql"} /\ stack = <<>>
    /\ at = "redis" => open = {"mysql"} /\ stack = <<"mysql">>
    /\ at = "pingRedis" => open = Stores /\ stack = <<"mysql">>
    /\ at \in {"build", "serving"} => open = Stores /\ stack = <<"redis", "mysql">>
    /\ at = "closing" => open = Owed(stack)
    /\ Owed(stack) \subseteq open

\* The configuration has been loaded, and run has not returned.
Beyond == PC \ {"created", "config", "closing", "exited"}

ServiceInv(s) ==
    /\ HoldsAt(pc[s], opened[s], deferred[s])
    /\ pc[s] = "exited" /\ cause[s] # "kill" => opened[s] = {}
    /\ pc[s] # "created" => migration = "done"
    /\ pc[s] \in Beyond => Loads(env)
    /\ cause[s] # "options"

StartupInv == Types /\ \A s \in Services : ServiceInv(s)

LEMMA Pushed == ASSUME NEW x, NEW y PROVE <<x>> \o <<y>> = <<x, y>>
  <1>1. x \in {x, y} /\ y \in {x, y}
    OBVIOUS
  <1>2. <<x>> \in Seq({x, y}) /\ <<y>> \in Seq({x, y}) /\ <<x, y>> \in Seq({x, y})
    BY <1>1
  <1>3. <<x>> \o <<y>> \in Seq({x, y})
    BY <1>2
  <1>4. Len(<<x>> \o <<y>>) = 2 /\ Len(<<x, y>>) = 2
    BY <1>2
  <1>5. (<<x>> \o <<y>>)[1] = x /\ (<<x>> \o <<y>>)[2] = y
    BY <1>2
  <1>6. \A i \in 1..2 : i = 1 \/ i = 2
    OBVIOUS
  <1>7. \A i \in 1..2 : (<<x>> \o <<y>>)[i] = <<x, y>>[i]
    BY <1>5, <1>6
  <1> QED BY <1>2, <1>3, <1>4, <1>7, SeqEqual

\* The stacks are different, and each is what the pings push and the Closes pop.
LEMMA Stacks ==
    /\ <<>> # <<"mysql">> /\ <<>> # <<"redis", "mysql">> /\ <<"mysql">> # <<"redis", "mysql">>
    /\ <<"mysql">> \o <<>> = <<"mysql">>
    /\ <<"redis">> \o <<"mysql">> = <<"redis", "mysql">>
    /\ Head(<<"mysql">>) = "mysql" /\ Tail(<<"mysql">>) = <<>>
    /\ Head(<<"redis", "mysql">>) = "redis" /\ Tail(<<"redis", "mysql">>) = <<"mysql">>
  <1>1. <<>> # <<"mysql">> /\ <<>> # <<"redis", "mysql">>
    OBVIOUS
  <1>2. <<"mysql">> # <<"redis", "mysql">>
    OBVIOUS
  <1>3. <<"mysql">> \o <<>> = <<"mysql">>
    OBVIOUS
  <1>4. <<"redis">> \o <<"mysql">> = <<"redis", "mysql">>
    BY Pushed, Zenon
  <1>5. Head(<<"mysql">>) = "mysql"
    OBVIOUS
  <1>6. Tail(<<"mysql">>) = <<>>
    OBVIOUS
  <1>7. Head(<<"redis", "mysql">>) = "redis"
    OBVIOUS
  <1>8. Tail(<<"redis", "mysql">>) = <<"mysql">>
    OBVIOUS
  <1> QED BY <1>1, <1>2, <1>3, <1>4, <1>5, <1>6, <1>7, <1>8

\* What has been deferred is open.
LEMMA DeferredIsOpen ==
    ASSUME NEW open \in SUBSET Stores, NEW stack \in Stack, Owed(stack) \subseteq open
    PROVE  stack \in Seq(open)
  <1>1. CASE stack = <<>>
    BY <1>1
  <1>2. CASE stack = <<"mysql">>
    <2>1. "mysql" \in open
      BY <1>2, Stacks DEF Owed
    <2> QED BY <1>2, <2>1
  <1>3. CASE stack = <<"redis", "mysql">>
    <2>1. "mysql" \in open /\ "redis" \in open
      BY <1>3, Stacks DEF Owed, Stores
    <2> QED BY <1>3, <2>1
  <1> QED BY <1>1, <1>2, <1>3 DEF Stack

\* A deferred Close leaves open what the others still owe.
LEMMA Popped ==
    ASSUME NEW stack \in Stack, stack # <<>>
    PROVE  /\ Tail(stack) \in Stack
           /\ Owed(stack) \ {Head(stack)} = Owed(Tail(stack))
           /\ Owed(stack) \subseteq Stores
  <1>1. CASE stack = <<"mysql">>
    <2>1. Owed(stack) = {"mysql"} /\ Tail(stack) = <<>> /\ Head(stack) = "mysql"
      BY <1>1, Stacks DEF Owed
    <2>2. Owed(<<>>) = {}
      BY DEF Owed
    <2> QED BY <2>1, <2>2 DEF Stack, Stores
  <1>2. CASE stack = <<"redis", "mysql">>
    <2>1. Owed(stack) = Stores /\ Tail(stack) = <<"mysql">> /\ Head(stack) = "redis"
      BY <1>2, Stacks DEF Owed
    <2>2. Owed(<<"mysql">>) = {"mysql"}
      BY Stacks DEF Owed
    <2> QED BY <2>1, <2>2 DEF Stack, Stores
  <1> QED BY <1>1, <1>2 DEF Stack

LEMMA StartupInit == Init => StartupInv
  <1> SUFFICES ASSUME Init PROVE StartupInv
    OBVIOUS
  <1>1. Types
    BY BoundsAssumption DEF Init, Types, PC, Cause, Stack
  <1>2. ASSUME NEW s \in Services PROVE ServiceInv(s)
    BY DEF Init, ServiceInv, HoldsAt, Owed, Beyond
  <1> QED BY <1>1, <1>2 DEF StartupInv

\* A step of one service, or of the infrastructure, that leaves the others alone.
LEMMA ServiceMoves ==
    ASSUME StartupInv, Types', UNCHANGED env, migration = "done" => migration' = "done",
           NEW s \in Services, ServiceInv(s)',
           \A t \in Services : t # s => /\ pc'[t] = pc[t]
                                        /\ opened'[t] = opened[t]
                                        /\ deferred'[t] = deferred[t]
                                        /\ cause'[t] = cause[t]
    PROVE  StartupInv'
  <1>1. ASSUME NEW t \in Services, t # s PROVE ServiceInv(t)'
    BY <1>1 DEF StartupInv, ServiceInv, Loads, Parses, Validates, Field
  <1> QED BY <1>1 DEF StartupInv

\* A step of the process of s that leaves the infrastructure alone ...
Alone == /\ UNCHANGED <<env, infrastructure>>
         /\ ctxDone' \in [Services -> BOOLEAN] /\ stopped' \in [Services -> BOOLEAN]
         /\ kills' \in 0..MaxKills

\* ... and the other service, and what it may make of its own variables.
Becomes(s, at, open, stack, c) ==
    /\ pc' = [pc EXCEPT ![s] = at]
    /\ opened' = [opened EXCEPT ![s] = open]
    /\ deferred' = [deferred EXCEPT ![s] = stack]
    /\ cause' = [cause EXCEPT ![s] = c]

LEMMA OneService ==
    ASSUME StartupInv, Alone, NEW s \in Services,
           NEW at \in PC, NEW open \in SUBSET Stores, NEW stack \in Stack, NEW c \in Cause,
           Becomes(s, at, open, stack, c),
           HoldsAt(at, open, stack),
           at = "exited" /\ c # "kill" => open = {},
           migration = "done",
           at \in Beyond => Loads(env),
           c # "options"
    PROVE  StartupInv'
  <1>1. Types'
    BY DEF Alone, Becomes, StartupInv, Types, infrastructure
  <1>2. pc'[s] = at /\ opened'[s] = open /\ deferred'[s] = stack /\ cause'[s] = c
    BY DEF Becomes, StartupInv, Types
  <1>3. UNCHANGED <<env, migration>>
    BY DEF Alone, infrastructure
  <1>4. ServiceInv(s)'
    <2>1. HoldsAt(at, open, stack)'
      BY DEF HoldsAt, Owed
    <2>2. Loads(env)' = Loads(env)
      BY <1>3 DEF Loads, Parses, Validates, Field
    <2> QED BY <1>2, <1>3, <2>2 DEF ServiceInv, HoldsAt, Owed
  <1>5. \A t \in Services : t # s => /\ pc'[t] = pc[t] /\ opened'[t] = opened[t]
                                     /\ deferred'[t] = deferred[t] /\ cause'[t] = cause[t]
    BY DEF Becomes, StartupInv, Types
  <1> QED BY <1>1, <1>3, <1>4, <1>5, ServiceMoves

\* Steps that leave the processes where they are.
LEMMA NoService ==
    ASSUME StartupInv, Types', UNCHANGED <<env, pc, held, cause>>,
           migration = "done" => migration' = "done"
    PROVE  StartupInv'
  <1>1. ASSUME NEW s \in Services PROVE ServiceInv(s)'
    BY DEF held, StartupInv, ServiceInv, HoldsAt, Loads, Parses, Validates, Field
  <1> QED BY <1>1 DEF StartupInv

\* Where a process stands that takes a step of run or returns from serving.
LEMMA Standing ==
    ASSUME StartupInv, NEW s \in Services, Running(s)
    PROVE  /\ ServiceInv(s) /\ migration = "done" /\ cause[s] # "options"
           /\ pc[s] \in PC /\ cause[s] \in Cause
           /\ opened[s] \in SUBSET Stores /\ deferred[s] \in Stack
           /\ HoldsAt(pc[s], opened[s], deferred[s])
           /\ opened = [opened EXCEPT ![s] = opened[s]]
           /\ deferred = [deferred EXCEPT ![s] = deferred[s]]
           /\ cause = [cause EXCEPT ![s] = cause[s]]
  BY DEF StartupInv, Types, ServiceInv, Running

\* run goes on, or returns, with what it holds.
LEMMA GoesOn ==
    ASSUME StartupInv, Alone, NEW s \in Services, Running(s), NEW to \in PC \ {"exited"},
           Goto(s, to), UNCHANGED held,
           HoldsAt(to, opened[s], deferred[s]), to \in Beyond => Loads(env)
    PROVE  StartupInv'
  <1>1. Becomes(s, to, opened[s], deferred[s], cause[s])
    BY Standing DEF Becomes, Goto, held
  <1> QED BY <1>1, Standing, OneService

LEMMA Returns ==
    ASSUME StartupInv, Alone, NEW s \in Services, Running(s), NEW c \in Cause \ {"options"},
           End(s, c), UNCHANGED held, opened[s] = Owed(deferred[s])
    PROVE  StartupInv'
  <1>1. HoldsAt("closing", opened[s], deferred[s])
    BY DEF HoldsAt
  <1>2. Becomes(s, "closing", opened[s], deferred[s], c)
    BY Standing DEF Becomes, End, held
  <1>3. "closing" \in PC /\ "closing" \notin Beyond
    BY DEF PC, Beyond
  <1> QED BY <1>1, <1>2, <1>3, Standing, OneService

LEMMA LoadStep == ASSUME StartupInv, NEW s \in Services, LoadConfig(s), Alone PROVE StartupInv'
  <1>1. Running(s) /\ UNCHANGED held
    BY DEF LoadConfig, Running
  <1>2. HoldsAt("mysql", opened[s], deferred[s]) /\ opened[s] = Owed(deferred[s])
    BY <1>1, Standing DEF LoadConfig, HoldsAt, Owed
  <1>3. CASE Loads(env)
    <2>1. Goto(s, "mysql")
      BY <1>3, LoadFindsEveryMistake DEF LoadConfig
    <2> QED BY <1>1, <1>2, <1>3, <2>1, GoesOn DEF PC
  <1>4. CASE ~Loads(env)
    <2>1. End(s, "config")
      BY <1>4 DEF LoadConfig
    <2> QED BY <1>1, <1>2, <2>1, Returns DEF Cause
  <1> QED BY <1>3, <1>4

\* Both opens: the pool is made, or run returns with what it has deferred.
LEMMA OpenStep ==
    ASSUME StartupInv, Alone, NEW s \in Services, NEW x \in {"mysql", "redis"},
           NEW answers \in BOOLEAN, NEW to \in {"pingMySQL", "pingRedis"},
           Open(s, x, TRUE, answers, to), Loads(env),
           HoldsAt(to, opened[s] \cup {x}, deferred[s]), opened[s] = Owed(deferred[s])
    PROVE  StartupInv'
  <1>1. Running(s)
    BY DEF Open, Running
  <1>2. CASE answers
    <2>1. Becomes(s, to, opened[s] \cup {x}, deferred[s], cause[s])
      BY <1>1, <1>2, Standing DEF Open, Goto, Becomes
    <2>2. opened[s] \cup {x} \in SUBSET Stores
      BY <1>1, Standing DEF Stores
    <2>3. to \in PC /\ to # "exited"
      BY DEF PC
    <2> QED BY <1>1, <2>1, <2>2, <2>3, Standing, OneService
  <1>3. CASE ~answers
    <2>1. End(s, "store") /\ UNCHANGED held
      BY <1>3 DEF Open, held
    <2> QED BY <1>1, <2>1, Returns DEF Cause
  <1> QED BY <1>2, <1>3

\* Both pings: the Close is deferred, or it is done at once and run returns.
LEMMA PingStep ==
    ASSUME StartupInv, Alone, NEW s \in Services, NEW x \in {"mysql", "redis"},
           NEW from \in {"pingMySQL", "pingRedis"}, NEW to \in {"redis", "build"},
           Ping(s, from, x, to), Loads(env),
           <<x>> \o deferred[s] \in Stack,
           HoldsAt(to, opened[s], <<x>> \o deferred[s]),
           opened[s] \ {x} = Owed(deferred[s])
    PROVE  StartupInv'
  <1>1. Running(s)
    BY DEF Ping, Running
  <1>2. CASE up[x] /\ ~ctxDone[s]
    <2> DEFINE stack == <<x>> \o deferred[s]
    <2>1. stack \in Stack /\ HoldsAt(to, opened[s], stack)
      OBVIOUS
    <2>2. Becomes(s, to, opened[s], stack, cause[s])
      BY <1>1, <1>2, Standing DEF Ping, Goto, Becomes
    <2> HIDE DEF stack
    <2>3. to \in PC /\ to # "exited"
      BY DEF PC
    <2> QED BY <1>1, <2>1, <2>2, <2>3, Standing, OneService
  <1>3. CASE ~(up[x] /\ ~ctxDone[s])
    <2>1. Becomes(s, "closing", opened[s] \ {x}, deferred[s], "store")
      BY <1>1, <1>3, Standing DEF Ping, End, Becomes
    <2>2. HoldsAt("closing", opened[s] \ {x}, deferred[s]) /\ opened[s] \ {x} \in SUBSET Stores
      BY <1>1, Standing DEF HoldsAt
    <2>3. "closing" \in PC /\ "closing" \notin Beyond /\ "store" \in Cause
      BY DEF PC, Beyond, Cause
    <2> QED BY <1>1, <2>1, <2>2, <2>3, Standing, OneService
  <1> QED BY <1>2, <1>3

LEMMA RunStepKeeps == ASSUME StartupInv, NEW s \in Services, RunStep(s), Alone PROVE StartupInv'
  <1>0. Running(s)
    BY DEF RunStep, LoadConfig, OpenMySQL, OpenRedis, Open, PingMySQL, PingRedis, Ping, Build,
           Close, Exit, Running
  <1>1. /\ HoldsAt(pc[s], opened[s], deferred[s]) /\ deferred[s] \in Stack
        /\ pc[s] \in Beyond => Loads(env)
    BY <1>0, Standing DEF ServiceInv
  <1>2. CASE LoadConfig(s)
    BY <1>2, LoadStep
  <1>3. CASE OpenMySQL(s)
    <2>1. pc[s] = "mysql" /\ opened[s] = {} /\ deferred[s] = <<>> /\ Loads(env)
      BY <1>1, <1>3 DEF OpenMySQL, Open, HoldsAt, Beyond, PC
    <2>2. HoldsAt("pingMySQL", {"mysql"}, <<>>) /\ Owed(<<>>) = {}
      BY DEF HoldsAt, Owed
    <2>3. up["mysql"] \in BOOLEAN
      BY DEF StartupInv, Types, Stores
    <2>4. Open(s, "mysql", TRUE, up["mysql"], "pingMySQL")
      BY <1>3, <2>1, LoadFindsEveryMistake DEF OpenMySQL, Open
    <2>5. {} \cup {"mysql"} = {"mysql"}
      OBVIOUS
    <2> QED BY <2>1, <2>2, <2>3, <2>4, <2>5, OpenStep
  <1>4. CASE PingMySQL(s)
    <2>1. pc[s] = "pingMySQL" /\ opened[s] = {"mysql"} /\ deferred[s] = <<>> /\ Loads(env)
      BY <1>1, <1>4 DEF PingMySQL, Ping, HoldsAt, Beyond, PC
    <2>2. /\ HoldsAt("redis", {"mysql"}, <<"mysql">>) /\ <<"mysql">> \in Stack
          /\ {"mysql"} \ {"mysql"} = Owed(<<>>)
      BY Stacks DEF HoldsAt, Owed, Stack
    <2> QED BY <1>4, <2>1, <2>2, Stacks, PingStep DEF PingMySQL
  <1>5. CASE OpenRedis(s)
    <2>1. pc[s] = "redis" /\ opened[s] = {"mysql"} /\ deferred[s] = <<"mysql">> /\ Loads(env)
      BY <1>1, <1>5 DEF OpenRedis, Open, HoldsAt, Beyond, PC
    <2>2. HoldsAt("pingRedis", {"mysql"} \cup {"redis"}, <<"mysql">>)
          /\ Owed(<<"mysql">>) = {"mysql"}
      BY Stacks DEF HoldsAt, Owed, Stores
    <2>3. Open(s, "redis", TRUE, TRUE, "pingRedis")
      BY <1>5, <2>1, LoadFindsEveryMistake DEF OpenRedis, Open
    <2> QED BY <2>1, <2>2, <2>3, OpenStep
  <1>6. CASE PingRedis(s)
    <2>1. pc[s] = "pingRedis" /\ opened[s] = Stores /\ deferred[s] = <<"mysql">> /\ Loads(env)
      BY <1>1, <1>6 DEF PingRedis, Ping, HoldsAt, Beyond, PC
    <2>2. /\ HoldsAt("build", Stores, <<"redis", "mysql">>) /\ <<"redis", "mysql">> \in Stack
          /\ Stores \ {"redis"} = Owed(<<"mysql">>)
      BY Stacks DEF HoldsAt, Owed, Stack, Stores
    <2> QED BY <1>6, <2>1, <2>2, Stacks, PingStep DEF PingRedis
  <1>7. CASE Build(s)
    <2>1. /\ opened[s] = Stores /\ deferred[s] = <<"redis", "mysql">> /\ Loads(env)
          /\ UNCHANGED held
      BY <1>1, <1>7 DEF Build, HoldsAt, Beyond, PC
    <2>2. /\ HoldsAt("serving", opened[s], deferred[s]) /\ opened[s] = Owed(deferred[s])
      BY <2>1, Stacks DEF HoldsAt, Owed
    <2>3. CASE Goto(s, "serving")
      BY <1>0, <2>1, <2>2, <2>3, GoesOn DEF PC
    <2>4. CASE End(s, "assets")
      BY <1>0, <2>1, <2>2, <2>4, Returns DEF Cause
    <2> QED BY <1>7, <2>1, <2>3, <2>4, LoadFindsEveryMistake DEF Build
  <1>8. CASE Close(s)
    <2>1. pc[s] = "closing" /\ opened[s] = Owed(deferred[s]) /\ deferred[s] # <<>>
      BY <1>1, <1>8 DEF Close, HoldsAt
    <2> DEFINE open == opened[s] \ {Head(deferred[s])}
               stack == Tail(deferred[s])
    <2>2. stack \in Stack /\ open = Owed(stack) /\ open \in SUBSET Stores
      BY <1>1, <2>1, Popped
    <2>3. pc = [pc EXCEPT ![s] = "closing"]
      BY <2>1 DEF StartupInv, Types
    <2>4. Becomes(s, "closing", open, stack, cause[s])
      BY <1>0, <1>8, <2>3, Standing DEF Close, Becomes
    <2> HIDE DEF open, stack
    <2>5. HoldsAt("closing", open, stack)
      BY <2>2 DEF HoldsAt
    <2>6. "closing" \in PC /\ "closing" \notin Beyond
      BY DEF PC, Beyond
    <2> QED BY <1>0, <2>2, <2>4, <2>5, <2>6, Standing, OneService
  <1>9. CASE Exit(s)
    <2>1. opened[s] = {} /\ deferred[s] = <<>>
      BY <1>1, <1>9 DEF Exit, HoldsAt, Owed
    <2>2. HoldsAt("exited", opened[s], deferred[s])
      BY <2>1 DEF HoldsAt, Owed
    <2>3. Becomes(s, "exited", opened[s], deferred[s], cause[s])
      BY <1>0, <1>9, Standing DEF Exit, Goto, Becomes, held
    <2>4. "exited" \in PC /\ "exited" \notin Beyond
      BY DEF PC, Beyond
    <2> QED BY <1>0, <2>1, <2>2, <2>3, <2>4, Standing, OneService
  <1> QED BY <1>2, <1>3, <1>4, <1>5, <1>6, <1>7, <1>8, <1>9 DEF RunStep

LEMMA StartupStep == StartupInv /\ [Next]_vars => StartupInv'
  <1> SUFFICES ASSUME StartupInv, [Next]_vars PROVE StartupInv'
    OBVIOUS
  <1> USE DEF infrastructure, held
  <1>0. Types /\ \A s \in Services : ServiceInv(s)
    BY DEF StartupInv
  <1>a. kills \in 0..MaxKills /\ (kills < MaxKills => kills + 1 \in 0..MaxKills)
    BY <1>0, BoundsAssumption DEF Types
  <1>1. ASSUME NEW x \in Stores, Comes(x) \/ Goes(x) PROVE StartupInv'
    <2>1. outages < MaxOutages => outages + 1 \in 0..MaxOutages
      BY <1>0, BoundsAssumption DEF Types
    <2>2. outages' \in 0..MaxOutages /\ up' \in [Stores -> BOOLEAN]
      BY <1>0, <1>1, <2>1 DEF Types, Comes, Goes
    <2>3. Types'
      BY <1>0, <1>1, <2>2 DEF Types, Comes, Goes
    <2> QED BY <1>1, <2>3, NoService DEF Comes, Goes
  <1>2. CASE Migrate
    <2>1. Types'
      BY <1>0, <1>2 DEF Types, Migrate
    <2> QED BY <1>2, <2>1, NoService DEF Migrate
  <1>3. ASSUME NEW s \in Services, Signal(s) PROVE StartupInv'
    <2>1. Types'
      BY <1>0, <1>a, <1>3 DEF Types, Signal
    <2> QED BY <1>3, <2>1, NoService DEF Signal
  <1>4. ASSUME NEW s \in Services, Start(s) \/ Restart(s) PROVE StartupInv'
    <2>1. Begin(s) /\ migration = "done"
      BY <1>0, <1>4 DEF Start, Restart, ServiceInv
    <2>2. /\ HoldsAt("config", {}, <<>>) /\ "config" \in PC \ Beyond /\ "none" \in Cause
          /\ <<>> \in Stack
      BY DEF HoldsAt, PC, Cause, Stack, Owed, Beyond
    <2>3. Alone
      BY <1>0, <2>1 DEF Begin, Types, Alone
    <2>4. Becomes(s, "config", {}, <<>>, "none")
      BY <2>1 DEF Begin, Becomes
    <2> QED BY <2>1, <2>2, <2>3, <2>4, OneService
  <1>5. ASSUME NEW s \in Services, Kill(s) PROVE StartupInv'
    <2>1. HoldsAt("exited", opened[s], deferred[s]) /\ Running(s)
      BY <1>0, <1>5 DEF Kill, HoldsAt, ServiceInv
    <2>2. Alone
      BY <1>0, <1>a, <1>5 DEF Kill, Types, Alone
    <2>3. Becomes(s, "exited", opened[s], deferred[s], "kill")
      BY <1>5, <2>1, Standing DEF Kill, Becomes
    <2>4. "exited" \in PC /\ "exited" \notin Beyond /\ "kill" \in Cause
      BY DEF PC, Beyond, Cause
    <2> QED BY <2>1, <2>2, <2>3, <2>4, Standing, OneService
  <1>6. ASSUME NEW s \in Services, RunStep(s) PROVE StartupInv'
    <2>1. Alone
      BY <1>0, <1>6 DEF Alone, RunStep, LoadConfig, OpenMySQL, OpenRedis, Open, PingMySQL,
                        PingRedis, Ping, Build, Close, Exit, Types
    <2> QED BY <1>6, <2>1, RunStepKeeps
  <1>7. ASSUME NEW s \in Services, Serve(s) PROVE StartupInv'
    <2>1. Alone /\ Running(s)
      BY <1>0, <1>a, <1>7 DEF Alone, Serve, Types, Running
    <2>2. opened[s] = Owed(deferred[s])
      BY <1>0, <1>7, Stacks DEF Serve, ServiceInv, HoldsAt, Owed
    <2> QED BY <1>7, <2>1, <2>2, Returns DEF Serve, Cause
  <1>8. CASE UNCHANGED vars
    <2>1. Types'
      BY <1>0, <1>8 DEF vars, Types
    <2> QED BY <1>8, <2>1, NoService DEF vars
  <1> QED BY <1>1, <1>2, <1>3, <1>4, <1>5, <1>6, <1>7, <1>8 DEF Next

LEMMA StartupInductive == Spec => []StartupInv
  BY StartupInit, StartupStep, PTL DEF Spec

-----------------------------------------------------------------------------
(* The theorems.                                                           *)

\* Types, and Close is deferred for no store that is not open.
THEOREM StartupTypeCorrect == Spec => []TypeOK
  <1>1. StartupInv => TypeOK
    <2> SUFFICES ASSUME StartupInv, NEW s \in Services PROVE TypeOK
      BY DEF Services
    <2>1. \A t \in Services : deferred[t] \in Seq(opened[t])
      BY DeferredIsOpen DEF StartupInv, Types, ServiceInv, HoldsAt
    <2> QED BY <2>1 DEF StartupInv, Types, TypeOK
  <1> QED BY StartupInductive, <1>1, PTL

\* At whichever step run returns, for whichever reason and whatever the environment,
\* the outages and the signals: what a failed open closes itself and what run has
\* deferred by then is together all that is open, so the process ends with nothing.
THEOREM EndedProcessesAreClosed == Spec => []EndedIsClosed
  <1>1. StartupInv => EndedIsClosed
    BY DEF StartupInv, ServiceInv, EndedIsClosed
  <1> QED BY StartupInductive, <1>1, PTL

\* No process has a store open before the migration has succeeded, restarts
\* included.
THEOREM MigrationComesFirst == Spec => []ServesMigrated
  <1>1. StartupInv => ServesMigrated
    BY DEF StartupInv, ServiceInv, HoldsAt, ServesMigrated
  <1> QED BY StartupInductive, <1>1, PTL

\* Whatever the environment, a mistake in it is found by Load or by nobody: the
\* constructors that come after it refuse no configuration.
THEOREM LoadIsComplete == Spec => []ConfigIsComplete
  <1>1. StartupInv => ConfigIsComplete
    BY DEF StartupInv, ServiceInv, ConfigIsComplete
  <1> QED BY StartupInductive, <1>1, PTL

-----------------------------------------------------------------------------
(* That the services serve in the end needs fairness and is checked by TLC *)
(* (ServesInTheEnd).  What is proved is that a start which nothing disturbs *)
(* succeeds, which is why the restarts come to an end.                     *)

Stages == {"mysql", "pingMySQL", "redis", "pingRedis", "build", "serving"}

Stage(at) == CASE at = "config"    -> 0
               [] at = "mysql"     -> 1
               [] at = "pingMySQL" -> 2
               [] at = "redis"     -> 3
               [] at = "pingRedis" -> 4
               [] at = "build"     -> 5
               [] OTHER            -> 6

\* The environment is right, both stores answer and no signal has arrived.
Undisturbed(s) == Loads(env) /\ HasAssets(s) /\ ~ctxDone[s] /\ \A x \in Stores : up[x]

Straight ==
    \A s \in Services :
        (/\ Undisturbed(s)
         /\ pc[s] \in {"config"} \cup Stages
         /\ pc'[s] # pc[s]) =>
            \/ kills' > kills
            \/ pc'[s] \in Stages /\ Stage(pc'[s]) = Stage(pc[s]) + 1

StartsStraight == [][Straight]_vars

\* In an undisturbed start every step is the next one of run, for every environment
\* that Load accepts: none of the constructors between config and serving refuses,
\* and six steps after Docker began it the process serves.
THEOREM UndisturbedStartsServe == Spec => StartsStraight
  <1>1. StartupInv /\ [Next]_vars => Straight
    <2> SUFFICES ASSUME StartupInv, [Next]_vars, NEW s \in Services, Undisturbed(s),
                        pc[s] \in {"config"} \cup Stages,
                        pc'[s] # pc[s], ~(kills' > kills)
                 PROVE  pc'[s] \in Stages /\ Stage(pc'[s]) = Stage(pc[s]) + 1
      BY DEF Straight
    <2>1. /\ Loads(env) /\ LoggerAccepts(env) /\ MySQLAccepts(env) /\ RedisAccepts(env)
          /\ QueueAccepts(env) /\ HasAssets(s)
      BY LoadFindsEveryMistake DEF Undisturbed
    <2>2. /\ ~ctxDone[s] /\ up["mysql"] /\ up["redis"]
          /\ pc \in [Services -> PC] /\ kills \in Nat
      BY BoundsAssumption DEF Undisturbed, Stores, StartupInv, Types
    <2>3. \A t \in Services : \A to : pc' = [pc EXCEPT ![t] = to] => t = s /\ pc'[s] = to
      BY <2>2
    <2>4. ASSUME NEW t \in Services, Start(t) \/ Restart(t) PROVE FALSE
      <3>1. pc' = [pc EXCEPT ![t] = "config"] /\ pc[t] \in {"created", "exited"}
        BY <2>4 DEF Start, Restart, Begin
      <3> QED BY <2>3, <3>1 DEF Stages
    <2>5. ASSUME NEW t \in Services, Signal(t) PROVE FALSE
      BY <2>5 DEF Signal
    <2>6. ASSUME NEW t \in Services, Kill(t) \/ Serve(t) PROVE FALSE
      <3>1. \E to : pc' = [pc EXCEPT ![t] = to]
        BY <2>6 DEF Kill, Serve, End
      <3>2. t = s
        BY <2>3, <3>1
      <3> QED BY <2>2, <2>6, <3>2 DEF Kill, Serve
    <2>7. ASSUME NEW t \in Services, RunStep(t)
          PROVE  pc'[s] \in Stages /\ Stage(pc'[s]) = Stage(pc[s]) + 1
      <3>1. t = s
        <4>1. (\E to : pc' = [pc EXCEPT ![t] = to]) \/ UNCHANGED pc
          BY <2>7 DEF RunStep, LoadConfig, OpenMySQL, OpenRedis, Open, PingMySQL, PingRedis,
                      Ping, Build, Exit, Close, Goto, End
        <4> QED BY <2>3, <4>1
      <3>2. CASE LoadConfig(s)
        <4>1. pc[s] = "config" /\ pc'[s] = "mysql"
          BY <2>1, <2>3, <3>2 DEF LoadConfig, Goto
        <4> QED BY <4>1 DEF Stage, Stages
      <3>3. CASE OpenMySQL(s)
        <4>1. pc[s] = "mysql" /\ pc'[s] = "pingMySQL"
          BY <2>1, <2>2, <2>3, <3>3 DEF OpenMySQL, Open, Goto
        <4> QED BY <4>1 DEF Stage, Stages
      <3>4. CASE PingMySQL(s)
        <4>1. pc[s] = "pingMySQL" /\ pc'[s] = "redis"
          BY <2>2, <2>3, <3>4 DEF PingMySQL, Ping, Goto
        <4> QED BY <4>1 DEF Stage, Stages
      <3>5. CASE OpenRedis(s)
        <4>1. pc[s] = "redis" /\ pc'[s] = "pingRedis"
          BY <2>1, <2>3, <3>5 DEF OpenRedis, Open, Goto
        <4> QED BY <4>1 DEF Stage, Stages
      <3>6. CASE PingRedis(s)
        <4>1. pc[s] = "pingRedis" /\ pc'[s] = "build"
          BY <2>2, <2>3, <3>6 DEF PingRedis, Ping, Goto
        <4> QED BY <4>1 DEF Stage, Stages
      <3>7. CASE Build(s)
        <4>1. pc[s] = "build" /\ pc'[s] = "serving"
          BY <2>1, <2>3, <3>7 DEF Build, Goto
        <4> QED BY <4>1 DEF Stage, Stages
      <3>8. CASE Exit(s) \/ Close(s)
        BY <3>8 DEF Exit, Close, Stages
      <3> QED BY <2>7, <3>1, <3>2, <3>3, <3>4, <3>5, <3>6, <3>7, <3>8 DEF RunStep
    <2>8. \E t \in Services : Start(t) \/ Restart(t) \/ Signal(t) \/ Kill(t) \/ RunStep(t) \/ Serve(t)
      BY DEF Next, Comes, Goes, Migrate, vars, infrastructure
    <2> QED BY <2>4, <2>5, <2>6, <2>7, <2>8
  <1>2. Init /\ [][Next]_vars => [][Straight]_vars
    BY <1>1, StartupInit, StartupStep, PTL
  <1> QED BY <1>2, PTL DEF Spec, StartsStraight

=============================================================================
