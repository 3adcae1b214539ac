------------------------------- MODULE Config -------------------------------
(***************************************************************************)
(* The configuration of the API and the worker: what config.Load makes of  *)
(* the environment, and what the constructors that are given the result    *)
(* check once more.  Load is to find every mistake that the environment    *)
(* alone shows, so that none is left to a constructor.                     *)
(*                                                                         *)
(* A variable of the environment is one of                                 *)
(*                                                                         *)
(*   "unset"       not set, or empty (Getenv does not tell them apart)     *)
(*   "blank"       only spaces                                             *)
(*   "bad"         not of the expected form, or not one of the values      *)
(*   "outOfRange"  a number that is too small or too large                 *)
(*   "good"        anything else                                           *)
(***************************************************************************)

\* Variables without a default.
Required == {"MYSQL_HOST", "MYSQL_DATABASE", "MYSQL_USER", "MYSQL_PASSWORD", "REDIS_HOST"}

\* Variables that intFromEnvironment reads.
Numbers == {"MYSQL_PORT", "REDIS_PORT", "REDIS_DB"}

\* Variables that valueOrDefault reads.
Texts == {"APP_ENV", "LOG_LEVEL", "HTTP_ADDRESS", "UI_ASSETS_DIR", "REDIS_QUEUE_NAME"}

\* Those that Validate checks beyond their presence.
Checked == Numbers \cup {"APP_ENV", "LOG_LEVEL", "HTTP_ADDRESS"}

Names == Required \cup Numbers \cup Texts

\* What each may be; assets that are "bad" lack index.html.
Classes(n) ==
    {"unset", "blank", "good"}
    \cup {c \in {"bad"} : n \in Checked \cup {"UI_ASSETS_DIR"}}
    \cup {c \in {"outOfRange"} : n \in Numbers \cup {"HTTP_ADDRESS"}}

\* valueOrDefault and intFromEnvironment replace an absent value by a good one.
\* The required variables are taken as they are.
Field(env, n) ==
    IF n \notin Required /\ env[n] \in {"unset", "blank"} THEN "good" ELSE env[n]

\* Load fails on the first number that strconv.Atoi does not accept; Validate
\* collects the other mistakes.
Parses(env) == \A n \in Numbers : Field(env, n) # "bad"

ValidatesMutant(env) ==     \* required values are compared with "", as before trimming
    /\ \A n \in Required : env[n] # "unset"
    /\ \A n \in Checked : Field(env, n) \notin {"bad", "outOfRange"}

Validates(env) ==
    /\ \A n \in Required : env[n] \notin {"unset", "blank"}
    /\ \A n \in Checked : Field(env, n) \notin {"bad", "outOfRange"}

Loads(env) == Parses(env) /\ Validates(env)

\* logging.New, validateMySQLOptions, validateRedisOptions and NewJobQueue.  The
\* MySQL options are compared with the empty string, the Redis host is trimmed.
LoggerAccepts(env) == Field(env, "LOG_LEVEL") # "bad"

MySQLAccepts(env) ==
    /\ \A n \in {"MYSQL_HOST", "MYSQL_DATABASE", "MYSQL_USER", "MYSQL_PASSWORD"} :
           env[n] # "unset"
    /\ Field(env, "MYSQL_PORT") # "outOfRange"

RedisAccepts(env) ==
    /\ env["REDIS_HOST"] \notin {"unset", "blank"}
    /\ Field(env, "REDIS_PORT") # "outOfRange"
    /\ Field(env, "REDIS_DB") # "outOfRange"

QueueAccepts(env) == Field(env, "REDIS_QUEUE_NAME") \notin {"unset", "blank"}

=============================================================================
