------------------------------- MODULE Config -------------------------------
(***************************************************************************)
(* From the environment to what the components run with: Load and validate *)
(* (internal/config/config.go), and the values that ingest.New, NewTrino   *)
(* and newClickHouseStore use instead of ones they cannot work with.       *)
(*                                                                         *)
(* The environment gives every variable a raw value [set, val]: it is not  *)
(* "set" or empty ("no"), does not parse ("junk"), or holds val ("yes").   *)
(* Times are in milliseconds.  Names, addresses of Trino and passwords,    *)
(* which are passed on as they are, are left out.                          *)
(***************************************************************************)
EXTENDS Integers

StringVars == [STORE_BACKEND |-> "trino", READINESS_MODE |-> "connection",
            PLAN_CAPTURE |-> "slow_or_failed", LOG_LEVEL |-> "info", REDIS_ADDR |-> "",
            CLICKHOUSE_ADDR |-> "", CLICKHOUSE_TABLE |-> "trino_query_log", CLICKHOUSE_TLS_CA |-> ""]

IntVars == [TRINO_PORT |-> 8080, BATCH_SIZE |-> 100, BUFFER_CAPACITY |-> 10000,
            FLUSH_MAX_RETRIES |-> 3, MAX_STATEMENT_BYTES |-> 700000, MAX_FIELD_BYTES |-> 300000,
            QUERY_PREVIEW_BYTES |-> 200, RETENTION_DAYS |-> 7, OPTIMIZE_DAYS |-> 1,
            REDIS_DB |-> 0, CLICKHOUSE_MAX_BATCH_BYTES |-> 8388608]

DurationVars == [FLUSH_INTERVAL |-> 5000, FLUSH_RETRY_BACKOFF |-> 1000,
              FLUSH_RETRY_MAX_BACKOFF |-> 30000, PLAN_CAPTURE_MIN_WALL |-> 10000,
              READINESS_INTERVAL |-> 30000, READINESS_FAIL_INTERVAL |-> 30000,
              READINESS_TIMEOUT |-> 10000, CACHE_LIST_TTL |-> 600000, CACHE_QUERY_TTL |-> 3600000,
              CACHE_TIMEOUT |-> 250, TRINO_QUERY_TIMEOUT |-> 60000,
              CLICKHOUSE_QUERY_TIMEOUT |-> 60000, CLICKHOUSE_DIAL_TIMEOUT |-> 5000]

BoolVars == [CLICKHOUSE_TLS |-> FALSE, CLICKHOUSE_TLS_INSECURE |-> FALSE, METRICS_ENABLED |-> TRUE]

Keys == DOMAIN StringVars \cup DOMAIN IntVars \cup DOMAIN DurationVars \cup DOMAIN BoolVars

Default(key) == CASE key \in DOMAIN StringVars -> StringVars[key]
                  [] key \in DOMAIN IntVars -> IntVars[key]
                  [] key \in DOMAIN DurationVars -> DurationVars[key]
                  [] OTHER -> BoolVars[key]

\* What parses is a number, a boolean or a string.
IsEnvironment(env) ==
    \A key \in Keys :
        /\ env[key].set \in {"no", "junk", "yes"}
        /\ env[key].set = "yes" =>
              /\ key \in DOMAIN StringVars => env[key].val \in STRING
              /\ key \in DOMAIN IntVars \cup DOMAIN DurationVars => env[key].val \in Int
              /\ key \in DOMAIN BoolVars => env[key].val \in BOOLEAN

\* str, intVal, boolVal and duration.  Any string is one; what does not parse as a
\* number, a boolean or a duration leaves the default, and an error.
Read(env, key) == IF env[key].set = "yes" THEN env[key].val
                  ELSE IF env[key].set = "junk" /\ key \in DOMAIN StringVars THEN "junk"
                  ELSE Default(key)

Errs(env) == {key \in Keys \ DOMAIN StringVars : env[key].set = "junk"}

-----------------------------------------------------------------------------
\* At least so much is asked for, of every store and of the ones that are used.
Least == [BATCH_SIZE |-> 1, FLUSH_INTERVAL |-> 1, BUFFER_CAPACITY |-> 1, FLUSH_MAX_RETRIES |-> 0,
          FLUSH_RETRY_BACKOFF |-> 1, MAX_STATEMENT_BYTES |-> 16384, MAX_FIELD_BYTES |-> 1024,
          RETENTION_DAYS |-> 0, OPTIMIZE_DAYS |-> 0, READINESS_INTERVAL |-> 1,
          READINESS_FAIL_INTERVAL |-> 1, READINESS_TIMEOUT |-> 1, PLAN_CAPTURE_MIN_WALL |-> 0,
          QUERY_PREVIEW_BYTES |-> 1, TRINO_PORT |-> 1]

LeastClickHouse == [CLICKHOUSE_DIAL_TIMEOUT |-> 1, CLICKHOUSE_QUERY_TIMEOUT |-> 1,
                    CLICKHOUSE_MAX_BATCH_BYTES |-> 1048576]

LeastCache == [REDIS_DB |-> 0, CACHE_LIST_TTL |-> 1, CACHE_QUERY_TTL |-> 1, CACHE_TIMEOUT |-> 1]

OneOf == [STORE_BACKEND |-> {"trino", "clickhouse"}, READINESS_MODE |-> {"connection", "table"},
          PLAN_CAPTURE |-> {"all", "slow_or_failed", "none"},
          LOG_LEVEL |-> {"debug", "info", "warn", "error"}]

\* validHostPort and identifierPattern; "host:port" and "trino_query_log" stand for
\* what they accept.
ValidHostPort(v) == v = "host:port"
ValidIdentifier(v) == v = "trino_query_log"

\* Mutant: the two backoffs are not compared.
BackoffsInOrder_Positive(c) == c.FLUSH_RETRY_MAX_BACKOFF > 0

BackoffsInOrder(c) == c.FLUSH_RETRY_MAX_BACKOFF >= c.FLUSH_RETRY_BACKOFF

AtLeast(c, least) == \A key \in DOMAIN least : c[key] >= least[key]

PortInRange(c) == c.TRINO_PORT <= 65535

\* The other settings of TLS are only for when it is on.
TLSIsOn(c) == c.CLICKHOUSE_TLS_INSECURE \/ c.CLICKHOUSE_TLS_CA # "" => c.CLICKHOUSE_TLS

\* No error is found.
validate(c) ==
    /\ AtLeast(c, Least) /\ PortInRange(c) /\ BackoffsInOrder(c)
    /\ \A key \in DOMAIN OneOf : c[key] \in OneOf[key]
    /\ c.STORE_BACKEND = "clickhouse" =>
          /\ AtLeast(c, LeastClickHouse)
          /\ ValidHostPort(c.CLICKHOUSE_ADDR) /\ ValidIdentifier(c.CLICKHOUSE_TABLE)
          /\ TLSIsOn(c)
    /\ c.REDIS_ADDR # "" => AtLeast(c, LeastCache)

\* What the environment says, with the defaults, and whether Load takes it.
Settings(env) == [key \in Keys |-> Read(env, key)]

LoadOk(env) == Errs(env) = {} /\ validate(Settings(env))

StoreQueryTimeout(c) == IF c.STORE_BACKEND = "clickhouse" THEN c.CLICKHOUSE_QUERY_TIMEOUT
                        ELSE c.TRINO_QUERY_TIMEOUT

-----------------------------------------------------------------------------
(* What the components make of it.                                         *)

OrElse(v, least, fallback) == IF v < least THEN fallback ELSE v

\* ingest.New; flushTimeout has no variable of its own.
New(c) ==
    LET backoff == OrElse(c.FLUSH_RETRY_BACKOFF, 1, 3000) IN
    [flushTimeout |-> OrElse(StoreQueryTimeout(c), 1, 30000),
     BUFFER_CAPACITY |-> OrElse(c.BUFFER_CAPACITY, 1, 1),
     FLUSH_RETRY_BACKOFF |-> backoff,
     FLUSH_RETRY_MAX_BACKOFF |-> OrElse(c.FLUSH_RETRY_MAX_BACKOFF, backoff, 30000)]

\* NewTrino: 0 is for no limit.
NewTrino(c) == [MAX_STATEMENT_BYTES |-> OrElse(c.MAX_STATEMENT_BYTES, 1, 700000),
                TRINO_QUERY_TIMEOUT |-> OrElse(c.TRINO_QUERY_TIMEOUT, 1, 0)]

\* newClickHouseStore, and clickhouseOptions, where max_execution_time counts seconds.
NewClickHouse(c) ==
    [CLICKHOUSE_MAX_BATCH_BYTES |-> OrElse(c.CLICKHOUSE_MAX_BATCH_BYTES, 1, 8388608),
     CLICKHOUSE_QUERY_TIMEOUT |-> c.CLICKHOUSE_QUERY_TIMEOUT,
     maxExecutionTime |-> 1000 * OrElse(c.CLICKHOUSE_QUERY_TIMEOUT \div 1000, 1, 1)]

NewStore(c) == IF c.STORE_BACKEND = "clickhouse" THEN NewClickHouse(c) ELSE NewTrino(c)
=============================================================================
