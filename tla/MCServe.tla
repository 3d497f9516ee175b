------------------------------ MODULE MCServe -------------------------------
(* Instances of Serve for TLC: the environments in which at most two variables *)
(* are set, beside the ones that select ClickHouse and the cache.              *)
EXTENDS Serve

Raw(set, val) == [set |-> set, val |-> val]

\* Around every bound that validate or a constructor knows.
Ints == {-1000, -1, 0, 1, 500, 1023, 1024, 1500, 16383, 16384, 65535, 65536, 1048575, 1048576}

Values(key) ==
    {Raw("junk", 0)} \cup
    CASE key \in DOMAIN OneOf -> {Raw("yes", v) : v \in OneOf[key]}
      [] key \in DOMAIN StringVars \ DOMAIN OneOf -> {Raw("yes", "host:port")}
      [] key \in DOMAIN BoolVars -> {Raw("yes", v) : v \in BOOLEAN}
      [] OTHER -> {Raw("yes", v) : v \in Ints}

Base == {Unset,
         [Unset EXCEPT !["STORE_BACKEND"] = Raw("yes", "clickhouse"),
                       !["CLICKHOUSE_ADDR"] = Raw("yes", "host:port"),
                       !["REDIS_ADDR"] = Raw("yes", "host:port")]}

\* The variables whose rules name another one.
Related == {"FLUSH_RETRY_BACKOFF", "FLUSH_RETRY_MAX_BACKOFF", "CLICKHOUSE_TLS",
            "CLICKHOUSE_TLS_INSECURE", "CLICKHOUSE_TLS_CA", "STORE_BACKEND"}

With(e, key) == {[e EXCEPT ![key] = v] : v \in Values(key)}

AllEnvs ==
    LET one == UNION {With(e, key) : e \in Base, key \in Keys}
    IN  Base \cup one
        \cup UNION {With(e, key) : e \in UNION {With(b, k) : b \in Base, k \in Related}, key \in Related}
=============================================================================
