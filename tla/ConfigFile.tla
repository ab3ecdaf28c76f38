----------------------------- MODULE ConfigFile -----------------------------
(***************************************************************************)
(* Loading and checking the configuration file: Load and setDefaults of     *)
(* pkg/config/config.go, ValidateAndLoad and the rules of validator.go. A   *)
(* setting is known by its class: "zero" is Go's zero value, "ok" one that   *)
(* every rule takes, "low" and "high" are outside the range of the field,   *)
(* "odd" is no value of its list or format. The two pool sizes are numbers, *)
(* since one rule compares them. The state is a file that is written setting *)
(* by setting, and a value that the rules for single fields are asked about. *)
(***************************************************************************)
EXTENDS Integers, FiniteSets

CONSTANT MaxSettings \* bound on the settings of a file, for TLC

VARIABLES
    file, \* the settings a file gives
    value \* a value, and the bounds of the rules it is put to

vars == <<file, value>>

Ports == {"http.port", "grpc.port", "database.port", "redis.port", "consul.port"}
Lists == {"app.env", "database.driver", "database.log_level", "redis.mode",
          "log.level", "log.format", "log.output"}
Formats == {"consul.check_interval", "consul.check_timeout", "nats.url"}
Amounts == {"http.read_timeout", "http.write_timeout", "database.conn_max_lifetime",
            "database.slow_query_threshold", "redis.pool_size", "redis.dial_timeout",
            "nats.max_reconnects", "nats.reconnect_wait", "nats.connect_timeout",
            "log.max_size", "log.max_backups", "log.max_age"}
Ranges == {"redis.db", "trace.sample_rate"}
Texts == {"app.name", "app.version", "redis.addrs", "redis.master_name",
          "redis.sentinel_addrs", "trace.enabled", "trace.service_name", "trace.endpoint"}
MaxIdle == "database.max_idle_conns"
MaxOpen == "database.max_open_conns"
Fields == Ports \cup Lists \cup Formats \cup Amounts \cup Ranges \cup Texts \cup {MaxIdle, MaxOpen}

\* What a field can be set to.
Settings(f) ==
    CASE f \in {MaxIdle, MaxOpen} -> {-1, 0, 5, 50, 200}
      [] f = "redis.mode" -> {"zero", "ok", "cluster", "sentinel", "odd"}
      [] f \in Ports \cup Ranges -> {"zero", "ok", "low", "high"}
      [] f \in Amounts -> {"zero", "ok", "low"}
      [] f \in Lists \cup Formats -> {"zero", "ok", "odd"}
      [] f \in Texts -> {"zero", "ok"}

\* setDefaults: the fields it gives a value, and the value. WithDefault's
\* configuration is not looked at.
WithoutDefault == {"redis.mode", "redis.addrs", "redis.master_name",
                   "redis.sentinel_addrs", "trace.service_name", "trace.endpoint"}

\* (Faulty variant of Default: fewer connections may be open than idle.)
DefaultTooFew(f) == CASE f = MaxIdle -> 10 [] f = MaxOpen -> 5 [] OTHER -> "ok"

Default(f) ==
    CASE f = MaxIdle -> 10
      [] f = MaxOpen -> 100
      [] f \in WithoutDefault \cup {"redis.db", "trace.enabled"} -> "zero"
      [] OTHER -> "ok"

Zero(f) == IF f \in {MaxIdle, MaxOpen} THEN 0 ELSE "zero"

\* Load: the file wins over the defaults. (Variables of the environment, which
\* win over both for the keys these two know, are left out.)
Loaded(text) == [f \in Fields |-> IF f \in DOMAIN text THEN text[f] ELSE Default(f)]

\* The same text read by ConsulConfigCenter.parseConfig, which has no defaults.
Parsed(text) == [f \in Fields |-> IF f \in DOMAIN text THEN text[f] ELSE Zero(f)]

-----------------------------------------------------------------------------
(* ValidateConfig: the fields it reports *)

Bad(cfg, fields, classes) == {f \in fields : cfg[f] \in classes}

ValidateApp(cfg) ==
    Bad(cfg, {"app.name", "app.version"}, {"zero"}) \cup Bad(cfg, {"app.env"}, {"odd"})

ValidateServer(cfg) ==
    Bad(cfg, {"http.port", "grpc.port"}, {"low", "high"})
    \cup Bad(cfg, {"http.read_timeout", "http.write_timeout"}, {"low"})

ValidateDatabase(cfg) ==
    Bad(cfg, {"database.driver", "database.log_level"}, {"odd"})
    \cup Bad(cfg, {"database.port"}, {"low", "high"})
    \cup {f \in {MaxIdle, MaxOpen} : cfg[f] < 0}
    \cup {f \in {MaxIdle} : cfg[MaxIdle] > 0 /\ cfg[MaxOpen] > 0 /\ cfg[MaxIdle] > cfg[MaxOpen]}
    \cup Bad(cfg, {"database.conn_max_lifetime", "database.slow_query_threshold"}, {"low"})

ValidateRedis(cfg) ==
    Bad(cfg, {"redis.port", "redis.db"}, {"low", "high"})
    \cup Bad(cfg, {"redis.pool_size", "redis.dial_timeout"}, {"low"})
    \cup Bad(cfg, {"redis.mode"}, {"odd"})
    \cup Bad(cfg, CASE cfg["redis.mode"] = "cluster" -> {"redis.addrs"}
                    [] cfg["redis.mode"] = "sentinel" ->
                           {"redis.master_name", "redis.sentinel_addrs"}
                    [] OTHER -> {}, {"zero"})

ValidateConsul(cfg) ==
    Bad(cfg, {"consul.port"}, {"low", "high"})
    \cup Bad(cfg, {"consul.check_interval", "consul.check_timeout"}, {"odd"})

ValidateNATS(cfg) ==
    Bad(cfg, {"nats.url"}, {"odd"})
    \cup Bad(cfg, {"nats.max_reconnects", "nats.reconnect_wait", "nats.connect_timeout"}, {"low"})

ValidateLog(cfg) ==
    Bad(cfg, {"log.level", "log.format", "log.output"}, {"odd"})
    \cup Bad(cfg, {"log.max_size", "log.max_backups", "log.max_age"}, {"low"})

ValidateTrace(cfg) ==
    {f \in {"trace.service_name", "trace.endpoint"} :
        cfg["trace.enabled"] = "ok" /\ cfg[f] = "zero"}
    \cup Bad(cfg, {"trace.sample_rate"}, {"low", "high"})

\* The rules of AddRule are kept and not asked.
ValidateConfig(cfg) ==
    ValidateApp(cfg) \cup ValidateServer(cfg) \cup ValidateDatabase(cfg)
    \cup ValidateRedis(cfg) \cup ValidateConsul(cfg) \cup ValidateNATS(cfg)
    \cup ValidateLog(cfg) \cup ValidateTrace(cfg)

\* The configuration is the global one whether or not it is then accepted.
ValidateAndLoad(text) ==
    [global |-> Loaded(text), accepted |-> ValidateConfig(Loaded(text)) = {}]

-----------------------------------------------------------------------------
(* The rules for a single field: whether each refuses a value. n is a number, *)
(* or the length of a string or slice; form is what a string looks like.      *)

IntKinds == {"int", "int32", "int64"}
StringForms == {"email", "url", "ip", "duration", "other"}
Samples == {v \in [kind : IntKinds \cup {"uint", "string", "slice", "nil"},
                   n : {-1, 0, 1, 2, 65535, 65536}, form : StringForms \cup {"empty"},
                   lo : {0, 1}, hi : {1, 65535}] :
    /\ v.kind \notin IntKinds => v.n >= 0
    /\ v.kind = "nil" => v.n = 0
    /\ IF v.kind = "string" THEN v.n = 0 <=> v.form = "empty" ELSE v.form = "empty"}

IsEmptyValue(v) == v.kind = "nil" \/ v.n = 0
Required(v) == IsEmptyValue(v)
Measured(v) == v.kind \in IntKinds \cup {"string", "slice"}
MinRule(v) == Measured(v) /\ v.n < v.lo

\* (Faulty variant of MaxRule: the bound itself is refused.)
MaxRuleExclusive(v) == Measured(v) /\ v.n >= v.hi
MaxRule(v) == Measured(v) /\ v.n > v.hi
RangeRule(v) == v.kind \in IntKinds /\ (v.n < v.lo \/ v.n > v.hi)
OneOf(v, allowed) == v.kind = "string" /\ v.form \notin allowed

\* Pattern, Email, URL, IP and Duration.
FormatRule(v, form) == v.kind = "string" /\ v.form # "empty" /\ v.form # form
Port(v) == v.kind \in {"int", "int64"} /\ (v.n < 0 \/ v.n > 65535)

-----------------------------------------------------------------------------

NoValue == [kind |-> "nil", n |-> 0, form |-> "empty", lo |-> 0, hi |-> 1]

Init == file = <<>> /\ value = NoValue

\* Somebody adds a setting to the file.
Write(f) ==
    /\ value = NoValue
    /\ f \notin DOMAIN file /\ Cardinality(DOMAIN file) < MaxSettings
    /\ \E x \in Settings(f) :
           file' = [g \in DOMAIN file \cup {f} |-> IF g = f THEN x ELSE file[g]]
    /\ UNCHANGED value

\* The rules are asked about another value, with other bounds.
Ask ==
    /\ file = <<>> /\ value = NoValue
    /\ value' \in Samples
    /\ UNCHANGED file

Next == Ask \/ \E f \in Fields : Write(f)

Spec == Init /\ [][Next]_vars

-----------------------------------------------------------------------------
(* Properties *)

\* setDefaults and ValidateConfig fit together: the defaults alone are accepted;
\* a file is accepted by Load if its text is accepted without defaults, but for
\* the pool sizes, which a default can put out of order; and the reverse, but for
\* the name and version a file may leave to the defaults. So the configuration
\* center, which has no defaults, is no laxer than the file.
DefaultsFit ==
    LET loaded == ValidateConfig(Loaded(file))
        parsed == ValidateConfig(Parsed(file))
    IN /\ file = <<>> => ValidateAndLoad(file).accepted
       /\ loaded \subseteq parsed \cup {MaxIdle}
       /\ parsed \subseteq loaded \cup {"app.name", "app.version"}

\* The rules for single fields agree with each other: a Range is a Min and a Max
\* for integers and refuses nothing else, Port is the Range of ports for the
\* kinds it looks at, and what Required refuses no format refuses, so that an
\* optional field can have a format, while OneOf has to list the empty string.
RulesAgree ==
    LET port == [value EXCEPT !.lo = 0, !.hi = 65535] IN
    /\ RangeRule(value) = (value.kind \in IntKinds /\ (MinRule(value) \/ MaxRule(value)))
    /\ Port(value) = (RangeRule(port) /\ value.kind # "int32")
    /\ Required(value) => \A form \in StringForms : ~FormatRule(value, form)
    /\ Required(value) /\ value.kind = "string" => OneOf(value, StringForms)
=============================================================================
