SPECIFICATION Spec
CONSTANTS
    Users = {u1, u2}
    Queues = {"q"}
    Subs = {s1, s2, s3}
    None = None
    Probes = {p1, p2}
    Checkers = {k1, k2}
    CacheTTL = 2
    Timeout = 1
    MaxSettings = 2
    Tokens = {t1, t2}
    Callers = {a1, a2}
    AccessTokenTTL = 3
    FieldKeys = {"account"}
    Levels = {1, 3, 4}
    Strings <- SomeStrings
    NotString = NotString
    SensitiveTypes = {"id_card", "email", "password"}
    Sensitive <- NoKeys
    Rate = 2
    MaxHooks = 2
    MaxPreset = 1
    Topics <- SomeTopics
    Stacks <- SomeStacks
CHECK_DEADLOCK FALSE
INVARIANT RequestIDStands
