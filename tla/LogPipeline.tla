---------------------------- MODULE LogPipeline ----------------------------
(***************************************************************************)
(* A logger of goupter's pkg/log and what is wrapped around it: names,       *)
(* hooks, sampling and masking, in any order, over the zap logger at the     *)
(* bottom.  A call goes down from the outermost wrapper until one stops it;  *)
(* With and WithContext go down as well and leave their fields at the        *)
(* bottom.  The logger in hand is the one the last With made.                *)
(*                                                                          *)
(* A field has a key and is a string or not; of a string the length and the  *)
(* place of its first "@" count, and how many of its bytes are in the clear. *)
(* Messages, formats, files, stacks and the pattern rules of the masker are   *)
(* left out.                                                                *)
(***************************************************************************)
EXTENDS Integers, Sequences, FiniteSets, TLC

CONSTANTS
    Stacks,    \* orders of wrappers, the outermost first
    FieldKeys, \* keys of fields
    Strings,   \* their length, and the bytes before the first "@", -1 without one
    NotString, \* a value that is no string
    SensitiveTypes, \* the ones in use
    Levels,    \* of debug 0, info 1, warn 2, error 3 and fatal 4, the ones in use
    Sensitive, \* the keys sensitive from the start, with their types
    Rate,      \* of the RateSampler
    MaxHooks,  \* bound on the hooks
    MaxPreset  \* bound on the fields of a logger

VARIABLES
    layers,    \* the wrappers of the logger
    sensitive, \* DefaultMasker.sensitiveKeys
    preset,    \* zapLogger.fields of the logger in hand
    level,     \* the level all loggers derived from one share
    hooks,     \* HookManager, in the order of Add
    counter,   \* RateSampler.counter, modulo the rate
    seen       \* what the last call gave to hooks and wrote

vars == <<layers, sensitive, preset, level, hooks, counter, seen>>

Info == 1
Error == 3
Fatal == 4

\* The sensitive type of a key as things are.
KindOf(k) == IF k \in DOMAIN sensitive THEN sensitive[k] ELSE "none"

\* What a caller hands over, with the type of its key, all of it in the clear.
Given == [key : FieldKeys, text : Strings \cup {NotString}]
Raw(g) == [key |-> g.key, value |-> "own", text |-> g.text, kind |-> KindOf(g.key),
           clear |-> IF g.text = NotString THEN 0 ELSE g.text.length]

Init ==
    /\ layers \in Stacks
    /\ sensitive = Sensitive /\ preset = {} /\ level = Info /\ hooks = <<>> /\ counter = 0
    /\ seen = {}

-----------------------------------------------------------------------------
(* masker.go *)

\* maskPhone, maskIDCard, maskBankCard and maskEmail: the bytes of a string they
\* leave in the clear, 3 and 4, 6 and 4, or the first letter and all from "@" on;
\* a string of another length, a password, a token or a custom one has none.
Kept(kind, s) ==
    CASE kind = "phone" /\ s.length = 11 -> 7
      [] kind \in {"id_card", "bank_card"} /\ s.length >= 10 -> 10
      [] kind = "email" /\ s.at >= 1 -> 1 + (s.length - s.at)
      [] OTHER -> 0

\* DefaultMasker.MaskField: strings under sensitive keys; other values stay.
MaskField(f) ==
    IF KindOf(f.key) = "none" \/ f.text = NotString THEN f
    ELSE [f EXCEPT !.clear = Kept(KindOf(f.key), f.text)]

Above(kind, i) == \E j \in 1..(i - 1) : layers[j] = kind
Bottom == Len(layers) + 1

\* Fields as they come to layer i, MaskedLogger masking what passes it.
At(i, fields) == IF Above("masked", i) THEN {MaskField(f) : f \in fields} ELSE fields

AddSensitiveKey(k, kind) ==
    /\ sensitive' = [j \in DOMAIN sensitive \cup {k} |-> IF j = k THEN kind ELSE sensitive[j]]
    /\ seen' = {}
    /\ UNCHANGED <<layers, preset, level, hooks, counter>>

-----------------------------------------------------------------------------
(* Deriving loggers: With, WithContext and NamedLogger.Named *)

\* (Faulty variant of With: MaskedLogger hands the fields down as they are.)
WithRaw(g) ==
    /\ Cardinality(preset) < MaxPreset
    /\ preset' = preset \cup {Raw(g)} /\ seen' = {}
    /\ UNCHANGED <<layers, sensitive, level, hooks, counter>>

\* Every wrapper's With calls the one below, MaskedLogger's with masked fields.
With(g) ==
    /\ Cardinality(preset) < MaxPreset
    /\ preset' = preset \cup At(Bottom, {Raw(g)}) /\ seen' = {}
    /\ UNCHANGED <<layers, sensitive, level, hooks, counter>>

\* The keys of the context, and the context the Logger middleware makes: the id of
\* the request, then the trace id of the client or, without one, the same id.
contextKey == "contextKey{}"
traceIDKey == contextKey
requestIDKey == contextKey
RequestContext(trace) == (traceIDKey :> trace) @@ (requestIDKey :> "request")

\* An id is a UUID, or what the client sent for one.
IdText == [length |-> 36, at |-> -1]

\* zapLogger.WithContext adds the ids at the bottom, past the masker.
WithContext ==
    /\ Cardinality(preset) < MaxPreset
    /\ \E trace \in {"request", "trace"} :
          LET ctx == RequestContext(trace)
              Id(key, value) == [key |-> key, value |-> value, text |-> IdText, kind |-> "none",
                                 clear |-> IdText.length]
          IN preset' = preset \cup {Id("trace_id", ctx[traceIDKey]),
                                   Id("request_id", ctx[requestIDKey])}
    /\ seen' = {}
    /\ UNCHANGED <<layers, sensitive, level, hooks, counter>>

NameText == [length |-> 3, at |-> -1]

\* NamedLogger.Named: the loggers below get the longer name as one more field.
Named ==
    /\ layers[1] = "named" /\ Cardinality(preset) < MaxPreset
    /\ preset' = preset \cup At(Bottom, {Raw([key |-> "logger", text |-> NameText])}) /\ seen' = {}
    /\ UNCHANGED <<layers, sensitive, level, hooks, counter>>

SetLevel(n) ==
    /\ level' = n /\ seen' = {}
    /\ UNCHANGED <<layers, sensitive, preset, hooks, counter>>

-----------------------------------------------------------------------------
(* hook.go and sampler.go *)

\* HookManager.Add; ErrorHook is a hook of the two highest levels.
AddHook(levels, fails) ==
    /\ "hooked" \in {layers[i] : i \in DOMAIN layers} /\ Len(hooks) < MaxHooks
    /\ hooks' = Append(hooks, [levels |-> levels, fails |-> fails]) /\ seen' = {}
    /\ UNCHANGED <<layers, sensitive, preset, level, counter>>

\* The hooks HookManager.Fire comes to: those of the level up to one that fails.
Fired(n) ==
    {h \in DOMAIN hooks :
        /\ n \in hooks[h].levels
        /\ \A g \in 1..(h - 1) : ~(n \in hooks[g].levels /\ hooks[g].fails)}

\* RateSampler.Sample, after the increment.
Sampled(n) == n % Rate = 1

\* SampledLogger lets fatal calls pass without asking the sampler.
Asked(n) == n # Fatal /\ \E i \in DOMAIN layers : layers[i] = "sampled"
Reaches(i, n) == ~Above("sampled", i) \/ n = Fatal \/ Sampled(counter + 1)

\* What comes out at the bottom: the preset fields, then those of the call.
Output(n, fields) ==
    IF Reaches(Bottom, n) /\ n >= level
    THEN {[by |-> 0, masked |-> Above("masked", Bottom), fields |-> preset \cup At(Bottom, fields)]}
    ELSE {}

\* Debug, Info, Warn, Error and Fatal: hooks get the fields of the call, whether
\* or not the level is enabled.
Log(n, given) ==
    LET fields == {Raw(g) : g \in given} IN
    /\ counter' = IF Asked(n) THEN (counter + 1) % Rate ELSE counter
    /\ seen' = {[by |-> h, masked |-> Above("masked", i), fields |-> At(i, fields)] :
                   h \in Fired(n),
                   i \in {j \in DOMAIN layers : layers[j] = "hooked" /\ Reaches(j, n)}}
               \cup Output(n, fields)
    /\ UNCHANGED <<layers, sensitive, preset, level, hooks>>

HookLevels == {Levels, {Error, Fatal}}
Fields == {{}} \cup {{g} : g \in Given}

Next ==
    \/ WithContext \/ Named
    \/ \E k \in FieldKeys, kind \in SensitiveTypes : AddSensitiveKey(k, kind)
    \/ \E g \in Given : With(g)
    \/ \E n \in Levels : SetLevel(n)
    \/ \E levels \in HookLevels, fails \in BOOLEAN : AddHook(levels, fails)
    \/ \E n \in Levels, given \in Fields : Log(n, given)

Spec == Init /\ [][Next]_vars

-----------------------------------------------------------------------------
(* Properties *)

\* Types of the variables.
TypeOK ==
    /\ layers \in Stacks /\ level \in Levels
    /\ DOMAIN sensitive \subseteq FieldKeys
    /\ \A k \in DOMAIN sensitive : sensitive[k] \in SensitiveTypes
    /\ counter \in 0..(Rate - 1) /\ Len(hooks) <= MaxHooks
    /\ \A s \in seen : s.by \in 0..Len(hooks)

\* What of a string its masking may leave: nothing of a password, a token or a
\* string of a custom type, not all of another, unless it is just as long as what
\* its rule keeps, which a phone number is not.
AtLimit(f) ==
    \/ f.kind \in {"id_card", "bank_card"} /\ f.text.length = 10
    \/ f.kind = "email" /\ f.text.at = 1
Masked(f) ==
    f.kind # "none" /\ f.text # NotString =>
        /\ f.kind \in {"password", "token", "custom"} => f.clear = 0
        /\ f.text.length > 0 => f.clear < f.text.length \/ AtLimit(f)

\* No string that had a sensitive key when it was handed over gets below a
\* MaskedLogger unmasked, to a hook or to the output, whatever the order of the
\* wrappers, and also when it was handed to a With long before and its key was
\* given another type since.  A number of ten bytes and an address with one
\* letter before its "@" do get below whole, maskIDCard, maskBankCard and
\* maskEmail having nothing left to hide there.
MaskedBelow == \A s \in seen : s.masked => \A f \in s.fields : Masked(f)

\* The lines of a request carry the id of the request. (Does not hold: both ids
\* of logger.go:150-153 are kept under the same key.)
RequestIDStands ==
    \A s \in seen : \A f \in s.fields : f.key = "request_id" => f.value = "request"
=============================================================================
