----------------------------- MODULE HttpChain -----------------------------
(***************************************************************************)
(* The HTTP middleware of goupter (pkg/server/middleware) as one chain of    *)
(* gin handlers: a request goes in through the chain to the handler of its   *)
(* route and comes out again, or a middleware stops it, or a panic of the    *)
(* handler unwinds it.  Requests share the metrics and the gzip writers.     *)
(*                                                                          *)
(* What one middleware alone reads of a request (method, address, token,     *)
(* encoding) is chosen when it asks.  A body is the sequence of the pieces   *)
(* written: whose, what, compressed or not.  Headers but Content-Encoding,   *)
(* request bodies and latencies are left out, and so are panics of the       *)
(* middleware itself (of BearerAuth on a nil AuthInfo, say).                  *)
(***************************************************************************)
EXTENDS Integers, Sequences, FiniteSets, SequencesExt

CONSTANTS
    Requests,   \* requests; each is served once
    Chains,     \* the orders of middleware an application may have
    Quiet,      \* those whose Recovery was given no logger
    Writers,    \* gzip writers, as many as requests
    Nobody,     \* no request, no writer
    MinLength,  \* GzipConfig.MinLength, in pieces
    MaxPieces   \* bound on what a handler writes

VARIABLES
    chain,      \* handlers of the engine, the outermost first
    req,        \* gin.Context, gzipWriter and response of each request
    metrics,    \* RequestMetrics
    pool,       \* sync.Pool of gzip writers
    attached,   \* the response each gzip writer writes to
    panicked    \* some handler has panicked

vars == <<chain, req, metrics, pool, attached, panicked>>

\* The AuthInfo of a request: none, one with nothing in it, one that has every
\* role and scope asked for.
AuthInfo == {"none", "plain", "admin"}
Statuses == {200, 204, 400, 401, 403, 429, 500}
\* Middlewares that may stop a request.
Gates == {"cors", "ipfilter", "auth", "roles", "limit", "decompress"}
\* Middlewares that have something to do after c.Next().
Returning == {"recovery", "logger", "metrics", "gzip"}

\* A request that has not come yet; skipped: the middlewares whose SkipPaths have its path.
Fresh == [at |-> 0, way |-> "new", skipped |-> {}, user |-> "none", panic |-> "none",
          status |-> 200, written |-> FALSE, header |-> FALSE, encoded |-> FALSE, body |-> <<>>,
          writer |-> Nobody, started |-> FALSE, buffer |-> <<>>, type |-> "unknown",
          given |-> 0, early |-> FALSE, recorded |-> FALSE, lines |-> {}]
Gone == [Fresh EXCEPT !.way = "gone"]

ZeroMetrics(gauge) == [inFlight |-> gauge, total |-> 0, success |-> 0, failed |-> 0,
                       codes |-> [s \in Statuses |-> 0]]

Init ==
    /\ chain \in Chains
    /\ req = [r \in Requests |-> Fresh]
    /\ metrics = ZeroMetrics(0)
    /\ pool = {} /\ attached = [w \in Writers |-> Nobody] /\ panicked = FALSE

-----------------------------------------------------------------------------
(* gin: c.Next, c.Abort and the response *)

\* c.Next() has come to middleware m; the call of c.Next() in m is over.
Turn(r, m) == req[r].way = "in" /\ req[r].at <= Len(chain) /\ chain[req[r].at] = m
Back(r, way, m) == req[r].way = way /\ req[r].at > 0 /\ chain[req[r].at] = m

Inward(rec) == [rec EXCEPT !.at = @ + 1]

\* The next middleware outside position i that has something left to do, or 0.
Waiting(i) == {k \in 1..(i - 1) : chain[k] \in Returning} \cup {0}
Outside(i) == CHOOSE k \in Waiting(i) : \A j \in Waiting(i) : j <= k
Outward(rec, way) == [rec EXCEPT !.way = way, !.at = Outside(@)]

\* ResponseWriter: the first write sends status and headers; 204 has no body.
WriteHeader(rec, s) == IF rec.written THEN rec ELSE [rec EXCEPT !.status = s]
Send(rec, frames) ==
    [rec EXCEPT !.written = TRUE,
                !.encoded = IF rec.written THEN @ ELSE rec.header,
                !.body = IF rec.status = 204 THEN @ ELSE @ \o frames]
Frames(r, pieces, zipped) ==
    [i \in DOMAIN pieces |-> [of |-> r, what |-> pieces[i], zipped |-> zipped]]

\* (Faulty variant of Collected: the buffer is written over.)
CollectedLast(rec, pieces) == pieces

\* gzipWriter.buf after a write.
Collected(rec, pieces) == rec.buffer \o pieces

\* Writing pieces to c.Writer: to the response, or through gzipWriter.Write.  That
\* collects until there is enough to start, sets the header if the type is one of
\* IncludedMimes, and compresses; the gzip writer may be another response's by now.
Written(r, rec, pieces) ==
    LET all == Collected(rec, pieces)
        mine == [rec EXCEPT !.given = @ + Len(pieces)]
        type == IF rec.type = "unknown" THEN "included" ELSE rec.type
        begun == IF rec.started THEN mine
                 ELSE [mine EXCEPT !.started = TRUE, !.buffer = all, !.header = type = "included"]
        zipped == Frames(r, IF rec.started THEN pieces ELSE all, TRUE)
        to == IF rec.writer = Nobody THEN Nobody ELSE attached[rec.writer]
    IN CASE rec.writer = Nobody -> [req EXCEPT ![r] = Send(mine, Frames(r, pieces, FALSE))]
         [] rec.writer # Nobody /\ ~rec.started /\ Len(all) < MinLength ->
              [req EXCEPT ![r] = [mine EXCEPT !.buffer = all]]
         [] OTHER -> IF to = Nobody THEN [req EXCEPT ![r] = begun]
                     ELSE IF to = r THEN [req EXCEPT ![r] = Send(begun, zipped)]
                     ELSE [req EXCEPT ![r] = begun, ![to] = Send(req[to], zipped)]

Pass(r) == req' = [req EXCEPT ![r] = Inward(req[r])]
Skip(r, m) == req' = [req EXCEPT ![r] = [Inward(req[r]) EXCEPT !.skipped = @ \cup {m}]]
\* c.AbortWithStatusJSON, then return.
Abort(r, s) == req' = Written(r, Outward(WriteHeader(req[r], s), "out"), <<"page">>)

-----------------------------------------------------------------------------
(* Middlewares that only look at the request *)

Shared == <<chain, metrics, pool, attached, panicked>>

\* Security sets its headers.
Security(r) == Turn(r, "security") /\ Pass(r) /\ UNCHANGED Shared

\* CORSWithConfig: a preflight ends here, without a body.
CORS(r) ==
    /\ Turn(r, "cors")
    /\ \/ Pass(r)
       \/ req' = [req EXCEPT ![r] = Outward(Send(WriteHeader(req[r], 204), <<>>), "out")]
    /\ UNCHANGED Shared

\* IPWhitelist and IPBlacklist.
IPFilter(r) == Turn(r, "ipfilter") /\ (Abort(r, 403) \/ Pass(r)) /\ UNCHANGED Shared

\* BearerAuthWithConfig: no token, a bad or an expired one, a user, a path to skip or
\* an ErrorHandler that does not abort.
BearerAuth(r) ==
    /\ Turn(r, "auth")
    /\ \/ Abort(r, 401)
       \/ \E user \in AuthInfo :
             req' = [req EXCEPT ![r] = [Inward(req[r]) EXCEPT !.user = user]]
    /\ UNCHANGED Shared

\* RequireRoles and RequireScopes: an admin has what they want.
RequireRoles(r) ==
    /\ Turn(r, "roles")
    /\ CASE req[r].user = "none" -> Abort(r, 401)
         [] req[r].user = "plain" -> Abort(r, 403)
         [] OTHER -> Pass(r)
    /\ UNCHANGED Shared

\* RateLimitWithConfig; without AbortOnFail a request over the limit goes on.
RateLimit(r) == Turn(r, "limit") /\ (Abort(r, 429) \/ Pass(r)) /\ UNCHANGED Shared

\* Decompress refuses what says it is gzip and is not.
Decompress(r) == Turn(r, "decompress") /\ (Abort(r, 400) \/ Pass(r)) /\ UNCHANGED Shared

-----------------------------------------------------------------------------
(* recovery.go and logger.go *)

\* Nothing to do on the way in, and for Recovery on the way out. (The ids Logger
\* puts into the context are in LogPipeline.)
Recovery(r) == Turn(r, "recovery") /\ Pass(r) /\ UNCHANGED Shared
Logger(r) == Turn(r, "logger") /\ Pass(r) /\ UNCHANGED Shared
NoPanic(r) ==
    /\ Back(r, "out", "recovery")
    /\ req' = [req EXCEPT ![r] = Outward(req[r], "out")]
    /\ UNCHANGED Shared

\* response.Abort: the error in a page, with status 200 whatever the error.
AbortPage(r, rec) == Written(r, Outward(WriteHeader(rec, 200), "out"), <<"page">>)

\* The deferred function of Recovery: a line if it has a logger, and the error page
\* unless the connection is broken.
Recover(r) ==
    LET line == IF chain \in Quiet THEN {} ELSE {[kind |-> "panic", status |-> 0]}
        rec == [req[r] EXCEPT !.lines = @ \cup line] IN
    /\ Back(r, "panic", "recovery")
    /\ \/ req' = [req EXCEPT ![r] = Outward([rec EXCEPT !.panic = "pipe"], "out")]
       \/ req' = AbortPage(r, rec)
    /\ UNCHANGED Shared

\* (Faulty variant of LogLine: only what went well is logged.)
LogLineSuccess(rec) ==
    IF rec.status >= 500 THEN rec
    ELSE [rec EXCEPT !.lines = @ \cup {[kind |-> "request", status |-> rec.status]}]

\* The line of Logger and LoggerWithConfig after c.Next(); a panic passes it by.
LogLine(rec) == [rec EXCEPT !.lines = @ \cup {[kind |-> "request", status |-> rec.status]}]

Log(r) ==
    /\ \/ /\ Back(r, "out", "logger")
          /\ \E rec \in {LogLine(req[r]), [req[r] EXCEPT !.skipped = @ \cup {"logger"}]} :
                req' = [req EXCEPT ![r] = Outward(rec, "out")]
       \/ Back(r, "panic", "logger") /\ req' = [req EXCEPT ![r] = Outward(req[r], "panic")]
    /\ UNCHANGED Shared

-----------------------------------------------------------------------------
(* metrics.go *)

\* IncrInFlight on the way in.
MetricsIn(r) ==
    /\ Turn(r, "metrics")
    /\ \/ Skip(r, "metrics") /\ UNCHANGED metrics
       \/ Pass(r) /\ metrics' = [metrics EXCEPT !.inFlight = @ + 1]
    /\ UNCHANGED <<chain, pool, attached, panicked>>

\* Record, under the mutex.
Record(r) ==
    LET s == req[r].status
        ok == s >= 200 /\ s < 400 IN
    /\ Back(r, "out", "metrics") /\ "metrics" \notin req[r].skipped /\ ~req[r].recorded
    /\ metrics' = [metrics EXCEPT !.total = @ + 1, !.codes[s] = @ + 1,
                                  !.success = IF ok THEN @ + 1 ELSE @,
                                  !.failed = IF ok THEN @ ELSE @ + 1]
    /\ req' = [req EXCEPT ![r].recorded = TRUE]
    /\ UNCHANGED <<chain, pool, attached, panicked>>

\* The deferred DecrInFlight, after Record or a panic.
MetricsOut(r) ==
    LET rec == req[r] IN
    /\ \/ Back(r, "out", "metrics") /\ ("metrics" \in rec.skipped \/ rec.recorded)
       \/ Back(r, "panic", "metrics")
    /\ req' = [req EXCEPT ![r] = [Outward(rec, rec.way) EXCEPT !.recorded = FALSE]]
    /\ metrics' = IF "metrics" \in rec.skipped THEN metrics ELSE [metrics EXCEPT !.inFlight = @ - 1]
    /\ UNCHANGED <<chain, pool, attached, panicked>>

\* (Faulty variant of Reset: the gauge starts over as well.)
ResetGauge ==
    /\ "metrics" \in ToSet(chain)
    /\ metrics' = ZeroMetrics(0)
    /\ UNCHANGED <<chain, req, pool, attached, panicked>>

\* RequestMetrics.Reset leaves the gauge alone.
Reset ==
    /\ "metrics" \in ToSet(chain)
    /\ metrics' = ZeroMetrics(metrics.inFlight)
    /\ UNCHANGED <<chain, req, pool, attached, panicked>>

-----------------------------------------------------------------------------
(* compress.go *)

\* What the pool makes when it has nothing: a writer nobody has seen.
NewWriter == CHOOSE w \in Writers : \A q \in Requests : req[q].writer # w

\* GzipWithConfig: an excluded path or a client without gzip passes; else the
\* response gets a gzip writer, from the pool or new.
Gzip(r) ==
    /\ Turn(r, "gzip")
    /\ \/ Pass(r) /\ UNCHANGED <<pool, attached>>
       \/ \E w \in pool \cup {NewWriter} :
             /\ pool' = pool \ {w}
             /\ attached' = [attached EXCEPT ![w] = r]
             /\ req' = [req EXCEPT ![r] = [Inward(req[r]) EXCEPT !.writer = w]]
    /\ UNCHANGED <<chain, metrics, panicked>>

\* The deferred Close: what was too short goes out as it is; otherwise the gzip
\* writer ends its stream, also an empty one, and goes back to the pool.  c.Writer
\* stays what it is.
Close(r) ==
    LET rec == req[r]
        out == Outward(rec, rec.way) IN
    /\ Back(r, "out", "gzip") \/ Back(r, "panic", "gzip")
    /\ IF rec.writer = Nobody
       THEN req' = [req EXCEPT ![r] = out] /\ UNCHANGED <<pool, attached>>
       ELSE IF ~rec.started /\ rec.buffer # <<>>
       THEN /\ req' = [req EXCEPT ![r] = Send(out, Frames(r, rec.buffer, FALSE))]
            /\ UNCHANGED <<pool, attached>>
       ELSE /\ req' = [req EXCEPT ![r] = Send(out, Frames(r, <<"end">>, TRUE))]
            /\ attached' = [attached EXCEPT ![rec.writer] = Nobody]
            /\ pool' = pool \cup {rec.writer}
    /\ UNCHANGED <<chain, metrics, panicked>>

-----------------------------------------------------------------------------
(* The engine and the handler *)

Arrive(r) ==
    /\ req[r].way = "new"
    /\ req' = [req EXCEPT ![r] = [Fresh EXCEPT !.way = "in", !.at = 1]]
    /\ UNCHANGED Shared

Handling(r) == req[r].way = "in" /\ req[r].at > Len(chain)

\* The handler writes a piece, of the type and with the status it chose first.
HandlerWrites(r) ==
    LET rec == req[r] IN
    /\ Handling(r) /\ rec.given < MaxPieces
    /\ IF rec.given > 0 THEN req' = Written(r, rec, <<"data">>)
       ELSE \E s \in {200, 500}, type \in {"included"} \cup
                                   (IF rec.writer = Nobody THEN {} ELSE {"excluded"}) :
               req' = Written(r, [WriteHeader(rec, s) EXCEPT !.type = type], <<"data">>)
    /\ UNCHANGED Shared

\* gzipWriter.Flush, and the response's: status and headers are sent.
HandlerFlushes(r) ==
    /\ Handling(r) /\ ~req[r].written
    /\ req' = [req EXCEPT ![r] = [Send(req[r], <<>>) EXCEPT !.early = TRUE]]
    /\ UNCHANGED Shared

HandlerReturns(r) ==
    /\ Handling(r)
    /\ req' = [req EXCEPT ![r] = Outward(req[r], "out")]
    /\ UNCHANGED Shared

HandlerPanics(r) ==
    /\ Handling(r)
    /\ req' = [req EXCEPT ![r] = [Outward(req[r], "panic") EXCEPT !.panic = "bug"]]
    /\ panicked' = TRUE
    /\ UNCHANGED <<chain, metrics, pool, attached>>

\* gin sends the headers if nobody has; net/http drops what still panics.
End(r) ==
    /\ req[r].at = 0 /\ req[r].way \in {"out", "panic"}
    /\ req' = [req EXCEPT ![r] = IF req[r].way = "panic" THEN Gone
                                 ELSE [Send(req[r], <<>>) EXCEPT !.way = "done"]]
    /\ UNCHANGED Shared

\* A response that was sent is forgotten.
Leave(r) ==
    /\ req[r].way = "done"
    /\ req' = [req EXCEPT ![r] = Gone]
    /\ UNCHANGED Shared

Next ==
    \/ Reset
    \/ \E r \in Requests :
        \/ Arrive(r) \/ Security(r) \/ CORS(r) \/ IPFilter(r) \/ BearerAuth(r) \/ RequireRoles(r)
        \/ RateLimit(r) \/ Decompress(r) \/ Recovery(r) \/ NoPanic(r) \/ Recover(r) \/ Logger(r)
        \/ Log(r) \/ MetricsIn(r) \/ Record(r) \/ MetricsOut(r) \/ Gzip(r) \/ Close(r)
        \/ HandlerWrites(r) \/ HandlerFlushes(r) \/ HandlerReturns(r) \/ HandlerPanics(r)
        \/ End(r) \/ Leave(r)

Spec == Init /\ [][Next]_vars

-----------------------------------------------------------------------------
(* Properties *)

\* Types of the variables.
TypeOK ==
    /\ chain \in Chains
    /\ \A r \in Requests : /\ req[r].way \in {"new", "in", "out", "panic", "done", "gone"}
                           /\ req[r].at \in 0..(Len(chain) + 1)
                           /\ req[r].status \in Statuses
                           /\ req[r].writer \in Writers \cup {Nobody}
    /\ metrics.inFlight \in 0..Cardinality(Requests)
    /\ pool \subseteq Writers
    /\ attached \in [Writers -> Requests \cup {Nobody}]

\* A request that metrics counted in and has not counted out.
Counted(r) ==
    \E k \in DOMAIN chain :
        /\ chain[k] = "metrics" /\ "metrics" \notin req[r].skipped
        /\ \/ req[r].way = "in" /\ req[r].at > k
           \/ req[r].way \in {"out", "panic"} /\ req[r].at >= k

\* The gauge is the number of requests inside the metrics middleware, panics and
\* resets notwithstanding, and the counters agree with each other at any time.
MetricsAddUp ==
    /\ metrics.inFlight = Cardinality({r \in Requests : Counted(r)})
    /\ metrics.total = metrics.success + metrics.failed
    /\ LET n == metrics.codes IN
       metrics.total = n[200] + n[204] + n[400] + n[401] + n[403] + n[429] + n[500]

\* The middlewares outside position k let every request in.
Open(k) == \A j \in 1..(k - 1) : chain[j] \notin Gates

\* A request that was answered has left a line, of Logger with the status the
\* client got, or of Recovery if the handler panicked; a panic that Recovery
\* without a logger caught may have left none.
LinesTellTheAnswer ==
    \A r \in Requests :
        /\ req[r].way = "done" /\ "logger" \notin req[r].skipped
        /\ \E k \in DOMAIN chain : chain[k] = "logger" /\ Open(k)
        => /\ req[r].lines # {} \/ (req[r].panic # "none" /\ chain \in Quiet)
           /\ \A line \in req[r].lines :
                 IF line.kind = "request" THEN line.status = req[r].status
                 ELSE req[r].panic # "none"

\* As long as no handler panics, a client that does what Content-Encoding says
\* reads what was written for it, all of it and nothing else, if something was
\* written, its type is one to compress and no Flush came before the first
\* compressed piece. (Without these, Close ends a stream that no header announces.)
ClientReadsAnswer ==
    \A r \in Requests :
        LET rec == req[r] IN
        /\ rec.way = "done" /\ ~panicked /\ ~rec.early
        /\ rec.given > 0 /\ rec.type # "excluded"
        => /\ \A i \in DOMAIN rec.body : rec.body[i].of = r /\ rec.body[i].zipped = rec.encoded
           /\ Cardinality({i \in DOMAIN rec.body : rec.body[i].what # "end"}) = rec.given
           /\ rec.encoded <=> Last(rec.body).what = "end"

\* A client whose handler panicked before it wrote gets the error page of
\* Recovery. (Does not hold: recovery.go:57 promises it, a gzipWriter between the
\* two has been closed when Recovery writes.)
PanicIsAnswered ==
    \A r \in Requests :
        /\ req[r].way = "done" /\ req[r].panic = "bug" /\ req[r].given = 1 /\ ~req[r].early
        => \E i \in DOMAIN req[r].body : req[r].body[i].what = "page"
=============================================================================
