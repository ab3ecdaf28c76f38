--------------------------- MODULE Requests_proofs ---------------------------
(***************************************************************************)
(* Proofs about what MCRequests puts next to each other: the window limiter, *)
(* the HTTP middleware and the gRPC interceptors. Each has an inductive      *)
(* invariant of its own, and a step of the composition is a step of one of   *)
(* them and none of the others.                                             *)
(***************************************************************************)
EXTENDS MCRequests, FiniteSetTheorems, SequenceTheorems, TLAPS

\* (SlidingWindowLimiter) What a key with no window was granted lies a window
\* length back; with a window, what it was granted since the window opened is its
\* count, or nothing when the count is one request too large; nothing came after
\* the end of the window, and at most Limit in the window length before it opened.
Bounded(g) == \A s, t \in Moments : s <= t /\ t - s <= WindowLen => g[t] - g[s] <= 2 * Limit
Grows(g) == \A s, t \in Moments : s <= t => g[s] <= g[t]
Known(g) == \A t \in Moments : t > now => g[t] = g[now + 1]
WindowOK(w, g) ==
    /\ w = NoWindow => \A s \in Moments : s + WindowLen > now /\ s <= now => g[s] = g[now + 1]
    /\ w # NoWindow =>
         /\ w.startTime <= now
         /\ g[now + 1] - g[w.startTime] = IF w.count <= Limit THEN w.count ELSE 0
         /\ \A t \in Moments : t >= w.startTime + WindowLen /\ t <= now => g[t] = g[now + 1]
         /\ \A s \in Moments : s + WindowLen > w.startTime /\ s <= w.startTime
                => g[w.startTime] - g[s] <= Limit
KeyOK(w, g) == Bounded(g) /\ Grows(g) /\ Known(g) /\ WindowOK(w, g)
WindowInv == TypeOK /\ \A k \in Keys : KeyOK(windows[k], granted[k])

\* (GrpcChain) With Recovery and Logging the two outermost, a call that is not
\* skipped has on its way out no line yet, the line of Logging with the code of its
\* error, or that of Recovery, and a panic does not get past Recovery; the client
\* gets what grpc makes of the error, and only a panic leaves neither error nor
\* response.
LineRecord == [kind : {"request", "panic"}, code : G!Codes \cup {"none"}]
CallRecord == [at : Nat, way : {"in", "out", "panic", "sent"}, stream : BOOLEAN,
               err : G!Errors, reply : BOOLEAN, client : G!Codes, panicked : BOOLEAN,
               skipped : BOOLEAN, lines : Seq(LineRecord)]
Outer(i, j) == Len(interceptors) >= 2 /\ interceptors[1] = i /\ interceptors[2] = j
Answer(c) == G!Line("request", G!CodeOf(c.err))
PanicLine == G!Line("panic", "none")
RecoveryOutside(c) ==
    /\ c.way = "panic" => c.at >= 1
    /\ c.way \in {"out", "sent"} /\ ~c.skipped =>
         \/ c.at >= 2 /\ c.lines = <<>> /\ ~c.panicked
         \/ c.at <= 1 /\ c.lines = <<Answer(c)>> /\ ~c.panicked
         \/ c.at = 0 /\ c.lines = <<PanicLine>>
LoggingOutside(c) ==
    /\ c.way = "panic" => c.at >= 2
    /\ c.way \in {"out", "sent"} /\ ~c.skipped =>
         \/ c.at >= 1 /\ c.lines = <<>> /\ ~c.panicked
         \/ c.at = 1 /\ c.lines = <<PanicLine>>
         \/ c.at = 0 /\ c.lines = <<Answer(c)>> /\ ~c.panicked
         \/ c.at = 0 /\ c.lines = <<PanicLine, Answer(c)>>
CallOK(c) ==
    /\ c.at <= Len(interceptors) + 1
    /\ c.way = "in" => c.at >= 1 /\ c.lines = <<>> /\ ~c.panicked
    /\ c.way = "panic" => c.lines = <<>> /\ c.panicked
    /\ c.way \in {"out", "panic"} => c.at <= Len(interceptors)
    /\ c.way = "out" => c.panicked \/ (c.reply <=> c.err = "nil")
    /\ c.way = "sent" => /\ c.at = 0
                         /\ \/ c.client = G!CodeOf(c.err)
                            \/ c.err \in G!ContextErrors
                            \/ c.err = "nil" /\ ~c.reply /\ c.panicked
    /\ Outer("recovery", "logging") => RecoveryOutside(c)
    /\ Outer("logging", "recovery") => LoggingOutside(c)
GrpcInv == interceptors \in GrpcChains /\ call \in CallRecord /\ CallOK(call)

\* (HttpChain) A request that goes in has logged nothing and been seen by what is
\* inside it by no middleware yet; one that goes out is at a middleware with
\* something left to do, has a line if Logger saw it, the line of Logger has the
\* status that stays, and that of Recovery is the line of a panic.
Pieces == {"page", "data", "end"}
Frame == [of : Requests, what : Pieces, zipped : BOOLEAN]
HttpLine == [kind : {"request", "panic"}, status : C!Statuses \cup {0}]
ReqRecord == [at : Nat, way : {"new", "in", "out", "panic", "done", "gone"},
              skipped : SUBSET {"metrics", "logger"}, user : C!AuthInfo,
              panic : {"none", "bug", "pipe"}, status : C!Statuses, written : BOOLEAN,
              header : BOOLEAN, encoded : BOOLEAN, body : Seq(Frame),
              writer : Writers \cup {Nobody}, started : BOOLEAN, buffer : Seq(Pieces),
              type : {"unknown", "included", "excluded"}, given : Nat, early : BOOLEAN,
              recorded : BOOLEAN, lines : SUBSET HttpLine]
MetricsRecord == [inFlight : Int, total : Nat, success : Nat, failed : Nat,
                  codes : [C!Statuses -> Nat]]
LineOK(rec, line) == IF line.kind = "request"
                     THEN rec.way \in {"out", "done"} /\ line.status = rec.status
                     ELSE rec.panic # "none"
Told(rec) == rec.lines # {} \/ (rec.panic # "none" /\ chain \in Quiet)
SeenOK(rec, k) ==
    /\ chain[k] = "logger" /\ C!Open(k) /\ rec.way \in {"out", "done"} /\ rec.at < k
          /\ "logger" \notin rec.skipped => Told(rec)
    /\ chain[k] = "metrics" /\ rec.way = "in" /\ rec.at <= k => "metrics" \notin rec.skipped
    /\ chain[k] = "gzip" /\ rec.way = "in" /\ rec.at <= k => rec.writer = Nobody
ReqOK(rec) ==
    /\ rec.at <= Len(chain) + 1
    /\ rec.way = "in" => rec.at >= 1 /\ rec.lines = {}
    /\ rec.way \in {"out", "panic"} =>
         rec.at = 0 \/ (rec.at <= Len(chain) /\ chain[rec.at] \in C!Returning)
    /\ rec.way \in {"new", "done", "gone"} => rec.at = 0
    /\ rec.way = "panic" => rec.panic # "none"
    /\ \A line \in rec.lines : LineOK(rec, line)
    /\ \A k \in DOMAIN chain : SeenOK(rec, k)
HttpTypes ==
    /\ chain \in Chains
    /\ req \in [Requests -> ReqRecord]
    /\ pool \subseteq Writers
    /\ attached \in [Writers -> Requests \cup {Nobody}]
HttpInv ==
    /\ HttpTypes
    /\ \A r \in Requests : ReqOK(req[r])
    /\ metrics \in MetricsRecord
    /\ C!MetricsAddUp

\* (HttpChain) Why a client can read its answer as long as no handler has panicked.
\* Before the handler, a request has nothing written. Then, without a gzip writer,
\* its body is what was given, as it is; with one, all of it is in the buffer, or all
\* of it is in the body and compressed. After Close it is the first, or the last with
\* the end of the stream. Up to Close a gzip writer writes to the request that has it.
Untouched(rec) ==
    /\ rec.status # 204 /\ ~rec.written /\ ~rec.header /\ ~rec.encoded /\ rec.body = <<>>
    /\ ~rec.started /\ rec.buffer = <<>> /\ rec.type = "unknown" /\ rec.given = 0 /\ ~rec.early
Own(r, body, n, zipped) ==
    \A i \in 1..n : body[i].of = r /\ body[i].zipped = zipped /\ body[i].what # "end"
Plain(r, rec) ==
    ~rec.encoded /\ ~rec.header /\ Len(rec.body) = rec.given /\ Own(r, rec.body, rec.given, FALSE)
Held(rec) ==
    /\ ~rec.started /\ ~rec.written /\ ~rec.header /\ ~rec.encoded /\ rec.body = <<>>
    /\ Len(rec.buffer) = rec.given /\ \A i \in 1..rec.given : rec.buffer[i] # "end"
Zipped(r, rec) ==
    /\ rec.started /\ rec.written /\ rec.encoded
    /\ Len(rec.body) = rec.given /\ Own(r, rec.body, rec.given, TRUE)
Ended(r, rec) ==
    /\ rec.written /\ rec.encoded
    /\ Len(rec.body) = rec.given + 1 /\ Own(r, rec.body, rec.given, TRUE)
    /\ LET end == rec.body[rec.given + 1] IN end.of = r /\ end.zipped = TRUE /\ end.what = "end"
Good(r, rec) ==
    rec.status # 204 /\ IF rec.writer = Nobody THEN Plain(r, rec) ELSE Held(rec) \/ Zipped(r, rec)
Readable(r, rec) == Plain(r, rec) \/ Ended(r, rec)
Promised(rec) == ~rec.early /\ rec.type # "excluded"
Opened(rec) ==
    \E k \in DOMAIN chain : /\ chain[k] = "gzip" /\ rec.writer # Nobody
                            /\ \/ rec.way = "in" /\ rec.at > k
                               \/ rec.way = "out" /\ rec.at >= k
Sound(r, rec) ==
    /\ rec.way # "panic"
    /\ rec.way = "in" =>
         /\ rec.at <= Len(chain) => Untouched(rec)
         /\ rec.writer # Nobody => Opened(rec)
         /\ rec.given = 0 => rec.type = "unknown"
         /\ Promised(rec) => Good(r, rec)
    /\ rec.way = "out" /\ Promised(rec) /\ rec.given > 0 =>
         IF Opened(rec) THEN Good(r, rec) ELSE Readable(r, rec)
    /\ rec.way = "done" /\ Promised(rec) /\ rec.given > 0 => Readable(r, rec)
Fits(r, rec, to, free) == Opened(rec) => to[rec.writer] = r /\ rec.writer \notin free
AnswerInv ==
    panicked \/ \A r \in Requests : Sound(r, req[r]) /\ Fits(r, req[r], attached, pool)

-----------------------------------------------------------------------------
(* SlidingWindowLimiter *)

LEMMA WindowInit == Init => WindowInv
<1> SUFFICES ASSUME Init PROVE WindowInv
  OBVIOUS
<1>1. now \in Times /\ now + 1 \in Moments /\ 0 \in Nat
  BY MaxTimeAssumption DEF Init, Times, Moments
<1>2. TypeOK
  BY <1>1 DEF Init, TypeOK
<1>3. ASSUME NEW k \in Keys PROVE KeyOK(windows[k], granted[k])
  <2>1. windows[k] = NoWindow /\ \A t \in Moments : granted[k][t] = 0
    BY DEF Init
  <2>2. 0 - 0 <= 2 * Limit
    BY LimitAssumption
  <2> QED
    BY <1>1, <2>1, <2>2 DEF KeyOK, Bounded, Grows, Known, WindowOK
<1> QED
  BY <1>2, <1>3 DEF WindowInv

\* An open window has a start the clock has passed, and a count.
LEMMA WindowFields ==
  ASSUME TypeOK, NEW k \in Keys, windows[k] # NoWindow
  PROVE  /\ windows[k] \in Window /\ windows[k].startTime \in Times
         /\ windows[k].count \in 0..Limit \cup Sizes /\ windows[k].count \in Nat
<1>1. windows[k] \in Window
  BY DEF TypeOK
<1>2. /\ windows[k].startTime \in Times
      /\ windows[k].count \in 0..Limit \cup Sizes
  BY <1>1 DEF Window
<1>3. \A x \in 0..Limit \cup Sizes : x \in Nat
  BY LimitAssumption, SizesAssumption
<1> QED
  BY <1>1, <1>2, <1>3

\* The numbers of the proofs below.
LEMMA WindowNumbers ==
  ASSUME TypeOK
  PROVE  /\ now \in Nat /\ now \in Moments /\ now + 1 \in Moments
         /\ \A t \in Moments : t \in Nat
         /\ \A t \in Times : t \in Nat /\ t \in Moments
         /\ \A k \in Keys : /\ granted[k] \in [Moments -> Nat]
                            /\ \A t \in Moments : granted[k][t] \in Nat
BY MaxTimeAssumption DEF TypeOK, Times, Moments

\* What a grant of n now makes of what a key was granted.
Granting(g, n) == [t \in Moments |-> IF t > now THEN g[t] + n ELSE g[t]]

LEMMA GrantingFacts ==
  ASSUME TypeOK, NEW k \in Keys, NEW n \in Nat
  PROVE  LET h == Granting(granted[k], n) IN
         /\ h \in [Moments -> Nat]
         /\ \A t \in Moments : h[t] = IF t > now THEN granted[k][t] + n ELSE granted[k][t]
BY WindowNumbers DEF Granting

\* A grant keeps what is known of the past, whatever the window.
LEMMA GrantGrows ==
  ASSUME TypeOK, NEW k \in Keys, NEW n \in Nat, Grows(granted[k]), Known(granted[k])
  PROVE  Grows(Granting(granted[k], n)) /\ Known(Granting(granted[k], n))
<1> DEFINE g == granted[k]
           h == Granting(granted[k], n)
<1>1. \A t \in Moments : /\ h[t] = IF t > now THEN g[t] + n ELSE g[t]
                         /\ g[t] \in Nat /\ t \in Nat
  BY GrantingFacts, WindowNumbers
<1>2. now + 1 \in Moments /\ now \in Nat
  BY WindowNumbers
<1> HIDE DEF g, h
<1>3. Grows(h)
  <2> SUFFICES ASSUME NEW s \in Moments, NEW t \in Moments, s <= t PROVE h[s] <= h[t]
    BY DEF Grows
  <2>1. g[s] <= g[t]
    BY DEF Grows, g
  <2>2. s > now => t > now
    BY <1>1, <1>2
  <2> QED
    BY <1>1, <2>1, <2>2
<1>4. Known(h)
  <2> SUFFICES ASSUME NEW t \in Moments, t > now PROVE h[t] = h[now + 1]
    BY DEF Known
  <2>1. g[t] = g[now + 1]
    BY DEF Known, g
  <2>2. now + 1 > now
    BY <1>2
  <2> QED
    BY <1>1, <1>2, <2>1, <2>2
<1> QED
  BY <1>3, <1>4 DEF h

\* The bound itself: what was granted since the window opened is at most Limit, and
\* at most Limit in the window length before.
LEMMA TwoWindows ==
  ASSUME TypeOK, NEW g \in [Moments -> Nat], NEW w \in Window, w # NoWindow,
         Grows(g), WindowOK(w, g), NEW s \in Moments, NEW t \in Moments,
         s <= t, t - s <= WindowLen, t = now + 1
  PROVE  g[t] - g[s] <= 2 * Limit
<1> DEFINE w0 == w.startTime
<1>1. w0 \in Times /\ w0 \in Moments /\ w0 \in Nat /\ w.count \in Nat /\ now \in Nat /\ s \in Nat
  <2>1. w0 \in Times /\ w.count \in 0..Limit \cup Sizes
    BY DEF Window
  <2>2. \A x \in 0..Limit \cup Sizes : x \in Nat
    BY LimitAssumption, SizesAssumption
  <2> QED
    BY <2>1, <2>2, WindowNumbers
<1>2. g[t] \in Nat /\ g[s] \in Nat /\ g[w0] \in Nat
  BY <1>1
<1>3. g[t] - g[w0] <= Limit /\ w0 <= now
  BY <1>1, <1>2, LimitAssumption DEF WindowOK
<1>4. CASE s >= w0
  <2>1. g[w0] <= g[s]
    BY <1>1, <1>4 DEF Grows
  <2> QED
    BY <1>2, <1>3, <2>1, LimitAssumption
<1>5. CASE s < w0
  <2>1. s + WindowLen > w0 /\ s <= w0
    BY <1>1, <1>3, <1>5, WindowLenAssumption
  <2>2. g[w0] - g[s] <= Limit
    BY <1>1, <2>1 DEF WindowOK
  <2> QED
    BY <1>2, <1>3, <2>2, LimitAssumption
<1> QED
  BY <1>1, <1>4, <1>5

\* So a grant that fits the window it leaves fits the bound.
LEMMA GrantBounded ==
  ASSUME TypeOK, NEW k \in Keys, NEW n \in Nat, NEW w \in Window, w # NoWindow,
         KeyOK(windows[k], granted[k]), WindowOK(w, Granting(granted[k], n))
  PROVE  KeyOK(w, Granting(granted[k], n))
<1> DEFINE g == granted[k]
           h == Granting(granted[k], n)
<1>1. /\ h \in [Moments -> Nat]
      /\ \A t \in Moments : /\ h[t] = IF t > now THEN g[t] + n ELSE g[t]
                            /\ g[t] \in Nat /\ t \in Nat
      /\ now \in Nat /\ now + 1 \in Moments
  BY GrantingFacts, WindowNumbers
<1>2. Grows(h) /\ Known(h)
  BY GrantGrows DEF KeyOK
<1> HIDE DEF g, h
<1>3. Bounded(h)
  <2> SUFFICES ASSUME NEW s \in Moments, NEW t \in Moments, s <= t, t - s <= WindowLen
               PROVE  h[t] - h[s] <= 2 * Limit
    BY DEF Bounded
  <2>1. CASE t <= now
    <3>1. h[t] = g[t] /\ h[s] = g[s]
      BY <1>1, <2>1
    <3> QED
      BY <3>1 DEF KeyOK, Bounded, g
  <2>2. CASE t > now /\ s <= now
    <3>1. h[t] = h[now + 1]
      BY <1>2, <2>2 DEF Known
    <3>2. s <= now + 1 /\ (now + 1) - s <= WindowLen
      BY <1>1, <2>2, WindowLenAssumption
    <3> QED
      BY <1>1, <1>2, <3>1, <3>2, TwoWindows DEF h
  <2>3. CASE s > now
    <3>1. h[t] = h[now + 1] /\ h[s] = h[now + 1]
      BY <1>1, <1>2, <2>3 DEF Known
    <3>2. h[now + 1] \in Nat
      BY <1>1
    <3> QED
      BY <3>1, <3>2, LimitAssumption
  <2> QED
    BY <1>1, <2>1, <2>2, <2>3
<1> QED
  BY <1>2, <1>3 DEF KeyOK, h

\* A window that has expired, or none: nothing was granted for a window length.
LEMMA NothingForAWhile ==
  ASSUME TypeOK, NEW k \in Keys, KeyOK(windows[k], granted[k]), Expired(k)
  PROVE  /\ granted[k][now] = granted[k][now + 1]
         /\ \A s \in Moments : s + WindowLen > now /\ s <= now
                => granted[k][now] - granted[k][s] <= Limit
<1> DEFINE g == granted[k]
<1>1. /\ now \in Nat /\ now \in Moments /\ now + 1 \in Moments
      /\ \A t \in Moments : t \in Nat /\ g[t] \in Nat
  BY WindowNumbers
<1>2. CASE windows[k] = NoWindow
  <2>1. \A s \in Moments : s + WindowLen > now /\ s <= now => g[s] = g[now + 1]
    BY <1>2 DEF KeyOK, WindowOK
  <2>2. now + WindowLen > now /\ now <= now
    BY <1>1, WindowLenAssumption
  <2>3. g[now] = g[now + 1]
    BY <1>1, <2>1, <2>2
  <2> HIDE DEF g
  <2>4. ASSUME NEW s \in Moments, s + WindowLen > now, s <= now PROVE g[now] - g[s] <= Limit
    <3>1. g[s] = g[now] /\ g[now] \in Nat
      BY <1>1, <2>1, <2>3, <2>4
    <3> QED
      BY <3>1, LimitAssumption
  <2> QED
    BY <2>3, <2>4 DEF g
<1>3. CASE windows[k] # NoWindow
  <2> DEFINE w0 == windows[k].startTime
  <2>1. /\ w0 \in Nat /\ w0 \in Moments /\ windows[k].count \in Nat
        /\ now >= w0 + WindowLen
    BY <1>1, <1>3, WindowFields, WindowNumbers, WindowLenAssumption DEF Expired, Age
  <2>2. /\ g[now + 1] - g[w0] <= Limit
        /\ \A t \in Moments : t >= w0 + WindowLen /\ t <= now => g[t] = g[now + 1]
    BY <1>1, <1>3, <2>1, LimitAssumption DEF KeyOK, WindowOK
  <2>3. g[now] = g[now + 1]
    BY <1>1, <2>1, <2>2
  <2>4. ASSUME NEW s \in Moments, s + WindowLen > now, s <= now
        PROVE  g[now] - g[s] <= Limit
    <3>1. s >= w0
      BY <1>1, <2>1, <2>4, WindowLenAssumption
    <3>2. g[w0] <= g[s]
      BY <2>1, <3>1 DEF KeyOK, Grows
    <3> HIDE DEF g, w0
    <3> QED
      BY <1>1, <2>1, <2>2, <2>3, <3>2, LimitAssumption
  <2> QED
    BY <2>3, <2>4
<1> QED
  BY <1>2, <1>3

\* A step for one key.
LEMMA WindowStep ==
  ASSUME WindowInv, NEW k \in Keys, NEW w \in Window, NEW g \in [Moments -> Nat], KeyOK(w, g),
         windows' = [windows EXCEPT ![k] = w], granted' = [granted EXCEPT ![k] = g], now' = now
  PROVE  WindowInv'
<1>1. TypeOK'
  BY DEF WindowInv, TypeOK, Times, Window
<1>2. \A j \in Keys : /\ windows'[j] = IF j = k THEN w ELSE windows[j]
                      /\ granted'[j] = IF j = k THEN g ELSE granted[j]
  BY DEF WindowInv, TypeOK
<1>3. \A j \in Keys : KeyOK(windows'[j], granted'[j])
  BY <1>2 DEF WindowInv
<1>4. \A j \in Keys : KeyOK(windows[j], granted[j])'
  BY <1>3 DEF KeyOK, Bounded, Grows, Known, WindowOK
<1> QED
  BY <1>1, <1>4 DEF WindowInv

LEMMA WindowAllowFresh ==
  ASSUME WindowInv, NEW k \in Keys, NEW n \in Sizes, AllowFresh(k, n)
  PROVE  WindowInv'
<1> DEFINE w == [count |-> n, startTime |-> now]
           m == IF n <= Limit THEN n ELSE 0
           g == granted[k]
           h == Granting(granted[k], m)
<1>1. /\ TypeOK /\ KeyOK(windows[k], granted[k]) /\ Expired(k)
      /\ n \in Nat /\ m \in Nat
      /\ windows' = [windows EXCEPT ![k] = w] /\ now' = now
  BY SizesAssumption DEF WindowInv, AllowFresh
<1>2. /\ now \in Nat /\ now \in Moments /\ now + 1 \in Moments /\ now \in Times
      /\ \A t \in Moments : t \in Nat /\ g[t] \in Nat
      /\ h \in [Moments -> Nat]
      /\ \A t \in Moments : h[t] = IF t > now THEN g[t] + m ELSE g[t]
  BY <1>1, WindowNumbers, GrantingFacts DEF TypeOK
<1>3. w \in Window
  BY <1>2 DEF Window
<1>4. granted' = [granted EXCEPT ![k] = h]
  <2>1. CASE n <= Limit
    BY <1>1, <2>1 DEF AllowFresh, Allows, Grant, Granting
  <2>2. CASE ~(n <= Limit)
    <3>1. UNCHANGED granted
      BY <1>1, <2>2 DEF AllowFresh, Allows
    <3>2. h = g
      <4>1. m = 0 /\ g \in [Moments -> Nat]
        BY <1>1, <2>2, WindowNumbers
      <4> HIDE DEF g, m
      <4>2. \A t \in Moments : h[t] = g[t]
        BY <1>2, <4>1
      <4>3. h \in [Moments -> Nat]
        BY <1>2
      <4> HIDE DEF h
      <4> QED
        BY <4>1, <4>2, <4>3
    <3> QED
      BY <1>1, <3>1, <3>2 DEF TypeOK
  <2> QED
    BY <2>1, <2>2
<1>5. w # NoWindow => WindowOK(w, h)
  <2>1. w.startTime = now /\ w.count = n
    OBVIOUS
  <2>2. /\ g[now] = g[now + 1]
        /\ \A s \in Moments : s + WindowLen > now /\ s <= now => g[now] - g[s] <= Limit
    BY <1>1, NothingForAWhile
  <2>3. h[now + 1] - h[now] = m /\ m = IF n <= Limit THEN n ELSE 0
    BY <1>1, <1>2, <2>2
  <2> HIDE DEF w, m, g, h
  <2>4. \A s \in Moments : s <= now => h[s] = g[s]
    BY <1>2
  <2>5. \A t \in Moments : ~(t >= now + WindowLen /\ t <= now)
    BY <1>2, WindowLenAssumption
  <2> QED
    BY <1>2, <2>1, <2>2, <2>3, <2>4, <2>5 DEF WindowOK
<1>6. CASE w # NoWindow
  <2>1. KeyOK(w, h)
    BY <1>1, <1>3, <1>5, <1>6, GrantBounded
  <2> HIDE DEF w, h
  <2> QED
    BY <1>1, <1>2, <1>3, <1>4, <2>1, WindowStep
<1> QED
  BY <1>1, <1>2, <1>6, NoWindowAssumption

LEMMA WindowAllowInWindow ==
  ASSUME WindowInv, NEW k \in Keys, NEW n \in Sizes, AllowInWindow(k, n)
  PROVE  WindowInv'
<1> DEFINE v == windows[k]
           w == [v EXCEPT !.count = v.count + n]
           g == granted[k]
           h == Granting(granted[k], n)
<1>1. /\ TypeOK /\ KeyOK(v, g) /\ v # NoWindow /\ now - v.startTime < WindowLen
      /\ n \in Nat /\ v.count + n <= Limit
      /\ windows' = [windows EXCEPT ![k] = w] /\ now' = now
      /\ granted' = [granted EXCEPT ![k] = h]
  <2>1. TypeOK /\ KeyOK(v, g) /\ n \in Nat /\ ~Expired(k)
    BY SizesAssumption DEF WindowInv, AllowInWindow
  <2>2. v # NoWindow /\ ~(now - v.startTime >= WindowLen)
    BY <2>1 DEF Expired, Age
  <2>3. now - v.startTime \in Int
    BY <2>1, <2>2, WindowFields, WindowNumbers
  <2>4. now - v.startTime < WindowLen
    BY <2>2, <2>3, WindowLenAssumption
  <2>5. /\ windows' = [windows EXCEPT ![k] = w] /\ now' = now
        /\ granted' = [granted EXCEPT ![k] = h]
    BY DEF AllowInWindow, Grant, Granting
  <2> QED
    BY <2>1, <2>2, <2>4, <2>5 DEF AllowInWindow, Allows
<1>2. /\ now \in Nat /\ now + 1 \in Moments
      /\ \A t \in Moments : t \in Nat /\ g[t] \in Nat
      /\ h \in [Moments -> Nat]
      /\ \A t \in Moments : h[t] = IF t > now THEN g[t] + n ELSE g[t]
  BY <1>1, WindowNumbers, GrantingFacts
<1>3. /\ v \in Window /\ v.count \in Nat /\ v.startTime \in Moments /\ v.startTime \in Nat
      /\ v.count + n \in 0..Limit
  BY <1>1, WindowFields, WindowNumbers, LimitAssumption
<1>4. w \in Window /\ w.startTime = v.startTime /\ w.count = v.count + n
  BY <1>3 DEF Window
<1>5. w # NoWindow
  BY <1>1, <1>3, <1>4, NoWindowAssumption DEF Window
<1>6. WindowOK(w, h)
  <2>1. /\ v.startTime <= now
        /\ g[now + 1] - g[v.startTime] = v.count
        /\ \A s \in Moments : s + WindowLen > v.startTime /\ s <= v.startTime
               => g[v.startTime] - g[s] <= Limit
    BY <1>1, <1>3, LimitAssumption DEF KeyOK, WindowOK
  <2> HIDE DEF v, w, g, h
  <2>2. \A s \in Moments : s <= now => h[s] = g[s]
    BY <1>2
  <2>3. h[now + 1] - h[v.startTime] = v.count + n
    BY <1>1, <1>2, <1>3, <2>1, <2>2
  <2>4. \A t \in Moments : ~(t >= v.startTime + WindowLen /\ t <= now)
    BY <1>1, <1>2, <1>3, WindowLenAssumption
  <2>5. \A s \in Moments : s + WindowLen > v.startTime /\ s <= v.startTime
               => h[v.startTime] - h[s] <= Limit
    BY <1>2, <1>3, <2>1, <2>2
  <2> QED
    BY <1>1, <1>4, <1>5, <2>1, <2>3, <2>4, <2>5 DEF WindowOK
<1>7. KeyOK(w, h)
  BY <1>1, <1>4, <1>5, <1>6, GrantBounded
<1> HIDE DEF w, h
<1> QED
  BY <1>1, <1>2, <1>4, <1>7, WindowStep

\* A window old enough to be forgotten has expired, and so has a missing one:
\* AllowN opens a new window in either case.
LEMMA ForgottenWasExpired ==
  ASSUME TypeOK, Cleanup, NEW k \in Keys
  PROVE  \/ windows'[k] = windows[k]
         \/ windows'[k] = NoWindow /\ windows[k] # NoWindow /\ Expired(k)
            /\ now >= windows[k].startTime + WindowLen + WindowLen
<1>1. windows'[k] = IF windows[k] # NoWindow /\ Age(windows[k]) >= WindowLen * 2
                    THEN NoWindow ELSE windows[k]
  BY DEF Cleanup
<1>2. ASSUME windows[k] # NoWindow, Age(windows[k]) >= WindowLen * 2
      PROVE  Expired(k) /\ now >= windows[k].startTime + WindowLen + WindowLen
  <2>1. now \in Nat /\ windows[k].startTime \in Nat
    BY <1>2, WindowFields, WindowNumbers
  <2> QED
    BY <1>2, <2>1, WindowLenAssumption DEF Expired, Age
<1> QED
  BY <1>1, <1>2

LEMMA CleanupKeepsAnswers ==
  ASSUME TypeOK, Cleanup, NEW k \in Keys, NEW n \in Sizes
  PROVE  Allows(k, n)' = Allows(k, n)
<1>0. now' = now
  BY DEF Cleanup
<1>1. CASE windows'[k] = windows[k]
  BY <1>0, <1>1 DEF Allows, Expired, Age
<1>2. CASE windows'[k] = NoWindow /\ Expired(k)
  BY <1>2 DEF Allows, Expired
<1> QED
  BY <1>1, <1>2, ForgottenWasExpired

LEMMA WindowCleanup ==
  ASSUME WindowInv, Cleanup
  PROVE  WindowInv'
<1>1. TypeOK' /\ now' = now /\ granted' = granted /\ TypeOK
  BY DEF WindowInv, TypeOK, Cleanup
<1>2. ASSUME NEW k \in Keys PROVE KeyOK(windows'[k], granted[k])
  <2> DEFINE g == granted[k]
             v == windows[k]
  <2>1. KeyOK(v, g)
    BY DEF WindowInv
  <2>2. CASE windows'[k] = v
    BY <2>1, <2>2
  <2>3. CASE /\ windows'[k] = NoWindow /\ v # NoWindow
             /\ now >= v.startTime + WindowLen + WindowLen
    <3>1. now \in Nat /\ v.startTime \in Nat /\ \A t \in Moments : t \in Nat
      BY <1>1, <2>3, WindowFields, WindowNumbers
    <3>2. \A t \in Moments : t >= v.startTime + WindowLen /\ t <= now => g[t] = g[now + 1]
      BY <2>1, <2>3 DEF KeyOK, WindowOK
    <3>3. \A s \in Moments : s + WindowLen > now => s >= v.startTime + WindowLen
      BY <2>3, <3>1, WindowLenAssumption
    <3> HIDE DEF g, v
    <3>4. \A s \in Moments : s + WindowLen > now /\ s <= now => g[s] = g[now + 1]
      BY <3>2, <3>3
    <3>5. WindowOK(NoWindow, g)
      BY <3>4 DEF WindowOK
    <3> QED
      BY <2>1, <2>3, <3>5 DEF KeyOK, g
  <2> QED
    BY <1>1, <2>2, <2>3, ForgottenWasExpired
<1>3. \A k \in Keys : KeyOK(windows[k], granted[k])'
  BY <1>1, <1>2 DEF KeyOK, Bounded, Grows, Known, WindowOK
<1> QED
  BY <1>1, <1>3 DEF WindowInv

LEMMA WindowTick ==
  ASSUME WindowInv, Tick
  PROVE  WindowInv'
<1>1. /\ now < MaxTime /\ now' = now + 1 /\ UNCHANGED <<windows, granted>>
      /\ TypeOK
  BY DEF Tick, WindowInv
<1>2. TypeOK'
  BY <1>1, MaxTimeAssumption DEF TypeOK, Times
<1>3. /\ now \in Nat /\ now + 1 \in Moments /\ now + 2 \in Moments
      /\ \A t \in Moments : t \in Nat
  BY <1>1, MaxTimeAssumption DEF TypeOK, Times, Moments
<1>4. ASSUME NEW k \in Keys PROVE KeyOK(windows[k], granted[k])'
  <2> DEFINE g == granted[k]
             v == windows[k]
  <2>1. KeyOK(v, g) /\ \A t \in Moments : g[t] \in Nat
    BY <1>1, WindowNumbers DEF WindowInv
  <2>2. now' + 1 = now + 2 /\ now + 2 > now /\ now + 1 > now
    BY <1>1, <1>3
  <2>3. g[now + 2] = g[now + 1] /\ \A t \in Moments : t > now => g[t] = g[now + 1]
    BY <1>3, <2>1, <2>2 DEF KeyOK, Known
  <2>4. Known(g)'
    BY <1>1, <1>3, <2>2, <2>3 DEF Known
  <2>5. Bounded(g)' /\ Grows(g)'
    BY <1>1, <2>1 DEF KeyOK, Bounded, Grows
  <2>6. WindowOK(v, g)'
    <3>1. CASE v = NoWindow
      <4>1. ASSUME NEW s \in Moments, s + WindowLen > now + 1, s <= now + 1
            PROVE  g[s] = g[now + 2]
        <5>1. s > now \/ (s + WindowLen > now /\ s <= now)
          BY <1>3, <4>1, WindowLenAssumption
        <5> QED
          BY <2>1, <2>3, <3>1, <5>1 DEF KeyOK, WindowOK
      <4> QED
        BY <1>1, <2>2, <3>1, <4>1 DEF WindowOK
    <3>2. CASE v # NoWindow
      <4>1. v.startTime \in Nat /\ v.startTime <= now
        BY <1>1, <2>1, <3>2, WindowFields, WindowNumbers DEF KeyOK, WindowOK
      <4>2. v.startTime <= now + 1
        BY <1>3, <4>1
      <4>3. ASSUME NEW t \in Moments, t >= v.startTime + WindowLen, t <= now + 1
            PROVE  g[t] = g[now + 2]
        <5>1. t > now \/ t <= now
          BY <1>3
        <5> QED
          BY <2>1, <2>3, <3>2, <4>3, <5>1 DEF KeyOK, WindowOK
      <4>4. g[now + 2] - g[v.startTime] = IF v.count <= Limit THEN v.count ELSE 0
        BY <2>1, <2>3, <3>2 DEF KeyOK, WindowOK
      <4>5. \A s \in Moments : s + WindowLen > v.startTime /\ s <= v.startTime
                => g[v.startTime] - g[s] <= Limit
        BY <2>1, <3>2 DEF KeyOK, WindowOK
      <4> QED
        BY <1>1, <2>2, <3>2, <4>2, <4>3, <4>4, <4>5 DEF WindowOK
    <3> QED
      BY <3>1, <3>2
  <2> QED
    BY <2>4, <2>5, <2>6 DEF KeyOK
<1> QED
  BY <1>2, <1>4 DEF WindowInv

LEMMA WindowNext == WindowInv /\ [Next]_vars => WindowInv'
<1> SUFFICES ASSUME WindowInv, [Next]_vars PROVE WindowInv'
  OBVIOUS
<1>1. CASE UNCHANGED vars
  BY <1>1 DEF vars, WindowInv, TypeOK, KeyOK, Bounded, Grows, Known, WindowOK
<1>2. ASSUME NEW k \in Keys, NEW n \in Sizes, Refuse(k, n) PROVE WindowInv'
  BY <1>1, <1>2 DEF Refuse
<1> QED
  BY <1>1, <1>2, WindowAllowFresh, WindowAllowInWindow, WindowCleanup, WindowTick
     DEF Next, AllowN

-----------------------------------------------------------------------------
(* GrpcChain *)

LEMMA GrpcInit == G!Init => GrpcInv
<1> SUFFICES ASSUME G!Init PROVE GrpcInv
  OBVIOUS
<1>1. PICK stream \in BOOLEAN : call = [G!Idle EXCEPT !.stream = stream]
  BY DEF G!Init
<1>2. G!Idle \in CallRecord
  BY DEF G!Idle, CallRecord, G!Codes, G!Errors
<1>3. call \in CallRecord /\ call.at = 1 /\ call.way = "in" /\ call.lines = <<>> /\ ~call.panicked
  <2>1. G!Idle.at = 1 /\ G!Idle.way = "in" /\ G!Idle.lines = <<>> /\ ~G!Idle.panicked
    BY DEF G!Idle
  <2> QED
    BY <1>1, <1>2, <2>1 DEF CallRecord
<1>4. interceptors \in GrpcChains /\ Len(interceptors) \in Nat
  BY ChainsAssumption DEF G!Init, Chained
<1> QED
  BY <1>3, <1>4 DEF GrpcInv, CallOK, RecoveryOutside, LoggingOutside

\* Interceptors are in one place each.
LEMMA Places ==
  ASSUME interceptors \in GrpcChains
  PROVE  /\ Len(interceptors) \in Nat
         /\ DOMAIN interceptors = 1..Len(interceptors)
         /\ \A i, j \in 1..Len(interceptors) : interceptors[i] = interceptors[j] => i = j
BY ChainsAssumption DEF Chained, IsInjective

\* Where a call is that an interceptor has.
LEMMA At ==
  ASSUME GrpcInv, NEW i, call.at > 0, call.at <= Len(interceptors), interceptors[call.at] = i
  PROVE  /\ call.at \in Nat /\ Len(interceptors) \in Nat
         /\ Outer("recovery", "logging") =>
              /\ i = "recovery" <=> call.at = 1
              /\ i = "logging" <=> call.at = 2
         /\ Outer("logging", "recovery") =>
              /\ i = "logging" <=> call.at = 1
              /\ i = "recovery" <=> call.at = 2
<1>1. call.at \in Nat /\ call.at \in 1..Len(interceptors)
  BY Places DEF GrpcInv, CallRecord
<1>2. Len(interceptors) >= 2 => 1 \in 1..Len(interceptors) /\ 2 \in 1..Len(interceptors)
  BY Places DEF GrpcInv
<1> QED
  BY <1>1, <1>2, Places DEF GrpcInv, Outer

\* A call goes on inwards.
LEMMA GrpcInward ==
  ASSUME GrpcInv, NEW c \in CallRecord, c.at = call.at + 1, c.way = "in", c.lines = <<>>,
         ~c.panicked, call.way = "in", call.at <= Len(interceptors),
         call' = c, interceptors' = interceptors
  PROVE  GrpcInv'
<1>1. call.at \in Nat /\ Len(interceptors) \in Nat
  BY Places DEF GrpcInv, CallRecord
<1> QED
  BY <1>1 DEF GrpcInv, CallOK, RecoveryOutside, LoggingOutside, Outer

LEMMA InwardFields ==
  ASSUME GrpcInv, call.way = "in"
  PROVE  /\ G!Inward \in CallRecord /\ G!Inward.at = call.at + 1 /\ G!Inward.way = "in"
         /\ G!Inward.lines = <<>> /\ ~G!Inward.panicked
<1>1. call \in CallRecord /\ call.at + 1 \in Nat /\ call.lines = <<>> /\ ~call.panicked
  BY DEF GrpcInv, CallRecord, CallOK
<1> QED
  BY <1>1 DEF G!Inward, CallRecord

\* A call that an interceptor inside the two refuses, or the method answers.
LEMMA GrpcReturn ==
  ASSUME GrpcInv, call.way = "in", NEW err \in G!Errors, G!Return(err),
         interceptors' = interceptors,
         Outer("recovery", "logging") \/ Outer("logging", "recovery") => call.at >= 3
  PROVE  GrpcInv'
<1>1. /\ call \in CallRecord /\ call.at \in Nat /\ call.at >= 1 /\ call.lines = <<>> /\ ~call.panicked
      /\ Len(interceptors) \in Nat /\ call.at <= Len(interceptors) + 1
  BY Places DEF GrpcInv, CallRecord, CallOK
<1>2. call.at - 1 \in Nat
  BY <1>1
<1>3. /\ call' \in CallRecord /\ call'.at = call.at - 1 /\ call'.way = "out"
      /\ call'.lines = <<>> /\ ~call'.panicked /\ (call'.reply <=> call'.err = "nil")
  BY <1>1, <1>2 DEF G!Return, G!Outward, CallRecord
<1> QED
  BY <1>1, <1>3 DEF GrpcInv, CallOK, RecoveryOutside, LoggingOutside, Outer

\* The same for a panic of the method.
LEMMA GrpcPanic ==
  ASSUME GrpcInv, call.way = "in", call.at > Len(interceptors),
         call' = G!Outward([call EXCEPT !.panicked = TRUE], "panic"), interceptors' = interceptors
  PROVE  GrpcInv'
<1>1. /\ call \in CallRecord /\ call.at \in Nat /\ call.at >= 1 /\ call.lines = <<>>
      /\ Len(interceptors) \in Nat /\ call.at <= Len(interceptors) + 1
  BY Places DEF GrpcInv, CallRecord, CallOK
<1>2. call.at - 1 \in Nat
  BY <1>1
<1>3. /\ call' \in CallRecord /\ call'.at = call.at - 1 /\ call'.way = "panic"
      /\ call'.lines = <<>> /\ call'.panicked
  BY <1>1, <1>2 DEF G!Outward, CallRecord
<1>4. Len(interceptors) >= 2 => call'.at >= 2
  BY <1>1, <1>3
<1>5. CallOK(call)'
  <2>1. call'.at <= Len(interceptors)
    BY <1>1, <1>3
  <2>2. Outer("recovery", "logging") => call'.at >= 2
    BY <1>4 DEF Outer
  <2>3. Outer("logging", "recovery") => call'.at >= 2
    BY <1>4 DEF Outer
  <2>4. call'.at >= 2 => RecoveryOutside(call') /\ LoggingOutside(call')
    <3>1. call'.way = "panic" /\ call'.at \in Int
      BY <1>1, <1>3
    <3>2. call'.at >= 2 => RecoveryOutside(call')
      BY <3>1 DEF RecoveryOutside
    <3>3. call'.at >= 2 => LoggingOutside(call')
      BY <3>1 DEF LoggingOutside
    <3> QED
      BY <3>2, <3>3
  <2>5. CallOK(call')
    BY <1>1, <1>3, <2>1, <2>2, <2>3, <2>4 DEF CallOK
  <2> QED
    BY <2>5 DEF CallOK, RecoveryOutside, LoggingOutside, Outer, Answer, PanicLine, G!CodeOf,
               G!ContextErrors
<1> QED
  BY <1>3, <1>5 DEF GrpcInv

\* An interceptor that only returns what its handler returned.
LEMMA GrpcThrough ==
  ASSUME GrpcInv, G!Through
  PROVE  GrpcInv'
<1>1. PICK i : /\ call.at > 0 /\ interceptors[call.at] = i /\ call.way \in {"out", "panic"}
               /\ i = "recovery" => call.way = "out"
               /\ i = "logging" => call.way = "panic"
  BY DEF G!Through, G!Back
<1>2. /\ call \in CallRecord /\ call.at \in Nat /\ Len(interceptors) \in Nat
      /\ call.at <= Len(interceptors)
  BY <1>1, Places DEF GrpcInv, CallRecord, CallOK
<1>3. call.at - 1 \in Nat
  BY <1>1, <1>2
<1>4. /\ call' \in CallRecord /\ call'.at = call.at - 1 /\ call'.way = call.way
      /\ call'.lines = call.lines /\ call'.panicked = call.panicked
      /\ call'.skipped = call.skipped /\ call'.err = call.err /\ call'.reply = call.reply
      /\ interceptors' = interceptors
  BY <1>2, <1>3 DEF G!Through, G!Outward, CallRecord
<1>5. Answer(call') = Answer(call)
  BY <1>4 DEF Answer
<1>6. ASSUME Outer("recovery", "logging") PROVE RecoveryOutside(call')
  <2>1. RecoveryOutside(call)
    BY <1>6 DEF GrpcInv, CallOK
  <2>2. (i = "recovery" <=> call.at = 1) /\ (i = "logging" <=> call.at = 2)
    BY <1>1, <1>2, <1>6, At
  <2> QED
    BY <1>1, <1>2, <1>4, <1>5, <2>1, <2>2 DEF RecoveryOutside
<1>7. ASSUME Outer("logging", "recovery") PROVE LoggingOutside(call')
  <2>1. LoggingOutside(call)
    BY <1>7 DEF GrpcInv, CallOK
  <2>2. (i = "logging" <=> call.at = 1) /\ (i = "recovery" <=> call.at = 2)
    BY <1>1, <1>2, <1>7, At
  <2> QED
    BY <1>1, <1>2, <1>4, <1>5, <2>1, <2>2 DEF LoggingOutside
<1>8. CallOK(call)
  BY DEF GrpcInv
<1>9. CallOK(call)'
  BY <1>1, <1>2, <1>4, <1>6, <1>7, <1>8
     DEF CallOK, Outer, RecoveryOutside, LoggingOutside, Answer, PanicLine, G!CodeOf, G!ContextErrors
<1> QED
  BY <1>4, <1>9 DEF GrpcInv

\* The deferred function of Recovery.
LEMMA GrpcRecover ==
  ASSUME GrpcInv, G!Recover
  PROVE  GrpcInv'
<1>1. PICK err \in G!Errors :
         call' = G!Outward([G!Logged(call, PanicLine) EXCEPT !.err = err], "out")
  BY DEF G!Recover, PanicLine
<1>2. /\ call.way = "panic" /\ call.at > 0 /\ interceptors[call.at] = "recovery"
      /\ interceptors' = interceptors
      /\ call \in CallRecord /\ call.at \in Nat /\ Len(interceptors) \in Nat
      /\ call.at <= Len(interceptors) /\ call.lines = <<>> /\ call.panicked
  BY Places DEF G!Recover, G!Back, GrpcInv, CallRecord, CallOK
<1>3. call.at - 1 \in Nat /\ PanicLine \in LineRecord
  BY <1>2 DEF PanicLine, G!Line, LineRecord
<1>4. Append(call.lines, PanicLine) = <<PanicLine>> /\ <<PanicLine>> \in Seq(LineRecord)
  BY <1>2, <1>3
<1>5. /\ call' \in CallRecord /\ call'.at = call.at - 1 /\ call'.way = "out"
      /\ call'.lines = <<PanicLine>> /\ call'.panicked
  BY <1>1, <1>2, <1>3, <1>4 DEF G!Outward, G!Logged, CallRecord, LineRecord
<1>6. /\ Outer("recovery", "logging") => call.at = 1
      /\ Outer("logging", "recovery") => call.at = 2
  BY <1>2, At
<1> QED
  BY <1>2, <1>5, <1>6 DEF GrpcInv, CallOK, RecoveryOutside, LoggingOutside, Outer, PanicLine

LEMMA AppendTwo == ASSUME NEW S, NEW a \in S, NEW b \in S PROVE Append(<<a>>, b) = <<a, b>>
<1> DEFINE s == Append(<<a>>, b)
           t == <<a, b>>
<1>1. /\ <<a>> \in Seq(S) /\ Len(<<a>>) = 1
      /\ t \in Seq(S) /\ Len(t) = 2 /\ t[1] = a /\ t[2] = b
  OBVIOUS
<1>2. s \in Seq(S) /\ Len(s) = 2 /\ s[1] = a /\ s[2] = b
  BY <1>1
<1>3. \A i \in 1..Len(s) : s[i] = t[i]
  <2>1. \A i \in 1..2 : i = 1 \/ i = 2
    OBVIOUS
  <2> QED
    BY <1>1, <1>2, <2>1
<1> HIDE DEF s, t
<1>4. s = t
  BY <1>1, <1>2, <1>3, SeqEqual
<1> QED
  BY <1>4 DEF s, t

\* The code of an error is one of the codes.
LEMMA CodesOf == ASSUME NEW err \in G!Errors PROVE G!CodeOf(err) \in G!Codes
BY DEF G!CodeOf, G!Errors, G!Codes, G!Statuses, G!ContextErrors

\* Logging on the way out.
LEMMA GrpcLog ==
  ASSUME GrpcInv, G!Log
  PROVE  GrpcInv'
<1>1. /\ call.way = "out" /\ call.at > 0 /\ interceptors[call.at] = "logging"
      /\ interceptors' = interceptors
      /\ call \in CallRecord /\ call.at \in Nat /\ Len(interceptors) \in Nat
      /\ call.at <= Len(interceptors) /\ call.err \in G!Errors
      /\ call.lines \in Seq(LineRecord)
      /\ call.skipped \in BOOLEAN
  BY Places DEF G!Log, G!Back, GrpcInv, CallRecord, CallOK, LineRecord
<1>2. call.at - 1 \in Nat /\ Answer(call) \in LineRecord
  BY <1>1, CodesOf DEF Answer, G!Line, LineRecord
<1>3. Append(call.lines, Answer(call)) \in Seq(LineRecord)
  BY <1>1, <1>2
<1>4. /\ Outer("recovery", "logging") => call.at = 2
      /\ Outer("logging", "recovery") => call.at = 1
  BY <1>1, At
<1>5. CASE call.skipped
  <2>1. /\ call' \in CallRecord /\ call'.at = call.at - 1 /\ call'.way = "out" /\ call'.skipped
        /\ call'.err = call.err /\ call'.panicked = call.panicked /\ call'.reply = call.reply
    BY <1>1, <1>2, <1>5 DEF G!Log, G!Outward, CallRecord
  <2> QED
    BY <1>1, <2>1 DEF GrpcInv, CallOK, RecoveryOutside, LoggingOutside, Outer
<1>6. CASE ~call.skipped
  <2>1. call' = G!Outward(G!LineAfter(call), "out")
    BY <1>6 DEF G!Log
  <2>2. /\ call' \in CallRecord /\ call'.at = call.at - 1 /\ call'.way = "out"
        /\ call'.lines = Append(call.lines, Answer(call))
        /\ call'.err = call.err /\ call'.panicked = call.panicked
        /\ call'.reply = call.reply
    BY <1>1, <1>2, <1>3, <2>1 DEF G!LineAfter, G!Logged, G!Outward, CallRecord, Answer, LineRecord
  <2>3. Answer(call') = Answer(call)
    BY <2>2 DEF Answer
  <2>4. CallOK(call)
    BY DEF GrpcInv
  <2>5. ASSUME Outer("recovery", "logging") PROVE RecoveryOutside(call')
    <3>1. call.lines = <<>> /\ ~call.panicked
      BY <1>1, <1>4, <1>6, <2>4, <2>5 DEF CallOK, RecoveryOutside
    <3>2. call'.lines = <<Answer(call')>>
      BY <1>2, <2>2, <2>3, <3>1
    <3> QED
      BY <1>4, <2>2, <2>5, <3>1, <3>2 DEF RecoveryOutside
  <2>6. ASSUME Outer("logging", "recovery") PROVE LoggingOutside(call')
    <3>1. \/ call.lines = <<>> /\ ~call.panicked
          \/ call.lines = <<PanicLine>>
      BY <1>1, <1>4, <1>6, <2>4, <2>6 DEF CallOK, LoggingOutside
    <3>2. ASSUME call.lines = <<PanicLine>> PROVE call'.lines = <<PanicLine, Answer(call')>>
      <4>1. PanicLine \in LineRecord
        BY DEF PanicLine, G!Line, LineRecord
      <4> QED
        BY <1>2, <2>2, <2>3, <3>2, <4>1, AppendTwo
    <3>3. ASSUME call.lines = <<>> PROVE call'.lines = <<Answer(call')>>
      BY <1>2, <2>2, <2>3, <3>3
    <3>4. \/ call'.lines = <<Answer(call')>> /\ ~call'.panicked
          \/ call'.lines = <<PanicLine, Answer(call')>>
      BY <2>2, <3>1, <3>2, <3>3
    <3> QED
      BY <1>4, <2>2, <2>6, <3>4 DEF LoggingOutside
  <2>7. CallOK(call)'
    BY <1>1, <2>2, <2>4, <2>5, <2>6
       DEF CallOK, Outer, RecoveryOutside, LoggingOutside, Answer, PanicLine, G!CodeOf, G!ContextErrors
  <2> QED
    BY <1>1, <2>2, <2>7 DEF GrpcInv
<1> QED
  BY <1>1, <1>5, <1>6

\* grpc sends the answer: the client's code is that of the error but for the errors
\* of a context and a panic that came to nothing.
LEMMA GrpcReply ==
  ASSUME GrpcInv, G!Reply
  PROVE  GrpcInv'
<1>1. /\ call.way = "out" /\ call.at = 0 /\ interceptors' = interceptors
      /\ call \in CallRecord /\ Len(interceptors) \in Nat /\ CallOK(call)
  BY Places DEF G!Reply, GrpcInv
<1>2. PICK code \in G!ClientCodes(call) : call' = [call EXCEPT !.way = "sent", !.client = code]
  BY DEF G!Reply
<1>3. call.err \in G!Errors /\ G!CodeOf(call.err) \in G!Codes
  BY <1>1, CodesOf DEF CallRecord
<1>4. code \in G!Codes
  BY <1>2, <1>3 DEF G!ClientCodes, G!Codes, G!Statuses
<1>5. /\ call' \in CallRecord /\ call'.at = 0 /\ call'.way = "sent" /\ call'.client = code
      /\ call'.lines = call.lines /\ call'.panicked = call.panicked
      /\ call'.skipped = call.skipped /\ call'.err = call.err /\ call'.reply = call.reply
  BY <1>1, <1>2, <1>4 DEF CallRecord
<1>6. Answer(call') = Answer(call)
  BY <1>5 DEF Answer
<1>7. \/ code = G!CodeOf(call.err)
      \/ call.err \in G!ContextErrors
      \/ call.err = "nil" /\ ~call.reply /\ call.panicked
  <2>1. CASE call.err = "nil"
    <3>1. call.reply \/ call.panicked
      BY <1>1, <2>1 DEF CallOK
    <3>2. G!CodeOf(call.err) = "OK"
      BY <2>1 DEF G!CodeOf, G!ContextErrors
    <3>3. call.reply => code = "OK"
      BY <1>2, <2>1 DEF G!ClientCodes
    <3> QED
      BY <2>1, <3>1, <3>2, <3>3
  <2>2. CASE call.err # "nil"
    BY <1>2, <2>2 DEF G!ClientCodes, G!ContextErrors
  <2> QED
    BY <2>1, <2>2
<1>8. /\ Outer("recovery", "logging") => RecoveryOutside(call')
      /\ Outer("logging", "recovery") => LoggingOutside(call')
  BY <1>1, <1>5, <1>6 DEF CallOK, RecoveryOutside, LoggingOutside
<1>9. CallOK(call)'
  BY <1>1, <1>5, <1>7, <1>8
     DEF CallOK, Outer, RecoveryOutside, LoggingOutside, Answer, PanicLine, G!CodeOf, G!ContextErrors
<1> QED
  BY <1>1, <1>5, <1>9 DEF GrpcInv

\* An interceptor with a turn that is neither Recovery nor Logging is inside both.
LEMMA Inside ==
  ASSUME GrpcInv, NEW i, i \notin {"recovery", "logging"}, G!Turn(i)
  PROVE  Outer("recovery", "logging") \/ Outer("logging", "recovery") => call.at >= 3
<1>1. call.at \in Nat /\ call.at >= 1
  BY DEF G!Turn, GrpcInv, CallRecord, CallOK
<1> QED
  BY <1>1, At DEF G!Turn

LEMMA GrpcNext == GrpcInv /\ [G!Next]_(G!vars) => GrpcInv'
<1> SUFFICES ASSUME GrpcInv, [G!Next]_(G!vars) PROVE GrpcInv'
  OBVIOUS
<1>1. CASE UNCHANGED G!vars
  BY <1>1 DEF G!vars, GrpcInv, CallOK, Outer, RecoveryOutside, LoggingOutside, Answer, PanicLine, G!CodeOf, G!ContextErrors
<1>2. ASSUME call.way = "in", call.at <= Len(interceptors), call' = G!Inward,
             interceptors' = interceptors
      PROVE  GrpcInv'
  BY <1>2, GrpcInward, InwardFields
<1>3. {"Internal", "Unauthenticated", "ResourceExhausted"} \subseteq G!Errors
  BY DEF G!Errors, G!Statuses
<1>4. CASE G!Auth
  <2>1. G!Turn("auth") /\ interceptors' = interceptors
    BY <1>4 DEF G!Auth
  <2>2. Outer("recovery", "logging") \/ Outer("logging", "recovery") => call.at >= 3
    BY <2>1, Inside
  <2> QED
    BY <1>2, <1>3, <1>4, <2>1, <2>2, GrpcReturn DEF G!Auth, G!Turn
<1>5. CASE G!RateLimit
  <2>1. G!Turn("limit") /\ interceptors' = interceptors
    BY <1>5 DEF G!RateLimit
  <2>2. Outer("recovery", "logging") \/ Outer("logging", "recovery") => call.at >= 3
    BY <2>1, Inside
  <2> QED
    BY <1>2, <1>3, <1>5, <2>1, <2>2, GrpcReturn DEF G!RateLimit, G!Turn
<1>7. CASE G!Timeout \/ G!RequestID \/ G!Recovery
  BY <1>2, <1>7 DEF G!Timeout, G!RequestID, G!Recovery, G!Turn
<1>8. CASE G!Logging
  <2>1. PICK skip \in BOOLEAN : call' = [G!Inward EXCEPT !.skipped = skip]
    BY <1>8 DEF G!Logging
  <2>2. call.way = "in" /\ call.at <= Len(interceptors) /\ interceptors' = interceptors
    BY <1>8 DEF G!Logging, G!Turn
  <2>3. /\ call' \in CallRecord /\ call'.at = call.at + 1 /\ call'.way = "in"
        /\ call'.lines = <<>> /\ ~call'.panicked
    BY <2>1, <2>2, InwardFields DEF CallRecord
  <2> QED
    BY <2>2, <2>3, GrpcInward
<1>9. CASE G!Handler
  <2>1. /\ call.way = "in" /\ call.at > Len(interceptors) /\ interceptors' = interceptors
    BY <1>9 DEF G!Handler
  <2>2. Outer("recovery", "logging") \/ Outer("logging", "recovery") => call.at >= 3
    <3>1. call.at \in Nat /\ Len(interceptors) \in Nat
      BY Places DEF GrpcInv, CallRecord
    <3> QED
      BY <2>1, <3>1 DEF Outer
  <2>3. ASSUME NEW err \in G!Errors, G!Return(err) PROVE GrpcInv'
    BY <2>1, <2>2, <2>3, GrpcReturn
  <2> QED
    BY <1>9, <2>1, <2>3, GrpcPanic DEF G!Handler
<1> QED
  BY <1>1, <1>4, <1>5, <1>7, <1>8, <1>9, GrpcThrough, GrpcRecover, GrpcLog, GrpcReply DEF G!Next

\* Index finds an interceptor that is there.
LEMMA IndexFinds ==
  ASSUME GrpcInv, NEW i, G!Index(i) # 0
  PROVE  G!Index(i) \in 1..Len(interceptors) /\ interceptors[G!Index(i)] = i
<1> DEFINE P(k) == IF \E j \in DOMAIN interceptors : interceptors[j] = i
                   THEN k > 0 /\ interceptors[k] = i ELSE k = 0
<1>1. DOMAIN interceptors = 1..Len(interceptors) /\ Len(interceptors) \in Nat
  BY Places DEF GrpcInv
<1>2. \E k \in 0..Len(interceptors) : P(k)
  <2>1. CASE \E j \in DOMAIN interceptors : interceptors[j] = i
    <3>1. PICK j \in DOMAIN interceptors : interceptors[j] = i
      BY <2>1
    <3>2. j \in 0..Len(interceptors) /\ j > 0
      BY <1>1
    <3> QED
      BY <3>1, <3>2
  <2>2. CASE ~\E j \in DOMAIN interceptors : interceptors[j] = i
    BY <1>1, <2>2
  <2> QED
    BY <2>1, <2>2
<1>3. G!Index(i) = CHOOSE k \in 0..Len(interceptors) : P(k)
  BY DEF G!Index
<1> HIDE DEF P
<1>4. G!Index(i) \in 0..Len(interceptors) /\ P(G!Index(i))
  BY <1>2, <1>3
<1> QED
  BY <1>1, <1>4 DEF P

LEMMA CallsTellTheAnswer == GrpcInv => G!LinesTellTheAnswer
<1> SUFFICES ASSUME GrpcInv, {G!Index("recovery"), G!Index("logging")} = {1, 2}
             PROVE  /\ call.way = "panic" => call.at > 0
                    /\ call.way = "sent" /\ ~call.skipped =>
                          /\ call.lines # <<>>
                          /\ \A k \in DOMAIN call.lines :
                                call.lines[k].kind = "request" => G!Agree(call.lines[k].code)
                          /\ call.panicked => call.lines[1].kind = "panic"
  BY DEF G!LinesTellTheAnswer
<1>1. Outer("recovery", "logging") \/ Outer("logging", "recovery")
  <2>1. \/ G!Index("recovery") = 1 /\ G!Index("logging") = 2
        \/ G!Index("recovery") = 2 /\ G!Index("logging") = 1
    OBVIOUS
  <2>2. Len(interceptors) \in Nat
    BY Places DEF GrpcInv
  <2> QED
    BY <2>1, <2>2, IndexFinds DEF Outer
<1>2. CallOK(call) /\ call.at \in Nat
  BY DEF GrpcInv, CallRecord
<1>3. call.way = "panic" => call.at > 0
  BY <1>1, <1>2 DEF CallOK, RecoveryOutside, LoggingOutside
<1>4. ASSUME call.way = "sent", ~call.skipped
      PROVE  /\ call.lines # <<>>
             /\ \A k \in DOMAIN call.lines :
                   call.lines[k].kind = "request" => G!Agree(call.lines[k].code)
             /\ call.panicked => call.lines[1].kind = "panic"
  <2>1. \/ call.lines = <<Answer(call)>> /\ ~call.panicked
        \/ call.lines = <<PanicLine>>
        \/ call.lines = <<PanicLine, Answer(call)>>
    BY <1>1, <1>2, <1>4 DEF CallOK, RecoveryOutside, LoggingOutside
  <2>2. PanicLine.kind = "panic"
    BY DEF PanicLine, G!Line
  <2>3. G!Agree(Answer(call).code)
    <3>1. \/ call.client = G!CodeOf(call.err)
          \/ call.err \in G!ContextErrors
          \/ call.err = "nil" /\ ~call.reply /\ call.panicked
      BY <1>2, <1>4 DEF CallOK
    <3>2. Answer(call).code = G!CodeOf(call.err)
      BY DEF Answer, G!Line
    <3>3. /\ call.err = "nil" => G!CodeOf(call.err) = "OK"
          /\ call.err \in G!ContextErrors => G!CodeOf(call.err) = "Unknown"
      BY DEF G!CodeOf, G!ContextErrors
    <3> QED
      BY <3>1, <3>2, <3>3 DEF G!Agree
  <2>4. CASE call.lines = <<Answer(call)>> /\ ~call.panicked
    BY <2>3, <2>4
  <2>5. CASE call.lines = <<PanicLine>>
    BY <2>2, <2>5
  <2>6. CASE call.lines = <<PanicLine, Answer(call)>>
    <3>1. DOMAIN call.lines = 1..2 /\ call.lines[1] = PanicLine /\ call.lines[2] = Answer(call)
      BY <2>6
    <3> QED
      BY <2>2, <2>3, <2>6, <3>1
  <2> QED
    BY <2>1, <2>4, <2>5, <2>6
<1> QED
  BY <1>3, <1>4

-----------------------------------------------------------------------------
(* HttpChain: what its operators return *)

\* A set of numbers up to n has a greatest one: of the sets of those that are at
\* least k, one contains no other.
LEMMA Greatest ==
  ASSUME NEW n \in Nat, NEW S \in SUBSET (0..n), S # {}
  PROVE  \E k \in S : \A j \in S : j <= k
<1> DEFINE From(k) == {j \in S : j >= k}
           T == {From(k) : k \in S}
           R == StrictSubsetOrdering(S)
<1>1. IsFiniteSet(S)
  <2>1. IsFiniteSet(0..n)
    BY FS_Interval
  <2> QED
    BY <2>1, FS_Subset
<1>2. FiniteSubsetsOf(S) = SUBSET S
  BY <1>1, FS_FiniteSubsetsOfFinite
<1>3. T \subseteq SUBSET S /\ T # {}
  OBVIOUS
<1>4. PICK x \in T : \A y \in T : ~(<<y, x>> \in R)
  <2>1. IsWellFoundedOn(R, SUBSET S)
    BY <1>2, FS_StrictSubsetOrderingWellFounded
  <2> HIDE DEF T, R
  <2> QED
    BY <1>3, <2>1, WFMin
<1>5. PICK k \in S : x = From(k)
  BY <1>4
<1>6. ASSUME NEW j \in S, ~(j <= k) PROVE FALSE
  <2>1. j > k /\ \A i \in S : i \in Int
    BY <1>6
  <2>2. From(j) \subseteq From(k) /\ k \in From(k) /\ k \notin From(j)
    <3>1. \A i \in S : i >= j => i >= k
      BY <2>1
    <3>2. k >= k /\ ~(k >= j)
      BY <2>1
    <3> QED
      BY <3>1, <3>2
  <2>3. <<From(j), From(k)>> \in R
    <3>1. From(j) \in SUBSET S /\ From(k) \in SUBSET S
      OBVIOUS
    <3> HIDE DEF From
    <3> QED
      BY <2>2, <3>1 DEF StrictSubsetOrdering
  <2> QED
    BY <1>4, <1>5, <1>6, <2>3
<1> QED
  BY <1>5, <1>6

\* A middleware is in one place of the chain.
LEMMA Chain ==
  ASSUME chain \in Chains
  PROVE  /\ Len(chain) \in Nat
         /\ DOMAIN chain = 1..Len(chain)
         /\ \A i, j \in 1..Len(chain) : chain[i] = chain[j] => i = j
BY ChainsAssumption DEF Chained, IsInjective

\* Outside(i) is the last place before i that has something left to do.
LEMMA OutsideIsNext ==
  ASSUME chain \in Chains, NEW i \in 0..(Len(chain) + 1)
  PROVE  /\ C!Outside(i) \in 0..Len(chain)
         /\ C!Outside(i) # 0 => chain[C!Outside(i)] \in C!Returning
         /\ i > 0 => C!Outside(i) < i
         /\ \A k \in 1..Len(chain) : k < i /\ chain[k] \in C!Returning => k <= C!Outside(i)
<1> DEFINE S == C!Waiting(i)
           k == C!Outside(i)
<1>1. Len(chain) \in Nat
  BY Chain
<1>2. S \subseteq 0..Len(chain) /\ 0 \in S
  BY <1>1 DEF C!Waiting
<1>3. k \in S /\ \A j \in S : j <= k
  <2>1. \E l \in S : \A j \in S : j <= l
    <3> HIDE DEF S
    <3> QED
      BY <1>1, <1>2, Greatest
  <2> QED
    BY <2>1 DEF C!Outside
<1>4. S = {j \in 1..(i - 1) : chain[j] \in C!Returning} \cup {0}
  BY DEF C!Waiting
<1>5. i > 0 => k < i
  BY <1>1, <1>3, <1>4
<1>6. k # 0 => chain[k] \in C!Returning
  BY <1>3, <1>4
<1>7. ASSUME NEW j \in 1..Len(chain), j < i, chain[j] \in C!Returning PROVE j <= k
  <2>1. j \in S
    BY <1>1, <1>4, <1>7
  <2> QED
    BY <1>3, <2>1
<1> QED
  BY <1>2, <1>3, <1>5, <1>6, <1>7

\* What writing to the response leaves as it is.
Same(a, b) == /\ a.at = b.at /\ a.way = b.way /\ a.skipped = b.skipped /\ a.panic = b.panic
              /\ a.status = b.status /\ a.writer = b.writer /\ a.lines = b.lines

LEMMA SendKeeps ==
  ASSUME NEW rec \in ReqRecord, NEW frames \in Seq(Frame)
  PROVE  C!Send(rec, frames) \in ReqRecord /\ Same(C!Send(rec, frames), rec)
<1> DEFINE encoded == IF rec.written THEN rec.encoded ELSE rec.header
           body == IF rec.status = 204 THEN rec.body ELSE rec.body \o frames
<1>1. encoded \in BOOLEAN /\ body \in Seq(Frame)
  BY DEF ReqRecord
<1>2. C!Send(rec, frames) = [rec EXCEPT !.written = TRUE, !.encoded = encoded, !.body = body]
  BY DEF C!Send
<1> HIDE DEF encoded, body
<1> QED
  BY ZenonT(40), <1>1, <1>2 DEF ReqRecord, Same

LEMMA WriteHeaderKeeps ==
  ASSUME NEW rec \in ReqRecord, NEW s \in C!Statuses
  PROVE  /\ C!WriteHeader(rec, s) \in ReqRecord
         /\ C!WriteHeader(rec, s).at = rec.at /\ C!WriteHeader(rec, s).way = rec.way
         /\ C!WriteHeader(rec, s).skipped = rec.skipped /\ C!WriteHeader(rec, s).panic = rec.panic
         /\ C!WriteHeader(rec, s).lines = rec.lines /\ C!WriteHeader(rec, s).writer = rec.writer
BY DEF C!WriteHeader, ReqRecord

LEMMA FramesType ==
  ASSUME NEW r \in Requests, NEW pieces \in Seq(Pieces), NEW zipped \in BOOLEAN
  PROVE  C!Frames(r, pieces, zipped) \in Seq(Frame)
<1>1. /\ Len(pieces) \in Nat /\ DOMAIN pieces = 1..Len(pieces)
      /\ \A i \in 1..Len(pieces) : pieces[i] \in Pieces
  OBVIOUS
<1>2. \A i \in 1..Len(pieces) : [of |-> r, what |-> pieces[i], zipped |-> zipped] \in Frame
  BY <1>1 DEF Frame
<1>3. C!Frames(r, pieces, zipped) \in [1..Len(pieces) -> Frame]
  BY <1>1, <1>2 DEF C!Frames
<1> QED
  BY <1>1, <1>3

\* A step of request r makes its record what rec is, and leaves those of the
\* others as they were, but for what writing changes.
Becomes(new, r, rec) ==
    /\ new \in [Requests -> ReqRecord]
    /\ Same(new[r], rec)
    /\ \A q \in Requests \ {r} : Same(new[q], req[q])

LEMMA SetBecomes ==
  ASSUME HttpTypes, NEW r \in Requests, NEW rec \in ReqRecord, NEW like, Same(rec, like)
  PROVE  Becomes([req EXCEPT ![r] = rec], r, like)
BY DEF HttpTypes, Becomes, Same

LEMMA WrittenBecomes ==
  ASSUME HttpTypes, NEW r \in Requests, NEW rec \in ReqRecord, NEW pieces \in Seq(Pieces)
  PROVE  Becomes(C!Written(r, rec, pieces), r, rec)
<1> DEFINE all == C!Collected(rec, pieces)
           mine == [rec EXCEPT !.given = @ + Len(pieces)]
           type == IF rec.type = "unknown" THEN "included" ELSE rec.type
           begun == IF rec.started THEN mine
                    ELSE [mine EXCEPT !.started = TRUE, !.buffer = all, !.header = type = "included"]
           zipped == C!Frames(r, IF rec.started THEN pieces ELSE all, TRUE)
           to == IF rec.writer = Nobody THEN Nobody ELSE attached[rec.writer]
<1>1. all \in Seq(Pieces)
  BY DEF C!Collected, ReqRecord
<1>2. mine \in ReqRecord /\ Same(mine, rec)
  <2>1. Len(pieces) \in Nat /\ rec.given \in Nat /\ rec.given + Len(pieces) \in Nat
    BY DEF ReqRecord
  <2> QED
    BY <2>1 DEF ReqRecord, Same
<1>3. begun \in ReqRecord /\ Same(begun, rec)
  <2> DEFINE included == type = "included"
             started == [mine EXCEPT !.started = TRUE, !.buffer = all, !.header = included]
  <2>1. included \in BOOLEAN
    OBVIOUS
  <2>2. started \in ReqRecord /\ Same(started, rec)
    <3> HIDE DEF all, mine, included
    <3> QED
      BY <1>1, <1>2, <2>1 DEF ReqRecord, Same
  <2> QED
    BY <1>2, <2>2
<1>4. zipped \in Seq(Frame) /\ C!Frames(r, pieces, FALSE) \in Seq(Frame)
  BY <1>1, FramesType
<1>5. to \in Requests \cup {Nobody}
  BY DEF HttpTypes, ReqRecord
<1>6. \A q \in Requests : req[q] \in ReqRecord
  BY DEF HttpTypes
<1>7. C!Written(r, rec, pieces) =
        CASE rec.writer = Nobody -> [req EXCEPT ![r] = C!Send(mine, C!Frames(r, pieces, FALSE))]
          [] rec.writer # Nobody /\ ~rec.started /\ Len(all) < MinLength ->
               [req EXCEPT ![r] = [mine EXCEPT !.buffer = all]]
          [] OTHER -> IF to = Nobody THEN [req EXCEPT ![r] = begun]
                      ELSE IF to = r THEN [req EXCEPT ![r] = C!Send(begun, zipped)]
                      ELSE [req EXCEPT ![r] = begun, ![to] = C!Send(req[to], zipped)]
  BY DEF C!Written
<1>8. [mine EXCEPT !.buffer = all] \in ReqRecord /\ Same([mine EXCEPT !.buffer = all], rec)
  <2> HIDE DEF all, mine
  <2> QED
    BY <1>1, <1>2 DEF ReqRecord, Same
<1>9. /\ C!Send(mine, C!Frames(r, pieces, FALSE)) \in ReqRecord
      /\ Same(C!Send(mine, C!Frames(r, pieces, FALSE)), rec)
      /\ C!Send(begun, zipped) \in ReqRecord /\ Same(C!Send(begun, zipped), rec)
  <2> HIDE DEF all, mine, zipped, begun
  <2> QED
    BY <1>2, <1>3, <1>4, SendKeeps DEF Same
<1>10. to \in Requests => C!Send(req[to], zipped) \in ReqRecord /\ Same(C!Send(req[to], zipped), req[to])
  <2> HIDE DEF all, mine, zipped, begun, to
  <2> QED
    BY <1>4, <1>6, SendKeeps
<1> HIDE DEF all, mine, zipped, begun, to
<1>11. ASSUME to \in Requests, to # r
       PROVE  Becomes([req EXCEPT ![r] = begun, ![to] = C!Send(req[to], zipped)], r, rec)
  <2> DEFINE new == [req EXCEPT ![r] = begun, ![to] = C!Send(req[to], zipped)]
  <2>1. /\ new \in [Requests -> ReqRecord]
        /\ new[r] = begun /\ new[to] = C!Send(req[to], zipped)
        /\ \A q \in Requests \ {r, to} : new[q] = req[q]
    BY <1>3, <1>10, <1>11 DEF HttpTypes
  <2> HIDE DEF new
  <2>2. Becomes(new, r, rec)
    BY <1>3, <1>10, <1>11, <2>1 DEF Becomes, Same
  <2> QED
    BY <2>2 DEF new
<1> QED
  BY ZenonT(40), <1>3, <1>5, <1>7, <1>8, <1>9, <1>11, SetBecomes

-----------------------------------------------------------------------------
(* HttpChain: the invariant of one request *)

\* C!Counted as a predicate of records.
Inner(rec) ==
    \E k \in DOMAIN chain :
        /\ chain[k] = "metrics" /\ "metrics" \notin rec.skipped
        /\ \/ rec.way = "in" /\ rec.at > k
           \/ rec.way \in {"out", "panic"} /\ rec.at >= k

LEMMA SameOK ==
  ASSUME NEW a, NEW b, Same(a, b)
  PROVE  ReqOK(a) = ReqOK(b) /\ Inner(a) = Inner(b)
<1>1. \A line : LineOK(a, line) <=> LineOK(b, line)
  BY DEF Same, LineOK
<1>2. \A k : SeenOK(a, k) <=> SeenOK(b, k)
  BY DEF Same, SeenOK, Told
<1>3. ReqOK(a) <=> ReqOK(b)
  BY <1>1, <1>2 DEF Same, ReqOK
<1>4. Inner(a) <=> Inner(b)
  BY DEF Same, Inner
<1>5. ReqOK(a) \in BOOLEAN /\ ReqOK(b) \in BOOLEAN /\ Inner(a) \in BOOLEAN /\ Inner(b) \in BOOLEAN
  BY DEF ReqOK, Inner
<1> QED
  BY <1>3, <1>4, <1>5

\* A middleware, or the handler behind the last one, is where a request stands.
LEMMA Place ==
  ASSUME HttpInv, NEW r \in Requests
  PROVE  /\ req[r] \in ReqRecord /\ ReqOK(req[r])
         /\ req[r].at \in Nat /\ req[r].at \in 0..(Len(chain) + 1)
         /\ chain \in Chains /\ HttpTypes
<1>1. req[r] \in ReqRecord /\ ReqOK(req[r]) /\ chain \in Chains /\ HttpTypes
  BY DEF HttpInv, HttpTypes
<1>2. req[r].at \in Nat /\ Len(chain) \in Nat
  BY <1>1, Chain DEF ReqRecord
<1> QED
  BY <1>1, <1>2 DEF ReqOK

\* On the way in: past a middleware.
LEMMA GoesIn ==
  ASSUME HttpInv, NEW r \in Requests, NEW rec \in ReqRecord,
         req[r].way = "in", req[r].at <= Len(chain), rec.way = "in", rec.at = req[r].at + 1,
         rec.lines = req[r].lines,
         rec.skipped = req[r].skipped \/ chain[req[r].at] = "metrics",
         rec.writer = req[r].writer \/ chain[req[r].at] = "gzip"
  PROVE  /\ ReqOK(rec)
         /\ chain[req[r].at] = "metrics" =>
              ~Inner(req[r]) /\ (Inner(rec) <=> "metrics" \notin rec.skipped)
         /\ chain[req[r].at] # "metrics" => (Inner(rec) <=> Inner(req[r]))
<1> DEFINE at == req[r].at
<1>1. /\ at \in 1..Len(chain) /\ at \in Nat /\ Len(chain) \in Nat /\ req[r].lines = {}
      /\ \A k \in 1..Len(chain) : SeenOK(req[r], k)
      /\ DOMAIN chain = 1..Len(chain)
      /\ \A i, j \in 1..Len(chain) : chain[i] = chain[j] => i = j
  BY Place, Chain DEF ReqOK
<1>2. ASSUME NEW k \in 1..Len(chain) PROVE SeenOK(rec, k)
  BY <1>1, <1>2 DEF SeenOK
<1>3. ReqOK(rec)
  BY <1>1, <1>2 DEF ReqOK
<1>4. ASSUME chain[at] = "metrics"
      PROVE  ~Inner(req[r]) /\ (Inner(rec) <=> "metrics" \notin rec.skipped)
  <2>1. \A k \in DOMAIN chain : chain[k] = "metrics" <=> k = at
    BY <1>1, <1>4
  <2> QED
    BY <1>1, <2>1 DEF Inner
<1>5. ASSUME chain[at] # "metrics" PROVE Inner(rec) <=> Inner(req[r])
  <2>1. \A k \in DOMAIN chain : chain[k] = "metrics" => (at + 1 > k <=> at > k)
    BY <1>1, <1>5
  <2>2. rec.skipped = req[r].skipped
    BY <1>5
  <2> QED
    BY <2>1, <2>2 DEF Inner
<1> QED
  BY <1>3, <1>4, <1>5

\* The turn: a middleware of Gates stops the request, or the handler ends.
LEMMA TurnsBack ==
  ASSUME HttpInv, NEW r \in Requests, NEW rec \in ReqRecord,
         req[r].way = "in", req[r].at > Len(chain) \/ chain[req[r].at] \in C!Gates,
         rec.way \in {"out", "panic"}, rec.at = C!Outside(req[r].at),
         rec.lines = req[r].lines, rec.skipped = req[r].skipped,
         rec.way = "panic" => rec.panic # "none"
  PROVE  ReqOK(rec) /\ (Inner(rec) <=> Inner(req[r]))
<1> DEFINE at == req[r].at
           out == C!Outside(at)
<1>1. /\ at \in 0..(Len(chain) + 1) /\ at \in Nat /\ at >= 1 /\ Len(chain) \in Nat
      /\ req[r].lines = {} /\ DOMAIN chain = 1..Len(chain)
  BY Place, Chain DEF ReqOK
<1>2. /\ out \in 0..Len(chain) /\ (out # 0 => chain[out] \in C!Returning) /\ out < at
      /\ \A k \in 1..Len(chain) : k < at /\ chain[k] \in C!Returning => k <= out
  BY <1>1, Place, OutsideIsNext
<1>3. ASSUME NEW k \in 1..Len(chain), chain[k] = "logger", C!Open(k) PROVE k <= out
  <2>1. ~(at < k)
    <3>1. at < k => at \in 1..(k - 1) /\ ~(at > Len(chain))
      BY <1>1
    <3> QED
      BY <1>3, <3>1 DEF C!Open
  <2>2. at # k
    BY <1>1, <1>3 DEF C!Gates
  <2>3. k < at /\ chain[k] \in C!Returning
    BY <1>1, <1>3, <2>1, <2>2 DEF C!Returning
  <2> QED
    BY <1>2, <2>3
<1>4. ASSUME NEW k \in 1..Len(chain) PROVE SeenOK(rec, k)
  <2>1. chain[k] = "logger" /\ C!Open(k) => ~(rec.at < k)
    BY <1>1, <1>2, <1>3
  <2> QED
    BY <2>1 DEF SeenOK
<1>5. ReqOK(rec)
  BY <1>1, <1>2, <1>4 DEF ReqOK
<1>6. \A k \in 1..Len(chain) : chain[k] = "metrics" => (out >= k <=> at > k)
  BY <1>1, <1>2 DEF C!Returning
<1> QED
  BY <1>1, <1>5, <1>6 DEF Inner

\* On the way out: a middleware has done what was left to do.
LEMMA GoesOut ==
  ASSUME HttpInv, NEW r \in Requests, NEW rec \in ReqRecord,
         req[r].way \in {"out", "panic"}, req[r].at > 0,
         rec.at = C!Outside(req[r].at),
         rec.way = req[r].way \/ (rec.way = "out" /\ Told(rec)),
         req[r].panic # "none" => rec.panic # "none",
         \A line \in rec.lines : LineOK(rec, line),
         rec.way = "panic" => rec.panic # "none",
         req[r].lines \subseteq rec.lines, req[r].skipped \subseteq rec.skipped,
         "metrics" \in rec.skipped => "metrics" \in req[r].skipped,
         chain[req[r].at] = "logger" /\ rec.way = "out" /\ "logger" \notin rec.skipped
             => Told(rec)
  PROVE  /\ ReqOK(rec)
         /\ chain[req[r].at] = "metrics" =>
              ~Inner(rec) /\ (Inner(req[r]) <=> "metrics" \notin req[r].skipped)
         /\ chain[req[r].at] # "metrics" => (Inner(rec) <=> Inner(req[r]))
<1> DEFINE at == req[r].at
           out == C!Outside(at)
<1>1. /\ at \in 1..Len(chain) /\ at \in 0..(Len(chain) + 1) /\ at \in Nat /\ Len(chain) \in Nat
      /\ \A k \in 1..Len(chain) : SeenOK(req[r], k)
      /\ DOMAIN chain = 1..Len(chain)
      /\ \A i, j \in 1..Len(chain) : chain[i] = chain[j] => i = j
  BY Place, Chain DEF ReqOK
<1>2. /\ out \in 0..Len(chain) /\ (out # 0 => chain[out] \in C!Returning) /\ out < at
      /\ \A k \in 1..Len(chain) : k < at /\ chain[k] \in C!Returning => k <= out
  BY <1>1, Place, OutsideIsNext
<1>3. ASSUME NEW k \in 1..Len(chain), chain[k] = "logger", C!Open(k), rec.way = "out", out < k,
             "logger" \notin rec.skipped
      PROVE  Told(rec)
  <2>1. ~(k < at)
    BY <1>1, <1>2, <1>3 DEF C!Returning
  <2>2. CASE k = at
    BY <1>3, <2>2
  <2>3. CASE at < k
    BY <1>1, <1>3, <2>3 DEF SeenOK, Told
  <2> QED
    BY <1>1, <2>1, <2>2, <2>3
<1>4. ASSUME NEW k \in 1..Len(chain) PROVE SeenOK(rec, k)
  BY <1>3 DEF SeenOK
<1>5. ReqOK(rec)
  BY <1>1, <1>2, <1>4 DEF ReqOK
<1>6. ASSUME chain[at] = "metrics"
      PROVE  ~Inner(rec) /\ (Inner(req[r]) <=> "metrics" \notin req[r].skipped)
  <2>1. \A k \in DOMAIN chain : chain[k] = "metrics" <=> k = at
    BY <1>1, <1>6
  <2> QED
    BY <1>1, <1>2, <2>1 DEF Inner
<1>7. ASSUME chain[at] # "metrics" PROVE Inner(rec) <=> Inner(req[r])
  <2>1. \A k \in DOMAIN chain : chain[k] = "metrics" => (out >= k <=> at >= k)
    BY <1>1, <1>2, <1>7 DEF C!Returning
  <2> QED
    BY <2>1 DEF Inner
<1> QED
  BY <1>5, <1>6, <1>7

\* The same place, and nothing seen or logged.
LEMMA Stays ==
  ASSUME HttpInv, NEW r \in Requests, NEW rec \in ReqRecord,
         rec.at = req[r].at, rec.way = req[r].way, rec.skipped = req[r].skipped,
         rec.panic = req[r].panic, rec.writer = req[r].writer, rec.lines = req[r].lines,
         rec.way = "in" \/ rec.status = req[r].status
  PROVE  ReqOK(rec) /\ (Inner(rec) <=> Inner(req[r]))
<1>1. ReqOK(req[r])
  BY Place
<1>2. \A line \in rec.lines : LineOK(rec, line)
  BY <1>1 DEF ReqOK, LineOK
<1>3. \A k \in DOMAIN chain : SeenOK(rec, k)
  BY <1>1 DEF ReqOK, SeenOK, Told
<1> QED
  BY <1>1, <1>2, <1>3 DEF ReqOK, Inner

\* Before, and after: a request that is nowhere.
LEMMA Outdoors ==
  ASSUME chain \in Chains, NEW rec, rec.at = 0, rec.way \in {"new", "out", "panic", "done", "gone"}
  PROVE  ~Inner(rec)
BY Chain DEF Inner

-----------------------------------------------------------------------------
(* HttpChain: a step of a request *)

CountersAgree(m) ==
    /\ m.total = m.success + m.failed
    /\ m.total = m.codes[200] + m.codes[204] + m.codes[400] + m.codes[401] + m.codes[403]
                     + m.codes[429] + m.codes[500]

\* The instance of HttpChain has the operator of FiniteSets under a name of its own.
LEMMA SameCardinality == ASSUME NEW S PROVE C!Cardinality(S) = Cardinality(S)
BY DEF C!Cardinality, Cardinality

LEMMA AddUp ==
  C!MetricsAddUp <=> /\ metrics.inFlight = Cardinality({r \in Requests : Inner(req[r])})
                     /\ CountersAgree(metrics)
<1>1. C!MetricsAddUp <=> /\ metrics.inFlight = Cardinality({r \in Requests : C!Counted(r)})
                         /\ CountersAgree(metrics)
  BY SameCardinality DEF C!MetricsAddUp, CountersAgree
<1>2. {r \in Requests : C!Counted(r)} = {r \in Requests : Inner(req[r])}
  BY DEF C!Counted, Inner
<1> QED
  BY <1>1, <1>2

LEMMA GaugeFollows ==
  ASSUME HttpInv, NEW r \in Requests, NEW rec, chain' = chain, Becomes(req', r, rec),
         metrics'.inFlight = metrics.inFlight + (IF Inner(rec) THEN 1 ELSE 0)
                                              - (IF Inner(req[r]) THEN 1 ELSE 0)
  PROVE  metrics'.inFlight = Cardinality({q \in Requests : Inner(req'[q])})
<1> DEFINE A == {q \in Requests : Inner(req[q])}
           B == {q \in Requests : Inner(req'[q])}
<1>1. IsFiniteSet(A) /\ Cardinality(A) \in Nat
  BY RequestsAssumption, FS_Subset, FS_CardinalityType
<1>2. metrics.inFlight = Cardinality(A)
  BY AddUp DEF HttpInv
<1>3. \A q \in Requests : Inner(req'[q]) = Inner(IF q = r THEN rec ELSE req[q])
  BY SameOK DEF Becomes
<1>4. CASE Inner(rec)
  <2>1. B = A \cup {r}
    BY <1>3, <1>4
  <2> HIDE DEF A, B
  <2>2. Cardinality(B) = IF r \in A THEN Cardinality(A) ELSE Cardinality(A) + 1
    BY <1>1, <2>1, FS_AddElement
  <2> QED
    BY <1>1, <1>2, <1>4, <2>2 DEF A, B
<1>5. CASE ~Inner(rec)
  <2>1. B = A \ {r}
    BY <1>3, <1>5
  <2> HIDE DEF A, B
  <2>2. Cardinality(B) = IF r \in A THEN Cardinality(A) - 1 ELSE Cardinality(A)
    BY <1>1, <2>1, FS_RemoveElement
  <2> QED
    BY <1>1, <1>2, <1>5, <2>2 DEF A, B
<1> QED
  BY <1>4, <1>5

LEMMA HttpStep ==
  ASSUME HttpInv, NEW r \in Requests, NEW rec, chain' = chain, Becomes(req', r, rec), ReqOK(rec),
         pool' \subseteq Writers, attached' \in [Writers -> Requests \cup {Nobody}],
         metrics' \in MetricsRecord, CountersAgree(metrics'),
         metrics'.inFlight = metrics.inFlight + (IF Inner(rec) THEN 1 ELSE 0)
                                              - (IF Inner(req[r]) THEN 1 ELSE 0)
  PROVE  HttpInv'
<1>1. HttpTypes'
  BY DEF HttpInv, HttpTypes, Becomes, ReqRecord, Frame, HttpLine, Pieces
<1>2. \A q \in Requests : ReqOK(req'[q])
  BY Place, SameOK DEF Becomes
<1>3. ASSUME NEW q \in Requests PROVE ReqOK(req[q])'
  BY <1>2 DEF ReqOK, LineOK, SeenOK, Told, C!Open
<1>4. C!MetricsAddUp'
  <2>1. metrics'.inFlight = Cardinality({q \in Requests : Inner(req'[q])})
    BY GaugeFollows
  <2>2. {q \in Requests : C!Counted(q)}' = {q \in Requests : Inner(req'[q])}
    BY DEF C!Counted, Inner
  <2>3. metrics'.inFlight = Cardinality({q \in Requests : C!Counted(q)}')
    BY <2>1, <2>2
  <2> QED
    BY <2>3, SameCardinality DEF C!MetricsAddUp, CountersAgree
<1> QED
  BY <1>1, <1>3, <1>4 DEF HttpInv, MetricsRecord

\* The same when the request stays inside the metrics, or outside.
LEMMA HttpPlain ==
  ASSUME HttpInv, NEW r \in Requests, NEW rec, chain' = chain, Becomes(req', r, rec), ReqOK(rec),
         pool' \subseteq Writers, attached' \in [Writers -> Requests \cup {Nobody}],
         metrics' = metrics, Inner(rec) <=> Inner(req[r])
  PROVE  HttpInv'
<1>1. metrics \in MetricsRecord /\ CountersAgree(metrics) /\ metrics.inFlight \in Int
  BY AddUp DEF HttpInv, MetricsRecord
<1> QED
  BY <1>1, HttpStep

\* A step that only one request takes part in.
LEMMA HttpAlone ==
  ASSUME HttpInv, NEW r \in Requests, NEW rec, Becomes(req', r, rec), ReqOK(rec),
         Inner(rec) <=> Inner(req[r]), UNCHANGED <<chain, metrics, pool, attached>>
  PROVE  HttpInv'
BY HttpPlain DEF HttpInv, HttpTypes

-----------------------------------------------------------------------------
(* HttpChain: the actions *)

LEMMA InFields ==
  ASSUME HttpInv, NEW r \in Requests
  PROVE  /\ C!Inward(req[r]) \in ReqRecord
         /\ C!Inward(req[r]).at = req[r].at + 1 /\ C!Inward(req[r]).way = req[r].way
         /\ C!Inward(req[r]).skipped = req[r].skipped /\ C!Inward(req[r]).writer = req[r].writer
         /\ C!Inward(req[r]).lines = req[r].lines
<1>1. req[r] \in ReqRecord /\ req[r].at + 1 \in Nat
  BY Place
<1> QED
  BY <1>1 DEF C!Inward, ReqRecord

LEMMA OutFields ==
  ASSUME HttpInv, NEW r \in Requests, NEW rec \in ReqRecord, rec.at = req[r].at,
         NEW way \in {"out", "panic"}
  PROVE  LET out == C!Outward(rec, way) IN
         /\ out \in ReqRecord /\ out.at = C!Outside(req[r].at) /\ out.way = way
         /\ out.skipped = rec.skipped /\ out.panic = rec.panic /\ out.status = rec.status
         /\ out.writer = rec.writer /\ out.lines = rec.lines
<1>1. C!Outside(req[r].at) \in Nat
  <2>1. C!Outside(req[r].at) \in 0..Len(chain) /\ Len(chain) \in Nat
    BY Place, OutsideIsNext, Chain
  <2> QED
    BY <2>1
<1>2. C!Outward(rec, way) = [rec EXCEPT !.way = way, !.at = C!Outside(req[r].at)]
  BY DEF C!Outward, ReqRecord
<1> QED
  BY ZenonT(40), <1>1, <1>2 DEF ReqRecord

\* A middleware lets the request pass and leaves something in it or not.
LEMMA Passes ==
  ASSUME HttpInv, NEW r \in Requests, NEW m, m # "metrics", C!Turn(r, m),
         NEW rec \in ReqRecord, Same(rec, C!Inward(req[r])), req' = [req EXCEPT ![r] = rec],
         UNCHANGED <<chain, metrics, pool, attached>>
  PROVE  HttpInv'
<1>1. req[r].way = "in" /\ req[r].at <= Len(chain) /\ chain[req[r].at] # "metrics"
  BY DEF C!Turn
<1>2. ReqOK(rec) /\ (Inner(rec) <=> Inner(req[r]))
  BY <1>1, InFields, GoesIn DEF Same
<1>3. Becomes(req', r, rec)
  BY Place, SetBecomes DEF Same
<1> QED
  BY <1>2, <1>3, HttpAlone

LEMMA PassesUnread ==
  ASSUME HttpInv, NEW r \in Requests, NEW m, m # "metrics", C!Turn(r, m), C!Pass(r),
         UNCHANGED C!Shared
  PROVE  HttpInv'
BY Passes, InFields DEF C!Pass, C!Shared, Same

\* A middleware of Gates, or the handler, ends the way in.
LEMMA Ends ==
  ASSUME HttpInv, NEW r \in Requests, req[r].way = "in",
         req[r].at > Len(chain) \/ chain[req[r].at] \in C!Gates,
         NEW rec \in ReqRecord, rec.at = req[r].at, rec.skipped = req[r].skipped,
         rec.lines = req[r].lines, NEW way \in {"out", "panic"}, way = "panic" => rec.panic # "none",
         Becomes(req', r, C!Outward(rec, way)), UNCHANGED <<chain, metrics, pool, attached>>
  PROVE  HttpInv'
<1> DEFINE out == C!Outward(rec, way)
<1>1. /\ out \in ReqRecord /\ out.at = C!Outside(req[r].at) /\ out.way = way
      /\ out.skipped = req[r].skipped /\ out.lines = req[r].lines /\ out.panic = rec.panic
  BY OutFields
<1> HIDE DEF out
<1>2. ReqOK(out) /\ (Inner(out) <=> Inner(req[r]))
  BY <1>1, TurnsBack
<1> QED
  BY <1>2, HttpAlone DEF out

LEMMA Aborts ==
  ASSUME HttpInv, NEW r \in Requests, NEW m \in C!Gates, C!Turn(r, m), NEW s \in C!Statuses,
         C!Abort(r, s), UNCHANGED C!Shared
  PROVE  HttpInv'
<1> DEFINE rec == C!WriteHeader(req[r], s)
<1>1. /\ rec \in ReqRecord /\ rec.at = req[r].at /\ rec.skipped = req[r].skipped
      /\ rec.lines = req[r].lines
  BY Place, WriteHeaderKeeps
<1>2. Becomes(req', r, C!Outward(rec, "out"))
  <2>1. C!Outward(rec, "out") \in ReqRecord /\ <<"page">> \in Seq(Pieces)
    <3>1. "page" \in Pieces
      BY DEF Pieces
    <3> HIDE DEF rec
    <3> QED
      BY <1>1, <3>1, OutFields
  <2> QED
    BY <2>1, Place, WrittenBecomes DEF C!Abort
<1> HIDE DEF rec
<1> QED
  BY <1>1, <1>2, Ends DEF C!Turn, C!Shared

LEMMA HttpGates ==
  ASSUME HttpInv, NEW r \in Requests,
         \/ C!Security(r) \/ C!IPFilter(r) \/ C!RequireRoles(r) \/ C!RateLimit(r)
         \/ C!Decompress(r) \/ C!Recovery(r) \/ C!Logger(r)
  PROVE  HttpInv'
<1>1. {"ipfilter", "auth", "roles", "limit", "decompress"} \subseteq C!Gates
  BY DEF C!Gates
<1>2. {400, 401, 403, 429} \subseteq C!Statuses
  BY DEF C!Statuses
<1>3. PICK m \in {"security", "ipfilter", "roles", "limit", "decompress", "recovery", "logger"} :
         /\ C!Turn(r, m) /\ UNCHANGED C!Shared
         /\ \/ C!Pass(r)
            \/ m \in C!Gates /\ \E s \in C!Statuses : C!Abort(r, s)
  BY <1>1, <1>2 DEF C!Security, C!IPFilter, C!RequireRoles, C!RateLimit, C!Decompress, C!Recovery,
                    C!Logger
<1> QED
  BY <1>3, PassesUnread, Aborts

LEMMA HttpCORS ==
  ASSUME HttpInv, NEW r \in Requests, C!CORS(r)
  PROVE  HttpInv'
<1>1. C!Turn(r, "cors") /\ UNCHANGED C!Shared /\ "cors" \in C!Gates
  BY DEF C!CORS, C!Gates
<1>2. CASE req' = [req EXCEPT ![r] = C!Outward(C!Send(C!WriteHeader(req[r], 204), <<>>), "out")]
  <2> DEFINE head == C!WriteHeader(req[r], 204)
             rec == C!Send(head, <<>>)
  <2>1. head \in ReqRecord /\ head.at = req[r].at /\ head.skipped = req[r].skipped
        /\ head.lines = req[r].lines
    BY Place, WriteHeaderKeeps DEF C!Statuses
  <2>2. rec \in ReqRecord /\ Same(rec, head)
    <3>1. <<>> \in Seq(Frame)
      OBVIOUS
    <3> HIDE DEF head
    <3> QED
      BY <2>1, <3>1, SendKeeps
  <2> HIDE DEF head
  <2>3. rec.at = req[r].at /\ rec.skipped = req[r].skipped /\ rec.lines = req[r].lines
    BY <2>1, <2>2 DEF Same
  <2>4. C!Outward(rec, "out") \in ReqRecord
    <3> HIDE DEF rec
    <3> QED
      BY <2>2, <2>3, OutFields
  <2>5. Becomes(req', r, C!Outward(rec, "out"))
    <3>1. req' = [req EXCEPT ![r] = C!Outward(rec, "out")]
      BY <1>2 DEF head
    <3> HIDE DEF rec
    <3> QED
      BY <2>4, <3>1, Place, SetBecomes DEF Same
  <2> HIDE DEF rec
  <2> QED
    BY <1>1, <2>2, <2>3, <2>5, Ends DEF C!Turn, C!Shared
<1> QED
  BY <1>1, <1>2, PassesUnread DEF C!CORS

LEMMA HttpBearerAuth ==
  ASSUME HttpInv, NEW r \in Requests, C!BearerAuth(r)
  PROVE  HttpInv'
<1>1. C!Turn(r, "auth") /\ UNCHANGED C!Shared /\ "auth" \in C!Gates /\ 401 \in C!Statuses
  BY DEF C!BearerAuth, C!Gates, C!Statuses
<1>2. ASSUME NEW user \in C!AuthInfo, req' = [req EXCEPT ![r] = [C!Inward(req[r]) EXCEPT !.user = user]]
      PROVE  HttpInv'
  <2> DEFINE rec == [C!Inward(req[r]) EXCEPT !.user = user]
  <2>1. C!Inward(req[r]) \in ReqRecord
    BY InFields
  <2>2. rec \in ReqRecord
    BY <2>1 DEF ReqRecord
  <2>3. Same(rec, C!Inward(req[r]))
    BY <2>1 DEF ReqRecord, Same
  <2> HIDE DEF rec
  <2> QED
    BY <1>1, <1>2, <2>2, <2>3, Passes DEF C!Shared, rec
<1> QED
  BY <1>1, <1>2, Aborts DEF C!BearerAuth

\* A middleware that is on its way out.
LEMMA Leaves ==
  ASSUME HttpInv, NEW r \in Requests, req[r].way \in {"out", "panic"}, req[r].at > 0,
         chain[req[r].at] # "metrics", NEW rec \in ReqRecord, rec.at = C!Outside(req[r].at),
         rec.way = req[r].way \/ (rec.way = "out" /\ Told(rec)),
         req[r].panic # "none" => rec.panic # "none",
         \A line \in rec.lines : LineOK(rec, line),
         rec.way = "panic" => rec.panic # "none",
         req[r].lines \subseteq rec.lines, req[r].skipped \subseteq rec.skipped,
         "metrics" \in rec.skipped => "metrics" \in req[r].skipped,
         chain[req[r].at] = "logger" /\ rec.way = "out" /\ "logger" \notin rec.skipped
             => Told(rec),
         Becomes(req', r, rec), chain' = chain, metrics' = metrics,
         pool' \subseteq Writers, attached' \in [Writers -> Requests \cup {Nobody}]
  PROVE  HttpInv'
BY GoesOut, HttpPlain

LEMMA HttpNoPanic ==
  ASSUME HttpInv, NEW r \in Requests, C!NoPanic(r)
  PROVE  HttpInv'
<1> DEFINE rec == C!Outward(req[r], "out")
<1>1. /\ req[r].way = "out" /\ req[r].at > 0 /\ chain[req[r].at] = "recovery"
      /\ req' = [req EXCEPT ![r] = rec] /\ UNCHANGED C!Shared
  BY DEF C!NoPanic, C!Back
<1>2. /\ rec \in ReqRecord /\ rec.at = C!Outside(req[r].at) /\ rec.way = "out"
      /\ rec.skipped = req[r].skipped /\ rec.status = req[r].status /\ rec.lines = req[r].lines
      /\ rec.panic = req[r].panic
  BY Place, OutFields
<1> HIDE DEF rec
<1>3. \A line \in rec.lines : LineOK(rec, line)
  BY <1>1, <1>2, Place DEF ReqOK, LineOK
<1>4. Becomes(req', r, rec)
  BY <1>1, <1>2, Place, SetBecomes DEF Same
<1> QED
  BY <1>1, <1>2, <1>3, <1>4, Leaves DEF C!Shared, HttpInv, HttpTypes

LEMMA HttpRecover ==
  ASSUME HttpInv, NEW r \in Requests, C!Recover(r)
  PROVE  HttpInv'
<1> DEFINE panicLine == [kind |-> "panic", status |-> 0]
           line0 == IF chain \in Quiet THEN {} ELSE {panicLine}
           rec == [req[r] EXCEPT !.lines = @ \cup line0]
<1>1. /\ req[r].way = "panic" /\ req[r].at > 0 /\ chain[req[r].at] = "recovery"
      /\ UNCHANGED C!Shared
      /\ \/ req' = [req EXCEPT ![r] = C!Outward([rec EXCEPT !.panic = "pipe"], "out")]
         \/ req' = C!Written(r, C!Outward(C!WriteHeader(rec, 200), "out"), <<"page">>)
  BY DEF C!Recover, C!AbortPage, C!Back
<1>2. /\ line0 \subseteq {panicLine} /\ {panicLine} \subseteq HttpLine
      /\ chain \in Quiet \/ panicLine \in line0
  BY DEF HttpLine
<1>3. /\ rec \in ReqRecord /\ rec.at = req[r].at /\ rec.skipped = req[r].skipped
      /\ rec.lines = req[r].lines \cup line0 /\ rec.panic = req[r].panic
  <2> HIDE DEF panicLine, line0
  <2>1. req[r] \in ReqRecord
    BY Place
  <2> QED
    BY <1>2, <2>1 DEF ReqRecord
<1>4. ASSUME NEW new \in ReqRecord, new.at = C!Outside(req[r].at), new.way = "out",
             new.lines = rec.lines, new.skipped = req[r].skipped, new.panic # "none",
             Becomes(req', r, new)
      PROVE  HttpInv'
  <2>1. ASSUME NEW line \in new.lines PROVE LineOK(new, line)
    <3>1. line \in req[r].lines => line.kind # "request"
      BY <1>1, Place DEF ReqOK, LineOK
    <3>2. line = panicLine => line.kind # "request"
      OBVIOUS
    <3> HIDE DEF panicLine, line0, rec
    <3> QED
      BY <1>2, <1>3, <1>4, <2>1, <3>1, <3>2 DEF LineOK
  <2> HIDE DEF panicLine, line0, rec
  <2>2. Told(new)
    BY <1>2, <1>3, <1>4 DEF Told
  <2> QED
    BY <1>1, <1>3, <1>4, <2>1, <2>2, Leaves DEF C!Shared, HttpInv, HttpTypes
<1>5. CASE req' = [req EXCEPT ![r] = C!Outward([rec EXCEPT !.panic = "pipe"], "out")]
  <2> DEFINE piped == [rec EXCEPT !.panic = "pipe"]
             new == C!Outward(piped, "out")
  <2>1. piped \in ReqRecord /\ piped.at = req[r].at /\ piped.skipped = req[r].skipped
        /\ piped.lines = rec.lines /\ piped.panic = "pipe"
    <3> HIDE DEF panicLine, line0, rec
    <3> QED
      BY <1>3 DEF ReqRecord
  <2> HIDE DEF panicLine, line0, rec, piped
  <2>2. /\ new \in ReqRecord /\ new.at = C!Outside(req[r].at) /\ new.way = "out"
        /\ new.lines = rec.lines /\ new.skipped = req[r].skipped /\ new.panic # "none"
    BY <2>1, OutFields
  <2>3. Becomes(req', r, new)
    <3> HIDE DEF new
    <3> QED
      BY <1>5, <2>2, Place, SetBecomes DEF Same, new, piped
  <2> HIDE DEF new
  <2> QED
    BY <1>4, <2>2, <2>3
<1>6. CASE req' = C!Written(r, C!Outward(C!WriteHeader(rec, 200), "out"), <<"page">>)
  <2> DEFINE head == C!WriteHeader(rec, 200)
             new == C!Outward(head, "out")
  <2> HIDE DEF panicLine, line0, rec
  <2>1. /\ head \in ReqRecord /\ head.at = req[r].at /\ head.skipped = req[r].skipped
        /\ head.lines = rec.lines /\ head.panic = req[r].panic
    BY <1>3, WriteHeaderKeeps DEF C!Statuses
  <2> HIDE DEF head
  <2>2. /\ new \in ReqRecord /\ new.at = C!Outside(req[r].at) /\ new.way = "out"
        /\ new.lines = rec.lines /\ new.skipped = req[r].skipped /\ new.panic = req[r].panic
    BY <2>1, OutFields
  <2>3. new.panic # "none"
    BY <1>1, <2>2, Place DEF ReqOK
  <2> HIDE DEF new
  <2>4. Becomes(req', r, new)
    <3>1. "page" \in Pieces
      BY DEF Pieces
    <3>2. <<"page">> \in Seq(Pieces)
      BY <3>1
    <3> QED
      BY <1>6, <2>2, <3>2, Place, WrittenBecomes DEF new, head
  <2> QED
    BY <1>4, <2>2, <2>3, <2>4
<1> QED
  BY <1>1, <1>5, <1>6

LEMMA HttpLog ==
  ASSUME HttpInv, NEW r \in Requests, C!Log(r)
  PROVE  HttpInv'
<1>1. /\ req[r].way \in {"out", "panic"} /\ req[r].at > 0 /\ chain[req[r].at] = "logger"
      /\ UNCHANGED C!Shared /\ req[r] \in ReqRecord /\ ReqOK(req[r])
  BY Place DEF C!Log, C!Back
<1>2. ASSUME NEW rec \in ReqRecord, rec.at = req[r].at, rec.panic = req[r].panic,
             rec.status = req[r].status, req[r].lines \subseteq rec.lines,
             req[r].skipped \subseteq rec.skipped,
             "metrics" \in rec.skipped => "metrics" \in req[r].skipped,
             req[r].way = "out" => "logger" \in rec.skipped \/ rec.lines # {},
             \A line \in rec.lines : line \in req[r].lines \/
                (req[r].way = "out" /\ line.kind = "request" /\ line.status = rec.status),
             req' = [req EXCEPT ![r] = C!Outward(rec, req[r].way)]
      PROVE  HttpInv'
  <2> DEFINE new == C!Outward(rec, req[r].way)
  <2>1. /\ new \in ReqRecord /\ new.at = C!Outside(req[r].at) /\ new.way = req[r].way
        /\ new.lines = rec.lines /\ new.skipped = rec.skipped /\ new.panic = req[r].panic
        /\ new.status = rec.status
    BY <1>1, <1>2, OutFields
  <2>2. Becomes(req', r, new)
    <3>1. req' = [req EXCEPT ![r] = new]
      BY <1>2
    <3> HIDE DEF new
    <3> QED
      BY <2>1, <3>1, Place, SetBecomes DEF Same
  <2> HIDE DEF new
  <2>3. \A line \in new.lines : LineOK(new, line)
    BY <1>1, <1>2, <2>1 DEF ReqOK, LineOK
  <2>4. new.way = "panic" => new.panic # "none"
    BY <1>1, <2>1 DEF ReqOK
  <2>5. new.way = "out" /\ "logger" \notin new.skipped => Told(new)
    BY <1>2, <2>1 DEF Told
  <2> QED
    BY <1>1, <1>2, <2>1, <2>2, <2>3, <2>4, <2>5, Leaves DEF C!Shared, HttpInv, HttpTypes
<1>3. CASE C!Back(r, "panic", "logger") /\ req' = [req EXCEPT ![r] = C!Outward(req[r], "panic")]
  BY <1>1, <1>2, <1>3 DEF C!Back
<1>4. ASSUME req[r].way = "out", req' = [req EXCEPT ![r] = C!Outward(C!LogLine(req[r]), "out")]
      PROVE  HttpInv'
  <2> DEFINE line == [kind |-> "request", status |-> req[r].status]
             rec == [req[r] EXCEPT !.lines = @ \cup {line}]
  <2>1. line \in HttpLine
    BY <1>1 DEF HttpLine, ReqRecord
  <2>2. C!LogLine(req[r]) = rec
    BY DEF C!LogLine
  <2>3. /\ rec \in ReqRecord /\ rec.at = req[r].at /\ rec.panic = req[r].panic
        /\ rec.status = req[r].status /\ rec.lines = req[r].lines \cup {line}
        /\ rec.skipped = req[r].skipped
    <3> HIDE DEF line
    <3> QED
      BY <1>1, <2>1 DEF ReqRecord
  <2>4. line.kind = "request" /\ line.status = req[r].status
    OBVIOUS
  <2> HIDE DEF line, rec
  <2> QED
    BY <1>2, <1>4, <2>2, <2>3, <2>4
<1>5. ASSUME req[r].way = "out",
             req' = [req EXCEPT ![r] = C!Outward([req[r] EXCEPT !.skipped = @ \cup {"logger"}], "out")]
      PROVE  HttpInv'
  <2> DEFINE rec == [req[r] EXCEPT !.skipped = @ \cup {"logger"}]
  <2>1. /\ rec \in ReqRecord /\ rec.at = req[r].at /\ rec.panic = req[r].panic
        /\ rec.status = req[r].status /\ rec.lines = req[r].lines
        /\ rec.skipped = req[r].skipped \cup {"logger"}
    BY <1>1 DEF ReqRecord
  <2> HIDE DEF rec
  <2> QED
    BY <1>2, <1>5, <2>1 DEF rec
<1> QED
  BY <1>1, <1>3, <1>4, <1>5 DEF C!Log, C!Back

LEMMA HttpMetricsIn ==
  ASSUME HttpInv, NEW r \in Requests, C!MetricsIn(r)
  PROVE  HttpInv'
<1>1. /\ req[r].way = "in" /\ req[r].at <= Len(chain) /\ chain[req[r].at] = "metrics"
      /\ UNCHANGED <<chain, pool, attached>>
      /\ metrics \in MetricsRecord /\ CountersAgree(metrics)
  BY AddUp DEF C!MetricsIn, C!Turn, HttpInv
<1>2. /\ C!Inward(req[r]) \in ReqRecord /\ C!Inward(req[r]).at = req[r].at + 1
      /\ C!Inward(req[r]).way = "in" /\ C!Inward(req[r]).skipped = req[r].skipped
      /\ C!Inward(req[r]).writer = req[r].writer /\ C!Inward(req[r]).lines = req[r].lines
  BY <1>1, InFields
<1>3. CASE C!Skip(r, "metrics") /\ UNCHANGED metrics
  <2> DEFINE rec == [C!Inward(req[r]) EXCEPT !.skipped = @ \cup {"metrics"}]
  <2>1. /\ rec \in ReqRecord /\ rec.at = req[r].at + 1 /\ rec.way = "in"
        /\ rec.skipped = req[r].skipped \cup {"metrics"}
        /\ rec.writer = req[r].writer /\ rec.lines = req[r].lines
    BY <1>2 DEF ReqRecord
  <2>2. req' = [req EXCEPT ![r] = rec]
    BY <1>3 DEF C!Skip
  <2> HIDE DEF rec
  <2>3. ReqOK(rec) /\ ~Inner(rec) /\ ~Inner(req[r])
    BY <1>1, <2>1, GoesIn
  <2>4. Becomes(req', r, rec)
    BY <2>1, <2>2, Place, SetBecomes DEF Same
  <2> QED
    BY <1>1, <1>3, <2>3, <2>4, HttpAlone
<1>4. CASE C!Pass(r) /\ metrics' = [metrics EXCEPT !.inFlight = @ + 1]
  <2> DEFINE rec == C!Inward(req[r])
  <2>1. req' = [req EXCEPT ![r] = rec]
    BY <1>4 DEF C!Pass
  <2> HIDE DEF rec
  <2>2. /\ rec \in ReqRecord /\ rec.at = req[r].at + 1 /\ rec.way = "in"
        /\ rec.skipped = req[r].skipped /\ rec.writer = req[r].writer /\ rec.lines = req[r].lines
    BY <1>2 DEF rec
  <2>3. "metrics" \notin req[r].skipped
    <3>1. /\ req[r].at \in 1..Len(chain) /\ DOMAIN chain = 1..Len(chain)
          /\ \A k \in DOMAIN chain : SeenOK(req[r], k) /\ req[r].at <= req[r].at
      BY <1>1, Place, Chain DEF ReqOK
    <3> QED
      BY <1>1, <3>1 DEF SeenOK
  <2>4. ReqOK(rec) /\ Inner(rec) /\ ~Inner(req[r])
    BY <1>1, <2>2, <2>3, GoesIn
  <2>5. Becomes(req', r, rec)
    BY <2>1, <2>2, Place, SetBecomes DEF Same
  <2>6. /\ metrics' \in MetricsRecord /\ CountersAgree(metrics')
        /\ metrics'.inFlight = metrics.inFlight + 1 - 0
    <3>1. /\ metrics' \in MetricsRecord /\ metrics'.inFlight = metrics.inFlight + 1
          /\ metrics'.total = metrics.total /\ metrics'.success = metrics.success
          /\ metrics'.failed = metrics.failed /\ metrics'.codes = metrics.codes
          /\ metrics.inFlight \in Int
      BY <1>1, <1>4 DEF MetricsRecord
    <3> QED
      BY <1>1, <3>1 DEF CountersAgree
  <2> QED
    BY <1>1, <2>4, <2>5, <2>6, HttpStep DEF HttpInv, HttpTypes
<1> QED
  BY <1>3, <1>4 DEF C!MetricsIn

LEMMA HttpRecord ==
  ASSUME HttpInv, NEW r \in Requests, C!Record(r)
  PROVE  HttpInv'
<1> DEFINE s == req[r].status
           ok == s >= 200 /\ s < 400
           rec == [req[r] EXCEPT !.recorded = TRUE]
<1>1. /\ req[r] \in ReqRecord /\ s \in C!Statuses /\ req' = [req EXCEPT ![r] = rec]
      /\ UNCHANGED <<chain, pool, attached>>
      /\ metrics \in MetricsRecord /\ CountersAgree(metrics)
      /\ metrics' = [metrics EXCEPT !.total = @ + 1, !.codes[s] = @ + 1,
                                    !.success = IF ok THEN @ + 1 ELSE @,
                                    !.failed = IF ok THEN @ ELSE @ + 1]
  BY Place, AddUp DEF C!Record, HttpInv, ReqRecord, HttpTypes
<1>2. rec \in ReqRecord /\ Same(rec, req[r])
  BY <1>1 DEF ReqRecord, Same
<1> HIDE DEF rec
<1>3. Becomes(req', r, rec) /\ ReqOK(rec) /\ Inner(rec) = Inner(req[r])
  BY <1>1, <1>2, Place, SetBecomes, SameOK DEF Same
<1>4. /\ metrics' \in MetricsRecord /\ metrics'.inFlight = metrics.inFlight
      /\ metrics.inFlight \in Int
      /\ metrics'.total = metrics.total + 1
      /\ metrics'.success + metrics'.failed = metrics.success + metrics.failed + 1
      /\ metrics'.codes = [metrics.codes EXCEPT ![s] = @ + 1]
      /\ metrics.codes \in [C!Statuses -> Nat]
  <2> HIDE DEF ok, s
  <2>1. /\ metrics.total \in Nat /\ metrics.success \in Nat /\ metrics.failed \in Nat
        /\ metrics.codes \in [C!Statuses -> Nat] /\ metrics.inFlight \in Int
    BY <1>1 DEF MetricsRecord
  <2>2. [metrics.codes EXCEPT ![s] = @ + 1] \in [C!Statuses -> Nat]
    BY <1>1, <2>1
  <2> DEFINE codes == [metrics.codes EXCEPT ![s] = @ + 1]
             success == IF ok THEN metrics.success + 1 ELSE metrics.success
             failed == IF ok THEN metrics.failed ELSE metrics.failed + 1
  <2>3. metrics' = [metrics EXCEPT !.total = @ + 1, !.codes = codes, !.success = success,
                                   !.failed = failed]
    BY <1>1, <2>1 DEF MetricsRecord
  <2>4. /\ success \in Nat /\ failed \in Nat /\ success + failed = metrics.success + metrics.failed + 1
        /\ metrics.total + 1 \in Nat
    BY <2>1
  <2> HIDE DEF codes, success, failed
  <2>5. /\ metrics' \in MetricsRecord /\ metrics'.inFlight = metrics.inFlight
        /\ metrics'.total = metrics.total + 1 /\ metrics'.codes = codes
        /\ metrics'.success = success /\ metrics'.failed = failed
    BY <1>1, <2>2, <2>3, <2>4 DEF MetricsRecord, codes
  <2> QED
    BY <2>1, <2>4, <2>5 DEF codes
<1>5. CountersAgree(metrics')
  <2> DEFINE n == metrics.codes
             m == metrics'.codes
  <2>1. \A x \in C!Statuses : m[x] = IF x = s THEN n[x] + 1 ELSE n[x]
    BY <1>1, <1>4
  <2>2. \A x \in {200, 204, 400, 401, 403, 429, 500} : n[x] \in Nat
    BY <1>4 DEF C!Statuses
  <2>3. s \in {200, 204, 400, 401, 403, 429, 500}
    BY <1>1 DEF C!Statuses
  <2>4. m[200] + m[204] + m[400] + m[401] + m[403] + m[429] + m[500]
          = n[200] + n[204] + n[400] + n[401] + n[403] + n[429] + n[500] + 1
    <3> HIDE DEF n, m, s
    <3> QED
      BY <2>1, <2>2, <2>3 DEF C!Statuses
  <2> QED
    BY <1>1, <1>4, <2>4 DEF CountersAgree
<1>6. metrics'.inFlight = metrics.inFlight + (IF Inner(rec) THEN 1 ELSE 0)
                                           - (IF Inner(req[r]) THEN 1 ELSE 0)
  BY <1>3, <1>4
<1>7. pool' \subseteq Writers /\ attached' \in [Writers -> Requests \cup {Nobody}]
  BY <1>1 DEF HttpInv, HttpTypes
<1>8. ReqOK(rec) /\ chain' = chain
  BY <1>1, <1>3
<1> QED
  BY <1>3, <1>4, <1>5, <1>6, <1>7, <1>8, HttpStep

LEMMA HttpMetricsOut ==
  ASSUME HttpInv, NEW r \in Requests, C!MetricsOut(r)
  PROVE  HttpInv'
<1> DEFINE out == C!Outward(req[r], req[r].way)
           rec == [out EXCEPT !.recorded = FALSE]
<1>1. /\ req[r].way \in {"out", "panic"} /\ req[r].at > 0 /\ chain[req[r].at] = "metrics"
      /\ req[r] \in ReqRecord /\ ReqOK(req[r]) /\ req' = [req EXCEPT ![r] = rec]
      /\ metrics' = IF "metrics" \in req[r].skipped THEN metrics
                    ELSE [metrics EXCEPT !.inFlight = @ - 1]
      /\ UNCHANGED <<chain, pool, attached>>
      /\ metrics \in MetricsRecord /\ CountersAgree(metrics)
  BY Place, AddUp DEF C!MetricsOut, C!Back, HttpInv
<1>2. /\ out \in ReqRecord /\ out.at = C!Outside(req[r].at) /\ out.way = req[r].way
      /\ out.lines = req[r].lines /\ out.skipped = req[r].skipped /\ out.panic = req[r].panic
      /\ out.status = req[r].status
  BY <1>1, OutFields
<1> HIDE DEF out
<1>3. rec \in ReqRecord /\ Same(rec, out)
  BY <1>2 DEF ReqRecord, Same
<1> HIDE DEF rec
<1>4. \A line \in rec.lines : LineOK(rec, line)
  BY <1>1, <1>2, <1>3 DEF ReqOK, LineOK, Same
<1>5. Becomes(req', r, rec)
  BY <1>1, <1>3, Place, SetBecomes DEF Same
<1>6. ReqOK(rec) /\ ~Inner(rec) /\ (Inner(req[r]) <=> "metrics" \notin req[r].skipped)
  BY <1>1, <1>2, <1>3, <1>4, GoesOut DEF ReqOK, Same
<1>7. /\ metrics' \in MetricsRecord /\ CountersAgree(metrics') /\ metrics.inFlight \in Int
      /\ metrics'.inFlight = metrics.inFlight + 0
             - (IF "metrics" \notin req[r].skipped THEN 1 ELSE 0)
  BY <1>1 DEF MetricsRecord, CountersAgree
<1> QED
  BY <1>1, <1>5, <1>6, <1>7, HttpStep DEF HttpInv, HttpTypes

LEMMA HttpReset ==
  ASSUME HttpInv, C!Reset
  PROVE  HttpInv'
<1>1. /\ metrics' = C!ZeroMetrics(metrics.inFlight) /\ UNCHANGED <<chain, req, pool, attached>>
      /\ metrics.inFlight \in Int /\ CountersAgree(metrics)
  BY AddUp DEF C!Reset, HttpInv, MetricsRecord
<1>2. /\ metrics' \in MetricsRecord /\ metrics'.inFlight = metrics.inFlight /\ CountersAgree(metrics')
  <2>1. {200, 204, 400, 401, 403, 429, 500} = C!Statuses
    BY DEF C!Statuses
  <2>2. [s \in C!Statuses |-> 0] \in [C!Statuses -> Nat]
    OBVIOUS
  <2>3. /\ metrics'.total = 0 /\ metrics'.success = 0 /\ metrics'.failed = 0
        /\ metrics'.codes = [s \in C!Statuses |-> 0] /\ metrics'.inFlight = metrics.inFlight
    BY <1>1 DEF C!ZeroMetrics
  <2>4. \A s \in C!Statuses : metrics'.codes[s] = 0
    BY <2>3
  <2>5. metrics' \in MetricsRecord
    BY <1>1, <2>2 DEF C!ZeroMetrics, MetricsRecord
  <2> QED
    BY <2>1, <2>3, <2>4, <2>5 DEF CountersAgree
<1>3. C!MetricsAddUp'
  <2>1. metrics'.inFlight = Cardinality({r \in Requests : Inner(req[r])})
    BY <1>2, AddUp DEF HttpInv
  <2>2. {r \in Requests : C!Counted(r)}' = {r \in Requests : Inner(req[r])}
    BY <1>1 DEF C!Counted, Inner
  <2>3. metrics'.inFlight = Cardinality({r \in Requests : C!Counted(r)}')
    BY <2>1, <2>2
  <2> QED
    BY <1>2, <2>3, SameCardinality DEF C!MetricsAddUp, CountersAgree
<1>4. HttpTypes'
  BY <1>1 DEF HttpInv, HttpTypes, ReqRecord, Frame, HttpLine, Pieces
<1>5. \A r \in Requests : ReqOK(req[r])'
  BY <1>1 DEF HttpInv, ReqOK, LineOK, SeenOK, Told, C!Open
<1> QED
  BY <1>2, <1>3, <1>4, <1>5 DEF HttpInv, MetricsRecord

\* There are as many writers as requests, and r has none.
LEMMA WriterIsLeft ==
  ASSUME HttpInv, NEW r \in Requests, req[r].writer = Nobody
  PROVE  C!NewWriter \in Writers /\ \A q \in Requests : req[q].writer # C!NewWriter
<1> DEFINE others == Requests \ {r}
           f == [q \in others |-> req[q].writer]
           used == {f[q] : q \in others}
<1>1. IsFiniteSet(others) /\ Cardinality(others) = Cardinality(Requests) - 1
      /\ Cardinality(Requests) \in Nat /\ Cardinality(Writers) \in Nat
  BY RequestsAssumption, FS_RemoveElement, FS_CardinalityType
<1>2. IsFiniteSet(used) /\ Cardinality(used) <= Cardinality(others) /\ Cardinality(used) \in Nat
  <2>1. f \in Surjection(others, used)
    <3>1. f \in [others -> used] /\ \A w \in used : \E q \in others : f[q] = w
      OBVIOUS
    <3> QED
      BY <3>1 DEF Surjection
  <2> HIDE DEF f, used, others
  <2> QED
    BY <1>1, <2>1, FS_Surjection, FS_CardinalityType
<1>3. ~(Writers \subseteq used)
  <2> HIDE DEF used, others
  <2>1. SUFFICES ASSUME Writers \subseteq used PROVE FALSE
    OBVIOUS
  <2>2. Cardinality(Writers) <= Cardinality(used)
    BY <1>2, <2>1, FS_Subset
  <2> QED
    BY <1>1, <1>2, <2>2, RequestsAssumption
<1>4. PICK w \in Writers : w \notin used
  BY <1>3
<1>5. \A q \in Requests : req[q].writer # w
  BY <1>4, RequestsAssumption
<1> QED
  BY <1>5 DEF C!NewWriter

LEMMA HttpGzip ==
  ASSUME HttpInv, NEW r \in Requests, C!Gzip(r)
  PROVE  HttpInv'
<1>1. /\ C!Turn(r, "gzip") /\ req[r].way = "in" /\ req[r].at <= Len(chain)
      /\ chain[req[r].at] = "gzip" /\ UNCHANGED <<chain, metrics>>
      /\ req[r] \in ReqRecord /\ HttpTypes
  BY Place DEF C!Gzip, C!Turn
<1>2. CASE C!Pass(r) /\ UNCHANGED <<pool, attached>>
  BY <1>1, <1>2, Passes, InFields DEF C!Pass, Same
<1>3. ASSUME NEW w \in pool \cup {C!NewWriter}, pool' = pool \ {w},
             attached' = [attached EXCEPT ![w] = r],
             req' = [req EXCEPT ![r] = [C!Inward(req[r]) EXCEPT !.writer = w]]
      PROVE  HttpInv'
  <2> DEFINE rec == [C!Inward(req[r]) EXCEPT !.writer = w]
  <2>1. req[r].writer = Nobody
    <3>1. /\ req[r].at \in 1..Len(chain) /\ DOMAIN chain = 1..Len(chain)
          /\ \A k \in DOMAIN chain : SeenOK(req[r], k) /\ req[r].at <= req[r].at
      BY <1>1, Place, Chain DEF ReqOK
    <3> QED
      BY <1>1, <3>1 DEF SeenOK
  <2>2. w \in Writers
    BY <1>1, <1>3, <2>1, WriterIsLeft DEF HttpTypes
  <2>3. /\ C!Inward(req[r]) \in ReqRecord /\ C!Inward(req[r]).at = req[r].at + 1
        /\ C!Inward(req[r]).way = "in" /\ C!Inward(req[r]).skipped = req[r].skipped
        /\ C!Inward(req[r]).lines = req[r].lines
    BY <1>1, InFields
  <2>4. /\ rec \in ReqRecord /\ rec.at = req[r].at + 1 /\ rec.way = "in"
        /\ rec.skipped = req[r].skipped /\ rec.lines = req[r].lines
    BY <2>2, <2>3 DEF ReqRecord
  <2>5. req' = [req EXCEPT ![r] = rec]
    BY <1>3
  <2> HIDE DEF rec
  <2>6. ReqOK(rec) /\ (Inner(rec) <=> Inner(req[r]))
    BY <1>1, <2>4, GoesIn
  <2>7. Becomes(req', r, rec)
    BY <1>1, <2>4, <2>5, SetBecomes DEF Same
  <2>8. pool' \subseteq Writers /\ attached' \in [Writers -> Requests \cup {Nobody}]
    BY <1>1, <1>3, <2>2 DEF HttpTypes
  <2> QED
    BY <1>1, <2>6, <2>7, <2>8, HttpPlain
<1> QED
  BY <1>2, <1>3 DEF C!Gzip

LEMMA HttpClose ==
  ASSUME HttpInv, NEW r \in Requests, C!Close(r)
  PROVE  HttpInv'
<1> DEFINE out == C!Outward(req[r], req[r].way)
<1>1. /\ req[r].way \in {"out", "panic"} /\ req[r].at > 0 /\ chain[req[r].at] = "gzip"
      /\ UNCHANGED <<chain, metrics>> /\ req[r] \in ReqRecord /\ ReqOK(req[r]) /\ HttpTypes
  BY Place DEF C!Close, C!Back
<1>2. /\ out \in ReqRecord /\ out.at = C!Outside(req[r].at) /\ out.way = req[r].way
      /\ out.lines = req[r].lines /\ out.skipped = req[r].skipped /\ out.panic = req[r].panic
      /\ out.status = req[r].status
  BY <1>1, OutFields
<1>3. pool' \subseteq Writers /\ attached' \in [Writers -> Requests \cup {Nobody}]
  <2>1. req[r].writer \in Writers \cup {Nobody}
    BY <1>1 DEF ReqRecord
  <2> QED
    BY <1>1, <2>1 DEF C!Close, HttpTypes
<1>4. PICK rec \in ReqRecord : Same(rec, out) /\ req' = [req EXCEPT ![r] = rec]
  <2>1. "end" \in Pieces /\ req[r].buffer \in Seq(Pieces)
    BY <1>1 DEF Pieces, ReqRecord
  <2>2. <<"end">> \in Seq(Pieces)
    BY <2>1
  <2>3. /\ C!Frames(r, <<"end">>, TRUE) \in Seq(Frame)
        /\ C!Frames(r, req[r].buffer, FALSE) \in Seq(Frame)
    BY <2>1, <2>2, FramesType
  <2>4. /\ Same(out, out)
        /\ C!Send(out, C!Frames(r, <<"end">>, TRUE)) \in ReqRecord
        /\ Same(C!Send(out, C!Frames(r, <<"end">>, TRUE)), out)
        /\ C!Send(out, C!Frames(r, req[r].buffer, FALSE)) \in ReqRecord
        /\ Same(C!Send(out, C!Frames(r, req[r].buffer, FALSE)), out)
    <3> HIDE DEF out
    <3> QED
      BY <1>2, <2>3, SendKeeps DEF Same
  <2> QED
    BY <1>2, <2>4 DEF C!Close
<1> HIDE DEF out
<1>5. \A line \in out.lines : LineOK(out, line)
  BY <1>1, <1>2 DEF ReqOK, LineOK
<1>6. Becomes(req', r, out)
  BY <1>1, <1>4, SetBecomes
<1>7. out.way = "panic" => out.panic # "none"
  BY <1>1, <1>2 DEF ReqOK
<1> QED
  BY <1>1, <1>2, <1>3, <1>5, <1>6, <1>7, Leaves

\* A request that stays where it is, on its way in.
LEMMA HttpHandles ==
  ASSUME HttpInv, NEW r \in Requests, C!Handling(r), NEW rec \in ReqRecord,
         rec.at = req[r].at, rec.way = req[r].way, rec.skipped = req[r].skipped,
         rec.panic = req[r].panic, rec.writer = req[r].writer, rec.lines = req[r].lines,
         Becomes(req', r, rec), UNCHANGED C!Shared
  PROVE  HttpInv'
BY Stays, HttpAlone DEF C!Handling, C!Shared

LEMMA HttpHandlerWrites ==
  ASSUME HttpInv, NEW r \in Requests, C!HandlerWrites(r)
  PROVE  HttpInv'
<1>1. C!Handling(r) /\ UNCHANGED C!Shared /\ req[r] \in ReqRecord /\ HttpTypes
  BY Place DEF C!HandlerWrites
<1>2. <<"data">> \in Seq(Pieces)
  <2>1. "data" \in Pieces
    BY DEF Pieces
  <2> QED
    BY <2>1
<1>3. CASE req' = C!Written(r, req[r], <<"data">>)
  BY <1>1, <1>2, <1>3, WrittenBecomes, HttpHandles
<1>4. ASSUME NEW s \in {200, 500}, NEW type \in {"included", "excluded"},
             req' = C!Written(r, [C!WriteHeader(req[r], s) EXCEPT !.type = type], <<"data">>)
      PROVE  HttpInv'
  <2> DEFINE head == C!WriteHeader(req[r], s)
             rec == [head EXCEPT !.type = type]
  <2>1. /\ head \in ReqRecord /\ head.at = req[r].at /\ head.way = req[r].way
        /\ head.skipped = req[r].skipped /\ head.panic = req[r].panic
        /\ head.writer = req[r].writer /\ head.lines = req[r].lines
    BY <1>1, WriteHeaderKeeps DEF C!Statuses
  <2> HIDE DEF head
  <2>2. /\ rec \in ReqRecord /\ rec.at = req[r].at /\ rec.way = req[r].way
        /\ rec.skipped = req[r].skipped /\ rec.panic = req[r].panic
        /\ rec.writer = req[r].writer /\ rec.lines = req[r].lines
    BY <2>1 DEF ReqRecord
  <2> HIDE DEF rec
  <2>3. Becomes(req', r, rec)
    BY <1>1, <1>2, <1>4, <2>2, WrittenBecomes DEF rec, head
  <2> QED
    BY <1>1, <2>2, <2>3, HttpHandles
<1>5. CASE req[r].given > 0
  BY <1>3, <1>5 DEF C!HandlerWrites
<1>6. CASE ~(req[r].given > 0)
  <2>1. PICK s \in {200, 500},
             type \in {"included"} \cup (IF req[r].writer = Nobody THEN {} ELSE {"excluded"}) :
          req' = C!Written(r, [C!WriteHeader(req[r], s) EXCEPT !.type = type], <<"data">>)
    BY <1>6 DEF C!HandlerWrites
  <2>2. type \in {"included", "excluded"}
    OBVIOUS
  <2> QED
    BY <1>4, <2>1, <2>2
<1> QED
  BY <1>5, <1>6

LEMMA HttpHandlerFlushes ==
  ASSUME HttpInv, NEW r \in Requests, C!HandlerFlushes(r)
  PROVE  HttpInv'
<1> DEFINE sent == C!Send(req[r], <<>>)
           rec == [sent EXCEPT !.early = TRUE]
<1>1. C!Handling(r) /\ UNCHANGED C!Shared /\ req[r] \in ReqRecord /\ HttpTypes
      /\ req' = [req EXCEPT ![r] = rec]
  BY Place DEF C!HandlerFlushes
<1>2. sent \in ReqRecord /\ Same(sent, req[r])
  <2>1. <<>> \in Seq(Frame)
    OBVIOUS
  <2> QED
    BY <1>1, <2>1, SendKeeps
<1> HIDE DEF sent
<1>3. rec \in ReqRecord /\ Same(rec, req[r])
  BY <1>2 DEF ReqRecord, Same
<1> HIDE DEF rec
<1> QED
  BY <1>1, <1>3, SetBecomes, HttpHandles DEF Same

LEMMA HttpHandlerEnds ==
  ASSUME HttpInv, NEW r \in Requests, C!HandlerReturns(r) \/ C!HandlerPanics(r)
  PROVE  HttpInv'
<1>1. /\ req[r].way = "in" /\ req[r].at > Len(chain) /\ UNCHANGED <<chain, metrics, pool, attached>>
      /\ req[r] \in ReqRecord /\ HttpTypes
  BY Place DEF C!HandlerReturns, C!HandlerPanics, C!Handling, C!Shared
<1>2. CASE req' = [req EXCEPT ![r] = C!Outward(req[r], "out")]
  <2>1. C!Outward(req[r], "out") \in ReqRecord
    BY <1>1, OutFields
  <2>2. Becomes(req', r, C!Outward(req[r], "out"))
    BY <1>1, <1>2, <2>1, SetBecomes DEF Same
  <2> QED
    BY <1>1, <2>2, Ends
<1>3. CASE req' = [req EXCEPT ![r] = [C!Outward(req[r], "panic") EXCEPT !.panic = "bug"]]
  <2> DEFINE rec == [req[r] EXCEPT !.panic = "bug"]
             out == C!Outward(rec, "panic")
  <2>1. /\ rec \in ReqRecord /\ rec.at = req[r].at /\ rec.skipped = req[r].skipped
        /\ rec.lines = req[r].lines /\ rec.panic = "bug"
    BY <1>1 DEF ReqRecord
  <2>2. [C!Outward(req[r], "panic") EXCEPT !.panic = "bug"] = out
    BY <1>1 DEF C!Outward, ReqRecord
  <2>3. out \in ReqRecord
    <3> HIDE DEF rec
    <3> QED
      BY <2>1, OutFields
  <2>4. Becomes(req', r, out)
    <3>1. req' = [req EXCEPT ![r] = out]
      BY <1>3, <2>2
    <3> HIDE DEF out
    <3> QED
      BY <1>1, <2>3, <3>1, SetBecomes DEF Same
  <2> HIDE DEF rec
  <2> QED
    BY <1>1, <2>1, <2>4, Ends
<1> QED
  BY <1>2, <1>3 DEF C!HandlerReturns, C!HandlerPanics

\* A request before it comes, and after it has gone.
LEMMA FreshFields ==
  ASSUME chain \in Chains
  PROVE  /\ C!Fresh \in ReqRecord /\ C!Fresh.at = 0 /\ C!Fresh.skipped = {} /\ C!Fresh.lines = {}
         /\ C!Fresh.way = "new" /\ C!Fresh.writer = Nobody
         /\ ReqOK(C!Fresh) /\ C!Gone \in ReqRecord /\ ReqOK(C!Gone)
         /\ C!Gone.at = 0 /\ C!Gone.way = "gone"
<1>1. 200 \in C!Statuses /\ "none" \in C!AuthInfo
  BY DEF C!Statuses, C!AuthInfo
<1>2. /\ C!Fresh \in ReqRecord /\ C!Fresh.at = 0 /\ C!Fresh.skipped = {} /\ C!Fresh.lines = {}
      /\ C!Fresh.way = "new" /\ C!Fresh.writer = Nobody
  BY <1>1 DEF C!Fresh, ReqRecord
<1>3. C!Gone \in ReqRecord /\ C!Gone.at = 0 /\ C!Gone.way = "gone" /\ C!Gone.lines = {}
  BY <1>2 DEF C!Gone, ReqRecord
<1>4. Len(chain) \in Nat
  BY Chain
<1> QED
  BY <1>2, <1>3, <1>4 DEF ReqOK, SeenOK

LEMMA HttpArrive ==
  ASSUME HttpInv, NEW r \in Requests, C!Arrive(r)
  PROVE  HttpInv'
<1> DEFINE rec == [C!Fresh EXCEPT !.way = "in", !.at = 1]
<1>1. /\ req[r].way = "new" /\ req' = [req EXCEPT ![r] = rec] /\ UNCHANGED C!Shared
      /\ HttpTypes /\ chain \in Chains /\ ReqOK(req[r])
  BY Place DEF C!Arrive
<1>2. /\ C!Fresh \in ReqRecord /\ C!Fresh.skipped = {} /\ C!Fresh.lines = {}
      /\ C!Fresh.writer = Nobody /\ Len(chain) \in Nat /\ DOMAIN chain = 1..Len(chain)
  BY <1>1, FreshFields, Chain
<1>3. /\ rec \in ReqRecord /\ rec.at = 1 /\ rec.way = "in" /\ rec.skipped = {} /\ rec.lines = {}
      /\ rec.writer = Nobody
  BY <1>2 DEF ReqRecord
<1> HIDE DEF rec
<1>4. ReqOK(rec)
  BY <1>2, <1>3 DEF ReqOK, SeenOK
<1>5. ~Inner(rec)
  BY <1>2, <1>3 DEF Inner
<1>6. ~Inner(req[r])
  BY <1>1 DEF Inner
<1>7. Becomes(req', r, rec)
  BY <1>1, <1>3, SetBecomes DEF Same
<1> QED
  BY <1>4, <1>5, <1>6, <1>7, <1>1, HttpAlone DEF C!Shared

LEMMA HttpEnd ==
  ASSUME HttpInv, NEW r \in Requests, C!End(r) \/ C!Leave(r)
  PROVE  HttpInv'
<1>1. /\ req[r].at = 0 /\ req[r].way \in {"out", "panic", "done"} /\ UNCHANGED C!Shared
      /\ HttpTypes /\ chain \in Chains /\ req[r] \in ReqRecord /\ ReqOK(req[r])
  BY Place DEF C!End, C!Leave, ReqOK
<1>2. ASSUME NEW rec \in ReqRecord, rec.at = 0, rec.way \in {"done", "gone"}, ReqOK(rec),
             req' = [req EXCEPT ![r] = rec]
      PROVE  HttpInv'
  <2>1. Becomes(req', r, rec)
    BY <1>1, <1>2, SetBecomes DEF Same
  <2>2. ~Inner(rec) /\ ~Inner(req[r])
    BY <1>1, <1>2, Outdoors
  <2> QED
    BY <1>1, <1>2, <2>1, <2>2, HttpAlone DEF C!Shared
<1>3. CASE req' = [req EXCEPT ![r] = C!Gone]
  BY <1>1, <1>2, <1>3, FreshFields
<1>4. ASSUME req[r].way = "out", req' = [req EXCEPT ![r] = [C!Send(req[r], <<>>) EXCEPT !.way = "done"]]
      PROVE  HttpInv'
  <2> DEFINE sent == C!Send(req[r], <<>>)
             rec == [sent EXCEPT !.way = "done"]
  <2>1. sent \in ReqRecord /\ Same(sent, req[r])
    <3>1. <<>> \in Seq(Frame)
      OBVIOUS
    <3> QED
      BY <1>1, <3>1, SendKeeps
  <2> HIDE DEF sent
  <2>2. /\ rec \in ReqRecord /\ rec.at = 0 /\ rec.way = "done" /\ rec.skipped = req[r].skipped
        /\ rec.lines = req[r].lines /\ rec.status = req[r].status /\ rec.panic = req[r].panic
    BY <1>1, <2>1 DEF ReqRecord, Same
  <2>3. req' = [req EXCEPT ![r] = rec]
    BY <1>4 DEF sent
  <2> HIDE DEF rec
  <2>4. \A line \in rec.lines : LineOK(rec, line)
    BY <1>1, <1>4, <2>2 DEF ReqOK, LineOK
  <2>5. \A k \in DOMAIN chain : SeenOK(rec, k)
    BY <1>1, <1>4, <2>2 DEF ReqOK, SeenOK, Told
  <2>6. ReqOK(rec)
    BY <1>1, <2>2, <2>4, <2>5, Chain DEF ReqOK
  <2> QED
    BY <1>2, <2>2, <2>3, <2>6
<1> QED
  BY <1>1, <1>3, <1>4 DEF C!End, C!Leave

LEMMA HttpInit == C!Init => HttpInv
<1> SUFFICES ASSUME C!Init PROVE HttpInv
  OBVIOUS
<1>1. /\ chain \in Chains /\ req = [r \in Requests |-> C!Fresh] /\ metrics = C!ZeroMetrics(0)
      /\ pool = {} /\ attached = [w \in Writers |-> Nobody]
  BY DEF C!Init
<1>2. HttpTypes /\ \A r \in Requests : ReqOK(req[r]) /\ ~Inner(req[r])
  BY <1>1, FreshFields, Outdoors DEF HttpTypes
<1>3. metrics \in MetricsRecord /\ CountersAgree(metrics) /\ metrics.inFlight = 0
  <2>1. {200, 204, 400, 401, 403, 429, 500} = C!Statuses
    BY DEF C!Statuses
  <2>2. [s \in C!Statuses |-> 0] \in [C!Statuses -> Nat]
    OBVIOUS
  <2>3. /\ metrics.total = 0 /\ metrics.success = 0 /\ metrics.failed = 0
        /\ metrics.codes = [s \in C!Statuses |-> 0] /\ metrics.inFlight = 0
    BY <1>1 DEF C!ZeroMetrics
  <2>4. \A s \in C!Statuses : metrics.codes[s] = 0
    BY <2>3
  <2>5. metrics \in MetricsRecord
    BY <1>1, <2>2 DEF C!ZeroMetrics, MetricsRecord
  <2> QED
    BY <2>1, <2>3, <2>4, <2>5 DEF CountersAgree
<1>4. {r \in Requests : Inner(req[r])} = {}
  BY <1>2
<1>5. C!MetricsAddUp
  BY <1>3, <1>4, AddUp, FS_EmptySet
<1> QED
  BY <1>2, <1>3, <1>5 DEF HttpInv

LEMMA HttpNext == HttpInv /\ [C!Next]_(C!vars) => HttpInv'
<1> SUFFICES ASSUME HttpInv, [C!Next]_(C!vars) PROVE HttpInv'
  OBVIOUS
<1>1. CASE UNCHANGED C!vars
  <2>1. UNCHANGED <<chain, req, metrics, pool, attached>>
    BY <1>1 DEF C!vars
  <2>2. HttpTypes'
    BY <2>1 DEF HttpInv, HttpTypes, ReqRecord, Frame, HttpLine, Pieces
  <2>3. \A r \in Requests : ReqOK(req[r])'
    BY <2>1 DEF HttpInv, ReqOK, LineOK, SeenOK, Told, C!Open
  <2>4. C!MetricsAddUp'
    <3>1. {r \in Requests : C!Counted(r)}' = {r \in Requests : C!Counted(r)}
      BY <2>1 DEF C!Counted
    <3> QED
      BY ZenonT(40), <2>1, <3>1 DEF HttpInv, C!MetricsAddUp
  <2> QED
    BY <2>1, <2>2, <2>3, <2>4 DEF HttpInv, MetricsRecord
<1>2. CASE C!Reset
  BY <1>2, HttpReset
<1>3. ASSUME NEW r \in Requests,
             \/ C!Arrive(r) \/ C!Security(r) \/ C!CORS(r) \/ C!IPFilter(r) \/ C!BearerAuth(r)
             \/ C!RequireRoles(r) \/ C!RateLimit(r) \/ C!Decompress(r) \/ C!Recovery(r)
             \/ C!NoPanic(r) \/ C!Recover(r) \/ C!Logger(r) \/ C!Log(r)
      PROVE  HttpInv'
  BY <1>3, HttpGates, HttpArrive, HttpCORS, HttpBearerAuth, HttpNoPanic, HttpRecover, HttpLog
<1>4. ASSUME NEW r \in Requests,
             \/ C!MetricsIn(r) \/ C!Record(r) \/ C!MetricsOut(r) \/ C!Gzip(r) \/ C!Close(r)
             \/ C!HandlerWrites(r) \/ C!HandlerFlushes(r) \/ C!HandlerReturns(r)
             \/ C!HandlerPanics(r) \/ C!End(r) \/ C!Leave(r)
      PROVE  HttpInv'
  BY <1>4, HttpMetricsIn, HttpRecord, HttpMetricsOut, HttpGzip, HttpClose, HttpHandlerWrites,
     HttpHandlerFlushes, HttpHandlerEnds, HttpEnd
<1> QED
  BY <1>1, <1>2, <1>3, <1>4 DEF C!Next

-----------------------------------------------------------------------------
(* HttpChain: what a client reads *)

\* What the invariant reads of a record, but for its place.
Alike(a, b) ==
    /\ a.writer = b.writer /\ a.status = b.status /\ a.written = b.written /\ a.header = b.header
    /\ a.encoded = b.encoded /\ a.body = b.body /\ a.started = b.started /\ a.buffer = b.buffer
    /\ a.type = b.type /\ a.given = b.given /\ a.early = b.early

LEMMA AlikeIs ==
  ASSUME NEW a, NEW b, Alike(a, b), NEW r
  PROVE  /\ Untouched(a) <=> Untouched(b)
         /\ Good(r, a) <=> Good(r, b)
         /\ Readable(r, a) <=> Readable(r, b)
         /\ Promised(a) <=> Promised(b)
<1>1. (Plain(r, a) <=> Plain(r, b)) /\ (Held(a) <=> Held(b)) /\ (Untouched(a) <=> Untouched(b))
  BY DEF Alike, Plain, Held, Untouched
<1>2. (Zipped(r, a) <=> Zipped(r, b)) /\ (Ended(r, a) <=> Ended(r, b))
  BY DEF Alike, Zipped, Ended
<1>3. a.writer = b.writer /\ a.status = b.status /\ a.early = b.early /\ a.type = b.type
  BY DEF Alike
<1> QED
  BY <1>1, <1>2, <1>3 DEF Good, Readable, Promised

\* A request that has written nothing has written all it was given.
LEMMA UntouchedIsGood ==
  ASSUME NEW r, NEW rec, Untouched(rec)
  PROVE  Good(r, rec) /\ Plain(r, rec) /\ Held(rec)
<1>1. Len(<<>>) = 0 /\ 1..0 = {}
  OBVIOUS
<1> QED
  BY <1>1 DEF Untouched, Good, Plain, Held, Own

\* What Send makes of a record.
Sent(rec, frames, sent) ==
    /\ sent.written = TRUE
    /\ rec.written => sent.encoded = rec.encoded
    /\ ~rec.written => sent.encoded = rec.header
    /\ sent.body = IF rec.status = 204 THEN rec.body ELSE rec.body \o frames
    /\ sent.header = rec.header /\ sent.started = rec.started /\ sent.buffer = rec.buffer
    /\ sent.type = rec.type /\ sent.given = rec.given /\ sent.early = rec.early

LEMMA SendIs ==
  ASSUME NEW rec \in ReqRecord, NEW frames \in Seq(Frame)
  PROVE  /\ C!Send(rec, frames) \in ReqRecord /\ Same(C!Send(rec, frames), rec)
         /\ Sent(rec, frames, C!Send(rec, frames))
<1> DEFINE encoded == IF rec.written THEN rec.encoded ELSE rec.header
           body == IF rec.status = 204 THEN rec.body ELSE rec.body \o frames
           sent == C!Send(rec, frames)
<1>1. sent = [rec EXCEPT !.written = TRUE, !.encoded = encoded, !.body = body]
  BY DEF C!Send
<1> HIDE DEF encoded, body, sent
<1>2. /\ sent.written = TRUE /\ sent.encoded = encoded /\ sent.body = body
      /\ sent.header = rec.header /\ sent.started = rec.started /\ sent.buffer = rec.buffer
      /\ sent.type = rec.type /\ sent.given = rec.given /\ sent.early = rec.early
  BY <1>1 DEF ReqRecord
<1>3. Sent(rec, frames, sent)
  BY <1>2 DEF Sent, encoded, body
<1> QED
  BY <1>3, SendKeeps DEF sent

LEMMA FramesAre ==
  ASSUME NEW r \in Requests, NEW pieces \in Seq(Pieces), NEW zipped \in BOOLEAN
  PROVE  /\ C!Frames(r, pieces, zipped) \in Seq(Frame)
         /\ Len(C!Frames(r, pieces, zipped)) = Len(pieces)
         /\ \A i \in 1..Len(pieces) :
              C!Frames(r, pieces, zipped)[i] = [of |-> r, what |-> pieces[i], zipped |-> zipped]
<1>1. Len(pieces) \in Nat /\ DOMAIN pieces = 1..Len(pieces)
  OBVIOUS
<1>2. C!Frames(r, pieces, zipped) \in Seq(Frame)
  BY FramesType
<1>3. C!Frames(r, pieces, zipped)
        = [i \in 1..Len(pieces) |-> [of |-> r, what |-> pieces[i], zipped |-> zipped]]
  BY <1>1 DEF C!Frames
<1>4. Len(C!Frames(r, pieces, zipped)) = Len(pieces)
  <2> DEFINE frames == C!Frames(r, pieces, zipped)
             m == Len(frames)
             n == Len(pieces)
  <2>1. m \in Nat /\ n \in Nat /\ DOMAIN frames = 1..m /\ DOMAIN frames = 1..n
    BY <1>1, <1>2, <1>3
  <2> HIDE DEF m, n, frames
  <2>2. 1..m = 1..n
    BY <2>1
  <2>3. m >= 1 => m \in 1..n
    BY <2>1, <2>2
  <2>4. n >= 1 => n \in 1..m
    BY <2>1, <2>2
  <2>5. m = n
    BY <2>1, <2>3, <2>4
  <2> QED
    BY <2>5 DEF m, n, frames
<1> QED
  BY <1>2, <1>3, <1>4

\* A body of r's, with frames of r's behind it.
LEMMA OwnGrows ==
  ASSUME NEW r \in Requests, NEW body \in Seq(Frame), NEW pieces \in Seq(Pieces),
         NEW zipped \in BOOLEAN, Own(r, body, Len(body), zipped),
         \A i \in 1..Len(pieces) : pieces[i] # "end"
  PROVE  LET all == body \o C!Frames(r, pieces, zipped) IN
         Len(all) = Len(body) + Len(pieces) /\ Own(r, all, Len(all), zipped)
<1> DEFINE frames == C!Frames(r, pieces, zipped)
           all == body \o frames
<1>1. /\ frames \in Seq(Frame) /\ Len(frames) = Len(pieces)
      /\ \A i \in 1..Len(pieces) : frames[i] = [of |-> r, what |-> pieces[i], zipped |-> zipped]
  BY FramesAre
<1> HIDE DEF frames
<1>2. /\ Len(all) = Len(body) + Len(pieces) /\ Len(body) \in Nat /\ Len(pieces) \in Nat
      /\ \A i \in 1..Len(body) : all[i] = body[i]
      /\ \A i \in 1..Len(all) : i > Len(body) => all[i] = frames[i - Len(body)]
  BY <1>1
<1> HIDE DEF all
<1>3. ASSUME NEW i \in 1..Len(all)
      PROVE  all[i].of = r /\ all[i].zipped = zipped /\ all[i].what # "end"
  <2>1. CASE i <= Len(body)
    BY <1>2, <2>1 DEF Own
  <2>2. CASE i > Len(body)
    <3> DEFINE j == i - Len(body)
    <3>1. j \in 1..Len(pieces) /\ all[i] = frames[j]
      BY <1>2, <2>2
    <3> HIDE DEF j
    <3>2. all[i] = [of |-> r, what |-> pieces[j], zipped |-> zipped] /\ pieces[j] # "end"
      BY <1>1, <3>1
    <3> QED
      BY <3>2
  <2> QED
    BY <1>2, <2>1, <2>2
<1> QED
  BY <1>2, <1>3 DEF Own, all, frames

\* Two sequences of pieces without an end have none together.
LEMMA PiecesJoin ==
  ASSUME NEW a \in Seq(Pieces), NEW b \in Seq(Pieces),
         \A i \in 1..Len(a) : a[i] # "end", \A i \in 1..Len(b) : b[i] # "end"
  PROVE  /\ a \o b \in Seq(Pieces) /\ Len(a \o b) = Len(a) + Len(b)
         /\ \A i \in 1..Len(a \o b) : (a \o b)[i] # "end"
<1> DEFINE all == a \o b
<1>1. /\ all \in Seq(Pieces) /\ Len(all) = Len(a) + Len(b) /\ Len(a) \in Nat /\ Len(b) \in Nat
      /\ \A i \in 1..Len(a) : all[i] = a[i]
      /\ \A i \in 1..Len(all) : i > Len(a) => all[i] = b[i - Len(a)]
  OBVIOUS
<1> HIDE DEF all
<1>2. ASSUME NEW i \in 1..Len(all) PROVE all[i] # "end"
  <2>1. CASE i <= Len(a)
    BY <1>1, <2>1
  <2>2. CASE i > Len(a)
    <3> DEFINE j == i - Len(a)
    <3>1. j \in 1..Len(b) /\ all[i] = b[j]
      BY <1>1, <2>2
    <3> HIDE DEF j
    <3> QED
      BY <3>1
  <2> QED
    BY <1>1, <2>1, <2>2
<1> QED
  BY <1>1, <1>2 DEF all

\* The record before anything is sent or collected.
LEMMA GivenIs ==
  ASSUME NEW rec \in ReqRecord, NEW pieces \in Seq(Pieces)
  PROVE  LET mine == [rec EXCEPT !.given = @ + Len(pieces)] IN
         /\ mine \in ReqRecord /\ Same(mine, rec) /\ mine.given = rec.given + Len(pieces)
         /\ mine.type = rec.type /\ mine.early = rec.early /\ mine.written = rec.written
         /\ mine.header = rec.header /\ mine.encoded = rec.encoded /\ mine.body = rec.body
         /\ mine.started = rec.started /\ mine.buffer = rec.buffer
<1>1. rec.given + Len(pieces) \in Nat
  BY DEF ReqRecord
<1> QED
  BY <1>1 DEF ReqRecord, Same

\* Without a writer: to the response.
LEMMA WritesPlainly ==
  ASSUME NEW r \in Requests, NEW rec \in ReqRecord, NEW pieces \in Seq(Pieces),
         \A i \in 1..Len(pieces) : pieces[i] # "end", rec.writer = Nobody
  PROVE  LET new == C!Send([rec EXCEPT !.given = @ + Len(pieces)], C!Frames(r, pieces, FALSE)) IN
         /\ new \in ReqRecord /\ Same(new, rec) /\ new.given = rec.given + Len(pieces)
         /\ new.type = rec.type /\ new.early = rec.early
         /\ Good(r, rec) => Good(r, new)
<1> DEFINE mine == [rec EXCEPT !.given = @ + Len(pieces)]
           frames == C!Frames(r, pieces, FALSE)
           new == C!Send(mine, frames)
<1>1. /\ mine \in ReqRecord /\ Same(mine, rec) /\ mine.given = rec.given + Len(pieces)
      /\ mine.type = rec.type /\ mine.early = rec.early /\ mine.written = rec.written
      /\ mine.header = rec.header /\ mine.encoded = rec.encoded /\ mine.body = rec.body
  BY GivenIs
<1>2. frames \in Seq(Frame)
  BY FramesType
<1> HIDE DEF mine, frames
<1>3. new \in ReqRecord /\ Same(new, mine) /\ Sent(mine, frames, new)
  BY <1>1, <1>2, SendIs
<1> HIDE DEF new
<1>4. ASSUME Good(r, rec) PROVE Good(r, new)
  <2>1. rec.status # 204 /\ Plain(r, rec)
    BY <1>4 DEF Good
  <2>2. /\ new.status # 204 /\ new.writer = Nobody /\ new.body = rec.body \o frames
        /\ ~new.encoded /\ ~new.header
    BY <1>1, <1>3, <2>1 DEF Same, Plain, Sent
  <2>3. rec.body \in Seq(Frame) /\ Len(rec.body) = rec.given /\ Own(r, rec.body, Len(rec.body), FALSE)
    BY <2>1 DEF Plain, ReqRecord
  <2>4. /\ Len(rec.body \o frames) = Len(rec.body) + Len(pieces)
        /\ Own(r, rec.body \o frames, Len(rec.body \o frames), FALSE)
    BY <2>3, OwnGrows DEF frames
  <2>5. new.given = rec.given + Len(pieces)
    BY <1>1, <1>3 DEF Sent
  <2>6. Len(new.body) = new.given /\ Own(r, new.body, new.given, FALSE)
    BY ZenonT(60), <2>2, <2>3, <2>4, <2>5
  <2> QED
    BY <2>2, <2>6 DEF Good, Plain
<1> QED
  BY <1>1, <1>3, <1>4 DEF Same, Sent, new, mine, frames

\* With one, as long as there is too little to start: into the buffer.
LEMMA WritesToBuffer ==
  ASSUME NEW r \in Requests, NEW rec \in ReqRecord, NEW pieces \in Seq(Pieces),
         \A i \in 1..Len(pieces) : pieces[i] # "end", rec.writer # Nobody, ~rec.started
  PROVE  LET new == [[rec EXCEPT !.given = @ + Len(pieces)]
                        EXCEPT !.buffer = C!Collected(rec, pieces)] IN
         /\ new \in ReqRecord /\ Same(new, rec) /\ new.given = rec.given + Len(pieces)
         /\ new.type = rec.type /\ new.early = rec.early
         /\ Good(r, rec) => Good(r, new)
<1> DEFINE mine == [rec EXCEPT !.given = @ + Len(pieces)]
           all == C!Collected(rec, pieces)
           new == [mine EXCEPT !.buffer = all]
<1>1. /\ mine \in ReqRecord /\ Same(mine, rec) /\ mine.given = rec.given + Len(pieces)
      /\ mine.type = rec.type /\ mine.early = rec.early /\ mine.written = rec.written
      /\ mine.header = rec.header /\ mine.encoded = rec.encoded /\ mine.body = rec.body
      /\ mine.started = rec.started
  BY GivenIs
<1>2. all = rec.buffer \o pieces /\ rec.buffer \in Seq(Pieces) /\ all \in Seq(Pieces)
  BY DEF C!Collected, ReqRecord
<1> HIDE DEF mine, all
<1>3. /\ new \in ReqRecord /\ Same(new, mine) /\ new.given = mine.given
      /\ new.type = mine.type /\ new.early = mine.early /\ new.written = mine.written
      /\ new.header = mine.header /\ new.encoded = mine.encoded /\ new.body = mine.body
      /\ new.started = mine.started /\ new.buffer = all
  BY <1>1, <1>2 DEF ReqRecord, Same
<1> HIDE DEF new
<1>4. ASSUME Good(r, rec) PROVE Good(r, new)
  <2>1. rec.status # 204 /\ Held(rec)
    BY <1>4 DEF Good, Zipped
  <2>2. Len(rec.buffer) = rec.given /\ \A i \in 1..Len(rec.buffer) : rec.buffer[i] # "end"
    BY <2>1 DEF Held
  <2>3. Len(all) = new.given /\ \A i \in 1..new.given : all[i] # "end"
    BY <1>1, <1>2, <1>3, <2>2, PiecesJoin
  <2>4. Held(new)
    BY <1>1, <1>3, <2>1, <2>3 DEF Held
  <2> QED
    BY <1>1, <1>3, <2>1, <2>4 DEF Good, Same
<1> QED
  BY <1>1, <1>3, <1>4 DEF Same, new, mine, all

\* When there is enough: all that was collected, compressed.
LEMMA WritesFirst ==
  ASSUME NEW r \in Requests, NEW rec \in ReqRecord, NEW pieces \in Seq(Pieces),
         \A i \in 1..Len(pieces) : pieces[i] # "end", rec.writer # Nobody, ~rec.started,
         NEW included \in BOOLEAN, rec.type # "excluded" => included
  PROVE  LET all == C!Collected(rec, pieces)
             begun == [[rec EXCEPT !.given = @ + Len(pieces)]
                        EXCEPT !.started = TRUE, !.buffer = all, !.header = included]
             new == C!Send(begun, C!Frames(r, all, TRUE)) IN
         /\ new \in ReqRecord /\ Same(new, rec) /\ new.given = rec.given + Len(pieces)
         /\ new.type = rec.type /\ new.early = rec.early
         /\ rec.type # "excluded" /\ Good(r, rec) => Good(r, new)
<1> DEFINE mine == [rec EXCEPT !.given = @ + Len(pieces)]
           all == C!Collected(rec, pieces)
           begun == [mine EXCEPT !.started = TRUE, !.buffer = all, !.header = included]
           frames == C!Frames(r, all, TRUE)
           new == C!Send(begun, frames)
<1>1. /\ mine \in ReqRecord /\ Same(mine, rec) /\ mine.given = rec.given + Len(pieces)
      /\ mine.type = rec.type /\ mine.early = rec.early /\ mine.written = rec.written
      /\ mine.encoded = rec.encoded /\ mine.body = rec.body
  BY GivenIs
<1>2. all = rec.buffer \o pieces /\ rec.buffer \in Seq(Pieces) /\ all \in Seq(Pieces)
  BY DEF C!Collected, ReqRecord
<1> HIDE DEF mine, all
<1>3. /\ begun \in ReqRecord /\ Same(begun, mine) /\ begun.given = mine.given
      /\ begun.type = mine.type /\ begun.early = mine.early /\ begun.written = mine.written
      /\ (begun.header <=> included) /\ begun.body = mine.body /\ begun.started
  BY ZenonT(60), <1>1, <1>2 DEF ReqRecord, Same
<1>4. frames \in Seq(Frame)
  BY <1>2, FramesType
<1> HIDE DEF begun, frames
<1>5. new \in ReqRecord /\ Same(new, begun) /\ Sent(begun, frames, new)
  BY <1>3, <1>4, SendIs
<1> HIDE DEF new
<1>6. /\ Same(new, rec) /\ new.given = rec.given + Len(pieces)
      /\ new.type = rec.type /\ new.early = rec.early
  BY <1>1, <1>3, <1>5 DEF Same, Sent
<1>7. ASSUME Good(r, rec), rec.type # "excluded" PROVE Good(r, new)
  <2>1. rec.status # 204 /\ Held(rec)
    BY <1>7 DEF Good, Zipped
  <2>2. Len(rec.buffer) = rec.given /\ \A i \in 1..Len(rec.buffer) : rec.buffer[i] # "end"
    BY <2>1 DEF Held
  <2>3. /\ Len(all) = rec.given + Len(pieces) /\ Len(all) \in Nat
        /\ \A i \in 1..Len(all) : all[i] # "end"
    BY <1>2, <2>2, PiecesJoin
  <2>4. new.status # 204 /\ new.writer # Nobody
    BY <1>6, <2>1 DEF Same
  <2>5. new.body = <<>> \o frames
    BY <1>1, <1>3, <1>5, <2>1 DEF Same, Held, Sent
  <2>6. new.written /\ new.encoded /\ new.started
    BY <1>1, <1>3, <1>5, <1>7, <2>1 DEF Held, Sent
  <2>7. <<>> \in Seq(Frame) /\ Len(<<>>) = 0 /\ 1..0 = {}
    OBVIOUS
  <2>8. Own(r, <<>>, Len(<<>>), TRUE)
    BY <2>7 DEF Own
  <2>9. /\ Len(<<>> \o frames) = Len(<<>>) + Len(all)
        /\ Own(r, <<>> \o frames, Len(<<>> \o frames), TRUE)
    BY <1>2, <2>3, <2>7, <2>8, OwnGrows DEF frames
  <2>10. Len(<<>> \o frames) = new.given /\ Own(r, <<>> \o frames, new.given, TRUE)
    <3>1. Len(<<>>) + Len(all) = Len(all) /\ new.given = Len(all)
      BY <1>6, <2>3, <2>7
    <3> QED
      BY Zenon, <2>9, <3>1
  <2>11. Len(new.body) = new.given /\ Own(r, new.body, new.given, TRUE)
    BY Zenon, <2>5, <2>10
  <2> QED
    BY <2>4, <2>6, <2>11 DEF Good, Zipped
<1> QED
  BY <1>5, <1>6, <1>7 DEF new, begun, mine, all, frames

\* And from then on.
LEMMA WritesOn ==
  ASSUME NEW r \in Requests, NEW rec \in ReqRecord, NEW pieces \in Seq(Pieces),
         \A i \in 1..Len(pieces) : pieces[i] # "end", rec.writer # Nobody, rec.started
  PROVE  LET new == C!Send([rec EXCEPT !.given = @ + Len(pieces)], C!Frames(r, pieces, TRUE)) IN
         /\ new \in ReqRecord /\ Same(new, rec) /\ new.given = rec.given + Len(pieces)
         /\ new.type = rec.type /\ new.early = rec.early
         /\ Good(r, rec) => Good(r, new)
<1> DEFINE mine == [rec EXCEPT !.given = @ + Len(pieces)]
           frames == C!Frames(r, pieces, TRUE)
           new == C!Send(mine, frames)
<1>1. /\ mine \in ReqRecord /\ Same(mine, rec) /\ mine.given = rec.given + Len(pieces)
      /\ mine.type = rec.type /\ mine.early = rec.early /\ mine.written = rec.written
      /\ mine.encoded = rec.encoded /\ mine.body = rec.body /\ mine.started = rec.started
  BY GivenIs
<1>2. frames \in Seq(Frame)
  BY FramesType
<1> HIDE DEF mine, frames
<1>3. new \in ReqRecord /\ Same(new, mine) /\ Sent(mine, frames, new)
  BY <1>1, <1>2, SendIs
<1> HIDE DEF new
<1>4. ASSUME Good(r, rec) PROVE Good(r, new)
  <2>1. rec.status # 204 /\ Zipped(r, rec)
    BY <1>4 DEF Good, Held
  <2>2. /\ new.status # 204 /\ new.writer # Nobody /\ new.body = rec.body \o frames
        /\ new.encoded /\ new.started
    <3>1. rec.written /\ rec.encoded /\ rec.started
      BY <2>1 DEF Zipped
    <3>2. new.status = rec.status /\ new.writer = rec.writer
      BY <1>1, <1>3 DEF Same
    <3>3. mine.written /\ mine.encoded /\ mine.started /\ mine.status # 204
      BY <1>1, <2>1, <3>1 DEF Same
    <3>4. new.encoded /\ new.started /\ new.body = mine.body \o frames
      BY <1>3, <3>3 DEF Sent
    <3> QED
      BY <1>1, <2>1, <3>2, <3>4
  <2>3. rec.body \in Seq(Frame) /\ Len(rec.body) = rec.given /\ Own(r, rec.body, Len(rec.body), TRUE)
    BY <2>1 DEF Zipped, ReqRecord
  <2>4. /\ Len(rec.body \o frames) = Len(rec.body) + Len(pieces)
        /\ Own(r, rec.body \o frames, Len(rec.body \o frames), TRUE)
    BY <2>3, OwnGrows DEF frames
  <2>5. new.given = rec.given + Len(pieces)
    BY <1>1, <1>3 DEF Sent
  <2>6. Len(new.body) = new.given /\ Own(r, new.body, new.given, TRUE)
    BY ZenonT(60), <2>2, <2>3, <2>4, <2>5
  <2> QED
    BY <1>3, <2>2, <2>6 DEF Good, Zipped, Sent
<1> QED
  BY ZenonT(60), <1>1, <1>3, <1>4 DEF Same, Sent, new, mine, frames

\* Whatever r writes through its own writer, or with none, what was given stays good.
LEMMA WritesSound ==
  ASSUME HttpTypes, NEW r \in Requests, NEW rec \in ReqRecord, NEW pieces \in Seq(Pieces),
         \A i \in 1..Len(pieces) : pieces[i] # "end",
         rec.writer # Nobody => attached[rec.writer] = r
  PROVE  \E new \in ReqRecord :
           /\ C!Written(r, rec, pieces) = [req EXCEPT ![r] = new]
           /\ Same(new, rec) /\ new.given = rec.given + Len(pieces)
           /\ new.type = rec.type /\ new.early = rec.early
           /\ rec.type # "excluded" /\ Good(r, rec) => Good(r, new)
<1> DEFINE all == C!Collected(rec, pieces)
           mine == [rec EXCEPT !.given = @ + Len(pieces)]
           type == IF rec.type = "unknown" THEN "included" ELSE rec.type
           included == type = "included"
           begun == [mine EXCEPT !.started = TRUE, !.buffer = all, !.header = included]
<1>1. CASE rec.writer = Nobody
  <2> DEFINE new == C!Send(mine, C!Frames(r, pieces, FALSE))
  <2>1. C!Written(r, rec, pieces) = [req EXCEPT ![r] = new]
    BY <1>1 DEF C!Written
  <2>2. /\ new \in ReqRecord /\ Same(new, rec) /\ new.given = rec.given + Len(pieces)
        /\ new.type = rec.type /\ new.early = rec.early /\ (Good(r, rec) => Good(r, new))
    BY <1>1, WritesPlainly
  <2> HIDE DEF new
  <2> QED
    BY <2>1, <2>2
<1>2. CASE rec.writer # Nobody /\ ~rec.started /\ Len(all) < MinLength
  <2> DEFINE new == [mine EXCEPT !.buffer = all]
  <2>1. C!Written(r, rec, pieces) = [req EXCEPT ![r] = new]
    BY <1>2 DEF C!Written
  <2>2. /\ new \in ReqRecord /\ Same(new, rec) /\ new.given = rec.given + Len(pieces)
        /\ new.type = rec.type /\ new.early = rec.early /\ (Good(r, rec) => Good(r, new))
    BY <1>2, WritesToBuffer
  <2> HIDE DEF new
  <2> QED
    BY <2>1, <2>2
<1>3. CASE rec.writer # Nobody /\ ~rec.started /\ ~(Len(all) < MinLength)
  <2> DEFINE new == C!Send(begun, C!Frames(r, all, TRUE))
  <2>1. C!Written(r, rec, pieces) = [req EXCEPT ![r] = new]
    <3>1. attached[rec.writer] = r /\ r # Nobody
      BY <1>3, RequestsAssumption
    <3> QED
      BY <1>3, <3>1 DEF C!Written
  <2>2. included \in BOOLEAN /\ (rec.type # "excluded" => included)
    BY DEF ReqRecord
  <2>3. /\ new \in ReqRecord /\ Same(new, rec) /\ new.given = rec.given + Len(pieces)
        /\ new.type = rec.type /\ new.early = rec.early
        /\ (rec.type # "excluded" /\ Good(r, rec) => Good(r, new))
    <3> HIDE DEF included
    <3> QED
      BY <1>3, <2>2, WritesFirst
  <2> HIDE DEF new
  <2> QED
    BY <2>1, <2>3
<1>4. CASE rec.writer # Nobody /\ rec.started
  <2> DEFINE new == C!Send(mine, C!Frames(r, pieces, TRUE))
  <2>1. C!Written(r, rec, pieces) = [req EXCEPT ![r] = new]
    <3>1. attached[rec.writer] = r /\ r # Nobody
      BY <1>4, RequestsAssumption
    <3> QED
      BY <1>4, <3>1 DEF C!Written
  <2>2. /\ new \in ReqRecord /\ Same(new, rec) /\ new.given = rec.given + Len(pieces)
        /\ new.type = rec.type /\ new.early = rec.early /\ (Good(r, rec) => Good(r, new))
    BY <1>4, WritesOn
  <2> HIDE DEF new
  <2> QED
    BY <2>1, <2>2
<1> QED
  BY <1>1, <1>2, <1>3, <1>4

\* Where a request stands, and that it can still be read.
LEMMA SoundPlace ==
  ASSUME HttpInv, AnswerInv, ~panicked, NEW r \in Requests
  PROVE  Sound(r, req[r]) /\ Fits(r, req[r], attached, pool) /\ req[r].way # "panic"
BY DEF AnswerInv, Sound

\* A step of request r, which keeps the writers of the others.
LEMMA AnswerStep ==
  ASSUME HttpInv, AnswerInv, ~panicked, NEW r \in Requests, NEW rec \in ReqRecord,
         req' = [req EXCEPT ![r] = rec], chain' = chain,
         Sound(r, rec), Fits(r, rec, attached', pool'),
         \A q \in Requests \ {r} : Opened(req[q]) =>
             attached'[req[q].writer] = attached[req[q].writer] /\ req[q].writer \notin pool'
  PROVE  AnswerInv'
<1>1. ASSUME NEW q \in Requests
      PROVE  Sound(q, req'[q]) /\ Fits(q, req'[q], attached', pool')
  <2>1. CASE q = r
    <3>1. req'[q] = rec
      BY <2>1 DEF HttpInv, HttpTypes
    <3> QED
      BY <2>1, <3>1
  <2>2. CASE q # r
    <3>1. req'[q] = req[q]
      BY <2>2 DEF HttpInv, HttpTypes
    <3>2. Sound(q, req[q]) /\ Fits(q, req[q], attached, pool)
      BY SoundPlace
    <3> QED
      BY <2>2, <3>1, <3>2 DEF Fits
  <2> QED
    BY <2>1, <2>2
<1>2. \A q \in Requests : Sound(q, req[q])' /\ Fits(q, req[q], attached, pool)'
  BY <1>1 DEF Sound, Fits, Opened
<1> QED
  BY <1>2 DEF AnswerInv

\* A step that leaves the writers alone and the request where its writer was.
LEMMA AnswerPlain ==
  ASSUME HttpInv, AnswerInv, ~panicked, NEW r \in Requests, NEW rec \in ReqRecord,
         req' = [req EXCEPT ![r] = rec], UNCHANGED <<chain, attached, pool>>, Sound(r, rec),
         Opened(rec) => Opened(req[r]) /\ rec.writer = req[r].writer
  PROVE  AnswerInv'
<1>1. \A q \in Requests : Fits(q, req[q], attached, pool)
  BY SoundPlace
<1>2. Fits(r, rec, attached, pool)
  BY <1>1 DEF Fits
<1>3. \A q \in Requests : Opened(req[q]) => req[q].writer \notin pool
  BY <1>1 DEF Fits
<1> QED
  BY <1>2, <1>3, AnswerStep

\* On the way in, past a middleware that takes no writer.
LEMMA AnswerGoesIn ==
  ASSUME HttpInv, AnswerInv, ~panicked, NEW r \in Requests, NEW rec \in ReqRecord,
         req[r].way = "in", req[r].at <= Len(chain),
         rec.way = "in", rec.at = req[r].at + 1, Alike(rec, req[r]),
         req' = [req EXCEPT ![r] = rec], UNCHANGED <<chain, attached, pool>>
  PROVE  AnswerInv'
<1>1. Sound(r, req[r]) /\ rec.writer = req[r].writer /\ req[r].at \in Nat
  BY SoundPlace, Place DEF Alike
<1>2. /\ Untouched(rec) /\ Good(r, rec)
      /\ rec.given = 0 /\ rec.type = "unknown"
  BY <1>1, AlikeIs, UntouchedIsGood DEF Sound, Untouched
<1>3. rec.writer # Nobody => Opened(req[r]) /\ Opened(rec)
  <2>1. SUFFICES ASSUME rec.writer # Nobody PROVE Opened(req[r]) /\ Opened(rec)
    OBVIOUS
  <2>2. Opened(req[r])
    BY <1>1, <2>1 DEF Sound
  <2>3. PICK k \in DOMAIN chain : chain[k] = "gzip" /\ req[r].at > k
    BY <2>2 DEF Opened
  <2>4. k \in Nat /\ rec.at > k
    BY <1>1, <2>3, Place, Chain
  <2> QED
    BY <2>1, <2>2, <2>3, <2>4 DEF Opened
<1>4. Sound(r, rec)
  BY <1>2, <1>3 DEF Sound
<1>5. Opened(rec) => rec.writer # Nobody
  BY DEF Opened
<1> QED
  BY <1>1, <1>3, <1>4, <1>5, AnswerPlain

\* The turn: what was written can be read, and the writer is open as before.
LEMMA AnswerTurns ==
  ASSUME HttpInv, AnswerInv, ~panicked, NEW r \in Requests, NEW rec \in ReqRecord,
         req[r].way = "in", req[r].at > Len(chain) \/ chain[req[r].at] \in C!Gates,
         rec.way = "out", rec.at = C!Outside(req[r].at), rec.writer = req[r].writer,
         Promised(rec) /\ rec.given > 0 => Good(r, rec),
         req' = [req EXCEPT ![r] = rec], UNCHANGED <<chain, attached, pool>>
  PROVE  AnswerInv'
<1> DEFINE at == req[r].at
           out == C!Outside(at)
<1>1. /\ at \in 0..(Len(chain) + 1) /\ at \in Nat /\ at >= 1 /\ Len(chain) \in Nat
      /\ DOMAIN chain = 1..Len(chain) /\ Sound(r, req[r])
  BY Place, Chain, SoundPlace DEF ReqOK
<1>2. /\ out \in 0..Len(chain) /\ out < at
      /\ \A k \in 1..Len(chain) : k < at /\ chain[k] \in C!Returning => k <= out
  BY <1>1, Place, OutsideIsNext
<1>3. ASSUME NEW k \in 1..Len(chain), chain[k] = "gzip" PROVE out >= k <=> at > k
  BY <1>1, <1>2, <1>3 DEF C!Returning
<1>4. Opened(rec) <=> Opened(req[r])
  BY <1>1, <1>3 DEF Opened
<1>5. ~Opened(rec) => rec.writer = Nobody
  BY <1>1, <1>4 DEF Sound
<1>6. rec.writer = Nobody /\ Good(r, rec) => Readable(r, rec)
  BY DEF Good, Readable
<1>7. Sound(r, rec)
  BY <1>5, <1>6 DEF Sound
<1> QED
  BY <1>4, <1>7, AnswerPlain

\* On the way out, past a middleware that has no writer to close.
LEMMA AnswerGoesOut ==
  ASSUME HttpInv, AnswerInv, ~panicked, NEW r \in Requests, NEW rec \in ReqRecord,
         req[r].way = "out", req[r].at > 0, chain[req[r].at] # "gzip" \/ rec.writer = Nobody,
         rec.way = "out", rec.at = C!Outside(req[r].at), Alike(rec, req[r]),
         req' = [req EXCEPT ![r] = rec], UNCHANGED <<chain, attached, pool>>
  PROVE  AnswerInv'
<1> DEFINE at == req[r].at
           out == C!Outside(at)
<1>1. /\ at \in 1..Len(chain) /\ at \in 0..(Len(chain) + 1) /\ at \in Nat /\ Len(chain) \in Nat
      /\ DOMAIN chain = 1..Len(chain) /\ Sound(r, req[r]) /\ rec.writer = req[r].writer
  BY Place, Chain, SoundPlace DEF ReqOK, Alike
<1>2. /\ out \in 0..Len(chain) /\ out < at
      /\ \A k \in 1..Len(chain) : k < at /\ chain[k] \in C!Returning => k <= out
  BY <1>1, Place, OutsideIsNext
<1>3. ASSUME NEW k \in 1..Len(chain), chain[k] = "gzip", rec.writer # Nobody
      PROVE  out >= k <=> at >= k
  BY <1>1, <1>2, <1>3 DEF C!Returning
<1>4. Opened(rec) <=> Opened(req[r])
  BY <1>1, <1>3 DEF Opened
<1>5. /\ Good(r, rec) <=> Good(r, req[r])
      /\ Readable(r, rec) <=> Readable(r, req[r])
      /\ Promised(rec) <=> Promised(req[r])
      /\ rec.given = req[r].given
  BY AlikeIs DEF Alike
<1>6. Sound(r, rec)
  BY <1>1, <1>4, <1>5 DEF Sound
<1> QED
  BY <1>1, <1>4, <1>6, AnswerPlain

LEMMA AlikeMoves ==
  ASSUME NEW rec \in ReqRecord, NEW way \in {"out", "panic"}
  PROVE  Alike(C!Inward(rec), rec) /\ Alike(C!Outward(rec, way), rec)
BY DEF Alike, C!Inward, C!Outward, ReqRecord

\* A status chosen first is not 204.
LEMMA WriteHeaderGood ==
  ASSUME NEW r \in Requests, NEW rec \in ReqRecord, NEW s \in C!Statuses, s # 204
  PROVE  LET head == C!WriteHeader(rec, s) IN
         /\ head.given = rec.given /\ head.type = rec.type /\ head.early = rec.early
         /\ Good(r, rec) => Good(r, head)
<1> DEFINE head == C!WriteHeader(rec, s)
<1>1. CASE rec.written
  BY <1>1 DEF C!WriteHeader
<1>2. CASE ~rec.written
  <2>1. head = [rec EXCEPT !.status = s]
    BY <1>2 DEF C!WriteHeader
  <2> HIDE DEF head
  <2>2. /\ head.status = s /\ head.writer = rec.writer /\ head.written = rec.written
        /\ head.header = rec.header /\ head.encoded = rec.encoded /\ head.body = rec.body
        /\ head.started = rec.started /\ head.buffer = rec.buffer /\ head.type = rec.type
        /\ head.given = rec.given /\ head.early = rec.early
    BY <2>1 DEF ReqRecord
  <2>3. /\ Plain(r, head) <=> Plain(r, rec)
        /\ Held(head) <=> Held(rec)
        /\ Zipped(r, head) <=> Zipped(r, rec)
    BY <2>2 DEF Plain, Held, Zipped
  <2> QED
    BY <2>2, <2>3 DEF Good, head
<1> QED
  BY <1>1, <1>2

\* A writer that is on its way in writes to the request that has it.
LEMMA WriterIsOwn ==
  ASSUME HttpInv, AnswerInv, ~panicked, NEW r \in Requests, req[r].way = "in",
         req[r].writer # Nobody
  PROVE  attached[req[r].writer] = r
BY SoundPlace DEF Sound, Fits

LEMMA AnswerPasses ==
  ASSUME HttpInv, AnswerInv, ~panicked, NEW r \in Requests, NEW m, C!Turn(r, m), C!Pass(r),
         UNCHANGED <<chain, attached, pool>>
  PROVE  AnswerInv'
<1> DEFINE rec == C!Inward(req[r])
<1>1. /\ req[r].way = "in" /\ req[r].at <= Len(chain) /\ rec \in ReqRecord
      /\ rec.way = req[r].way /\ rec.at = req[r].at + 1 /\ Alike(rec, req[r])
      /\ req' = [req EXCEPT ![r] = rec]
  BY InFields, Place, AlikeMoves DEF C!Pass, C!Turn
<1> HIDE DEF rec
<1> QED
  BY <1>1, AnswerGoesIn

\* The page of a middleware that stops a request, written through its own writer.
LEMMA AnswerAborts ==
  ASSUME HttpInv, AnswerInv, ~panicked, NEW r \in Requests, NEW m \in C!Gates, C!Turn(r, m),
         NEW s \in C!Statuses, s # 204, C!Abort(r, s), UNCHANGED C!Shared
  PROVE  AnswerInv'
<1> DEFINE head == C!WriteHeader(req[r], s)
           out == C!Outward(head, "out")
<1>1. /\ req[r].way = "in" /\ req[r].at <= Len(chain) /\ chain[req[r].at] \in C!Gates
      /\ req[r] \in ReqRecord /\ HttpTypes /\ UNCHANGED <<chain, attached, pool>>
  BY Place DEF C!Turn, C!Shared
<1>2. Untouched(req[r])
  BY <1>1, SoundPlace DEF Sound
<1>3. Good(r, req[r])
  BY <1>2, UntouchedIsGood
<1>4. /\ head \in ReqRecord /\ head.at = req[r].at /\ head.writer = req[r].writer
      /\ head.type = "unknown" /\ Good(r, head)
  BY <1>1, <1>2, <1>3, WriteHeaderKeeps, WriteHeaderGood DEF Untouched
<1> HIDE DEF head
<1>5. /\ out \in ReqRecord /\ out.at = C!Outside(req[r].at) /\ out.way = "out"
      /\ out.writer = req[r].writer /\ Alike(out, head)
  BY <1>4, OutFields, AlikeMoves
<1>6. out.type = "unknown" /\ Good(r, out)
  BY <1>4, <1>5, AlikeIs DEF Alike
<1>7. req' = C!Written(r, out, <<"page">>)
  BY DEF C!Abort, head
<1> HIDE DEF out
<1>8. <<"page">> \in Seq(Pieces) /\ \A i \in 1..Len(<<"page">>) : <<"page">>[i] # "end"
  <2>1. "page" \in Pieces /\ "page" # "end"
    BY DEF Pieces
  <2> QED
    BY <2>1
<1>9. out.writer # Nobody => attached[out.writer] = r
  BY <1>1, <1>5, WriterIsOwn
<1>10. PICK new \in ReqRecord :
          /\ req' = [req EXCEPT ![r] = new] /\ Same(new, out) /\ new.type = out.type
          /\ (out.type # "excluded" /\ Good(r, out) => Good(r, new))
  BY <1>1, <1>5, <1>7, <1>8, <1>9, WritesSound
<1>11. /\ Good(r, new) /\ new.way = "out" /\ new.at = C!Outside(req[r].at)
       /\ new.writer = req[r].writer
  BY <1>5, <1>6, <1>10 DEF Same
<1> QED
  BY <1>1, <1>10, <1>11, AnswerTurns

LEMMA AnswerGates ==
  ASSUME HttpInv, AnswerInv, ~panicked, NEW r \in Requests,
         \/ C!Security(r) \/ C!IPFilter(r) \/ C!RequireRoles(r) \/ C!RateLimit(r)
         \/ C!Decompress(r) \/ C!Recovery(r) \/ C!Logger(r)
  PROVE  AnswerInv'
<1>1. {"ipfilter", "auth", "roles", "limit", "decompress"} \subseteq C!Gates
  BY DEF C!Gates
<1>2. {400, 401, 403, 429} \subseteq C!Statuses \ {204}
  BY DEF C!Statuses
<1>3. PICK m \in {"security", "ipfilter", "roles", "limit", "decompress", "recovery", "logger"} :
         /\ C!Turn(r, m) /\ UNCHANGED C!Shared
         /\ \/ C!Pass(r)
            \/ m \in C!Gates /\ \E s \in C!Statuses \ {204} : C!Abort(r, s)
  BY <1>1, <1>2 DEF C!Security, C!IPFilter, C!RequireRoles, C!RateLimit, C!Decompress, C!Recovery,
                    C!Logger
<1>4. UNCHANGED <<chain, attached, pool>>
  BY <1>3 DEF C!Shared
<1> QED
  BY <1>3, <1>4, AnswerPasses, AnswerAborts

\* A preflight has nothing to read.
LEMMA AnswerCORS ==
  ASSUME HttpInv, AnswerInv, ~panicked, NEW r \in Requests, C!CORS(r)
  PROVE  AnswerInv'
<1>1. /\ C!Turn(r, "cors") /\ UNCHANGED <<chain, attached, pool>> /\ "cors" \in C!Gates
      /\ req[r].way = "in" /\ req[r].at <= Len(chain) /\ chain[req[r].at] = "cors"
      /\ req[r] \in ReqRecord
  BY Place DEF C!CORS, C!Gates, C!Shared, C!Turn
<1>2. CASE req' = [req EXCEPT ![r] = C!Outward(C!Send(C!WriteHeader(req[r], 204), <<>>), "out")]
  <2> DEFINE head == C!WriteHeader(req[r], 204)
             rec == C!Send(head, <<>>)
             out == C!Outward(rec, "out")
  <2>1. req[r].given = 0
    BY <1>1, SoundPlace DEF Sound, Untouched
  <2>2. head \in ReqRecord /\ head.at = req[r].at /\ head.writer = req[r].writer /\ head.given = 0
    <3>1. 204 \in C!Statuses
      BY DEF C!Statuses
    <3>2. head.given = req[r].given
      BY <1>1 DEF C!WriteHeader, ReqRecord
    <3> QED
      BY <1>1, <2>1, <3>1, <3>2, WriteHeaderKeeps
  <2> HIDE DEF head
  <2>3. /\ rec \in ReqRecord /\ Same(rec, head) /\ rec.given = 0
        /\ rec.at = req[r].at /\ rec.writer = req[r].writer
    <3>1. <<>> \in Seq(Frame)
      OBVIOUS
    <3>2. rec \in ReqRecord /\ Same(rec, head) /\ Sent(head, <<>>, rec)
      BY <2>2, <3>1, SendIs
    <3> QED
      BY <2>2, <3>2 DEF Same, Sent
  <2> HIDE DEF rec
  <2>4. /\ out \in ReqRecord /\ out.at = C!Outside(req[r].at) /\ out.way = "out"
        /\ out.writer = req[r].writer /\ ~(out.given > 0)
    BY <2>3, OutFields, AlikeMoves DEF Alike
  <2>5. req' = [req EXCEPT ![r] = out]
    BY <1>2 DEF rec, head
  <2> HIDE DEF out
  <2> QED
    BY <1>1, <2>4, <2>5, AnswerTurns
<1> QED
  BY <1>1, <1>2, AnswerPasses DEF C!CORS

LEMMA AnswerBearerAuth ==
  ASSUME HttpInv, AnswerInv, ~panicked, NEW r \in Requests, C!BearerAuth(r)
  PROVE  AnswerInv'
<1>1. /\ C!Turn(r, "auth") /\ req[r].way = "in" /\ req[r].at <= Len(chain)
      /\ UNCHANGED C!Shared /\ "auth" \in C!Gates
      /\ 401 \in C!Statuses /\ 401 # 204 /\ UNCHANGED <<chain, attached, pool>>
  BY DEF C!BearerAuth, C!Gates, C!Statuses, C!Shared, C!Turn
<1>2. ASSUME NEW user \in C!AuthInfo,
             req' = [req EXCEPT ![r] = [C!Inward(req[r]) EXCEPT !.user = user]]
      PROVE  AnswerInv'
  <2> DEFINE rec == [C!Inward(req[r]) EXCEPT !.user = user]
  <2>1. /\ C!Inward(req[r]) \in ReqRecord /\ C!Inward(req[r]).at = req[r].at + 1
        /\ C!Inward(req[r]).way = "in" /\ Alike(C!Inward(req[r]), req[r])
    BY <1>1, InFields, Place, AlikeMoves
  <2>2. rec \in ReqRecord /\ rec.at = req[r].at + 1 /\ rec.way = "in"
    BY <2>1 DEF ReqRecord
  <2>3. Alike(rec, req[r])
    BY <2>1 DEF ReqRecord, Alike
  <2>4. req' = [req EXCEPT ![r] = rec]
    BY <1>2
  <2> HIDE DEF rec
  <2>5. UNCHANGED <<chain, attached, pool>>
    BY <1>1
  <2>6. req[r].way = "in" /\ req[r].at <= Len(chain)
    BY <1>1
  <2> QED
    BY <2>2, <2>3, <2>4, <2>5, <2>6, AnswerGoesIn
<1> QED
  BY <1>1, <1>2, AnswerAborts DEF C!BearerAuth

\* A step that leaves everything of the request the invariant reads.
LEMMA AnswerStays ==
  ASSUME HttpInv, AnswerInv, ~panicked, NEW r \in Requests, NEW rec \in ReqRecord,
         rec.way = req[r].way, rec.at = req[r].at, Alike(rec, req[r]),
         req' = [req EXCEPT ![r] = rec], UNCHANGED <<chain, attached, pool>>
  PROVE  AnswerInv'
<1>1. Sound(r, req[r]) /\ rec.writer = req[r].writer /\ rec.given = req[r].given
      /\ rec.type = req[r].type
  BY SoundPlace DEF Alike
<1>2. Opened(rec) <=> Opened(req[r])
  BY <1>1 DEF Opened
<1>3. /\ Untouched(rec) <=> Untouched(req[r])
      /\ Good(r, rec) <=> Good(r, req[r])
      /\ Readable(r, rec) <=> Readable(r, req[r])
      /\ Promised(rec) <=> Promised(req[r])
  BY AlikeIs
<1>4. Sound(r, rec)
  BY <1>1, <1>2, <1>3 DEF Sound
<1> QED
  BY <1>1, <1>2, <1>4, AnswerPlain

\* Past a middleware that logs and counts.
LEMMA AnswerLeaves ==
  ASSUME HttpInv, AnswerInv, ~panicked, NEW r \in Requests, NEW rec \in ReqRecord,
         rec.at = req[r].at, Alike(rec, req[r]),
         req[r].way = "out", req[r].at > 0, chain[req[r].at] # "gzip" \/ req[r].writer = Nobody,
         req' = [req EXCEPT ![r] = C!Outward(rec, "out")], UNCHANGED <<chain, attached, pool>>
  PROVE  AnswerInv'
<1> DEFINE out == C!Outward(rec, "out")
<1>1. /\ out \in ReqRecord /\ out.at = C!Outside(req[r].at) /\ out.way = "out"
      /\ Alike(out, rec) /\ req' = [req EXCEPT ![r] = out]
  BY OutFields, AlikeMoves
<1> HIDE DEF out
<1>2. Alike(out, req[r])
  BY <1>1 DEF Alike
<1>3. out.writer = req[r].writer
  BY <1>2 DEF Alike
<1> QED
  BY <1>1, <1>2, <1>3, AnswerGoesOut

LEMMA AnswerNoPanic ==
  ASSUME HttpInv, AnswerInv, ~panicked, NEW r \in Requests, C!NoPanic(r)
  PROVE  AnswerInv'
<1>1. /\ req[r].way = "out" /\ req[r].at > 0 /\ chain[req[r].at] = "recovery"
      /\ req' = [req EXCEPT ![r] = C!Outward(req[r], "out")] /\ UNCHANGED <<chain, attached, pool>>
  BY DEF C!NoPanic, C!Back, C!Shared
<1>2. req[r] \in ReqRecord /\ Alike(req[r], req[r])
  BY Place DEF Alike
<1> QED
  BY <1>1, <1>2, AnswerLeaves

LEMMA AnswerLog ==
  ASSUME HttpInv, AnswerInv, ~panicked, NEW r \in Requests, C!Log(r)
  PROVE  AnswerInv'
<1>1. /\ req[r].way = "out" /\ req[r].at > 0 /\ chain[req[r].at] = "logger"
      /\ UNCHANGED <<chain, attached, pool>> /\ req[r] \in ReqRecord
  BY SoundPlace, Place DEF C!Log, C!Back, C!Shared
<1>2. PICK rec \in {C!LogLine(req[r]), [req[r] EXCEPT !.skipped = @ \cup {"logger"}]} :
         req' = [req EXCEPT ![r] = C!Outward(rec, "out")]
  BY <1>1 DEF C!Log, C!Back
<1>3. /\ req[r].lines \cup {[kind |-> "request", status |-> req[r].status]} \in SUBSET HttpLine
      /\ req[r].skipped \cup {"logger"} \in SUBSET {"metrics", "logger"}
  BY <1>1 DEF ReqRecord, HttpLine
<1>4. rec \in ReqRecord /\ rec.at = req[r].at /\ Alike(rec, req[r])
  <2> DEFINE lines == req[r].lines \cup {[kind |-> "request", status |-> req[r].status]}
             skipped == req[r].skipped \cup {"logger"}
  <2>1. rec = [req[r] EXCEPT !.lines = lines] \/ rec = [req[r] EXCEPT !.skipped = skipped]
    BY <1>2 DEF C!LogLine
  <2>2. lines \in SUBSET HttpLine /\ skipped \in SUBSET {"metrics", "logger"}
    BY <1>3
  <2> HIDE DEF lines, skipped
  <2>3. CASE rec = [req[r] EXCEPT !.lines = lines]
    BY <1>1, <2>2, <2>3 DEF ReqRecord, Alike
  <2>4. CASE rec = [req[r] EXCEPT !.skipped = skipped]
    BY <1>1, <2>2, <2>4 DEF ReqRecord, Alike
  <2> QED
    BY <2>1, <2>3, <2>4
<1> QED
  BY <1>1, <1>2, <1>4, AnswerLeaves

LEMMA AnswerMetricsIn ==
  ASSUME HttpInv, AnswerInv, ~panicked, NEW r \in Requests, C!MetricsIn(r)
  PROVE  AnswerInv'
<1>1. /\ C!Turn(r, "metrics") /\ UNCHANGED <<chain, attached, pool>>
      /\ req[r].way = "in" /\ req[r].at <= Len(chain)
  BY DEF C!MetricsIn, C!Turn
<1>2. CASE C!Skip(r, "metrics")
  <2> DEFINE rec == [C!Inward(req[r]) EXCEPT !.skipped = @ \cup {"metrics"}]
  <2>1. /\ C!Inward(req[r]) \in ReqRecord /\ C!Inward(req[r]).at = req[r].at + 1
        /\ C!Inward(req[r]).way = "in" /\ Alike(C!Inward(req[r]), req[r])
    BY <1>1, InFields, Place, AlikeMoves
  <2>2. rec \in ReqRecord /\ rec.at = req[r].at + 1 /\ rec.way = "in"
    BY <2>1 DEF ReqRecord
  <2>3. Alike(rec, req[r])
    BY <2>1 DEF ReqRecord, Alike
  <2>4. req' = [req EXCEPT ![r] = rec]
    BY <1>2 DEF C!Skip
  <2> HIDE DEF rec
  <2> QED
    BY <1>1, <2>2, <2>3, <2>4, AnswerGoesIn
<1>3. CASE C!Pass(r)
  BY <1>1, <1>3, AnswerPasses
<1> QED
  BY <1>2, <1>3 DEF C!MetricsIn

LEMMA AnswerRecord ==
  ASSUME HttpInv, AnswerInv, ~panicked, NEW r \in Requests, C!Record(r)
  PROVE  AnswerInv'
<1> DEFINE rec == [req[r] EXCEPT !.recorded = TRUE]
<1>1. /\ req' = [req EXCEPT ![r] = rec] /\ UNCHANGED <<chain, attached, pool>>
      /\ req[r] \in ReqRecord
  BY Place DEF C!Record
<1>2. rec \in ReqRecord /\ rec.way = req[r].way /\ rec.at = req[r].at /\ Alike(rec, req[r])
  BY <1>1 DEF ReqRecord, Alike
<1> HIDE DEF rec
<1> QED
  BY <1>1, <1>2, AnswerStays

LEMMA AnswerMetricsOut ==
  ASSUME HttpInv, AnswerInv, ~panicked, NEW r \in Requests, C!MetricsOut(r)
  PROVE  AnswerInv'
<1> DEFINE out == C!Outward(req[r], "out")
           rec == [out EXCEPT !.recorded = FALSE]
<1>1. /\ req[r].way = "out" /\ req[r].at > 0 /\ chain[req[r].at] = "metrics"
      /\ UNCHANGED <<chain, attached, pool>> /\ req[r] \in ReqRecord
  BY SoundPlace, Place DEF C!MetricsOut, C!Back
<1>2. req' = [req EXCEPT ![r] = rec]
  BY <1>1 DEF C!MetricsOut
<1>3. /\ out \in ReqRecord /\ out.at = C!Outside(req[r].at) /\ out.way = "out"
      /\ Alike(out, req[r])
  BY <1>1, OutFields, AlikeMoves
<1> HIDE DEF out
<1>4. /\ rec \in ReqRecord /\ rec.at = C!Outside(req[r].at) /\ rec.way = "out"
      /\ Alike(rec, req[r])
  BY <1>3 DEF ReqRecord, Alike
<1> HIDE DEF rec
<1> QED
  BY <1>1, <1>2, <1>4, AnswerGoesOut

LEMMA AnswerGzip ==
  ASSUME HttpInv, AnswerInv, ~panicked, NEW r \in Requests, C!Gzip(r)
  PROVE  AnswerInv'
<1>1. /\ C!Turn(r, "gzip") /\ req[r].way = "in" /\ req[r].at <= Len(chain)
      /\ chain[req[r].at] = "gzip" /\ chain' = chain
      /\ req[r] \in ReqRecord /\ HttpTypes
  BY Place DEF C!Gzip, C!Turn
<1>2. CASE C!Pass(r) /\ UNCHANGED <<pool, attached>>
  BY <1>1, <1>2, AnswerPasses
<1>3. ASSUME NEW w \in pool \cup {C!NewWriter}, pool' = pool \ {w},
             attached' = [attached EXCEPT ![w] = r],
             req' = [req EXCEPT ![r] = [C!Inward(req[r]) EXCEPT !.writer = w]]
      PROVE  AnswerInv'
  <2> DEFINE rec == [C!Inward(req[r]) EXCEPT !.writer = w]
  <2>1. /\ req[r].at \in DOMAIN chain /\ req[r].at \in Nat /\ req[r].at + 1 > req[r].at
        /\ req[r].writer = Nobody /\ Untouched(req[r])
    <3>1. /\ req[r].at \in 1..Len(chain) /\ DOMAIN chain = 1..Len(chain)
          /\ \A k \in DOMAIN chain : SeenOK(req[r], k) /\ req[r].at <= req[r].at
      BY <1>1, Place, Chain DEF ReqOK
    <3> QED
      BY <1>1, <3>1, SoundPlace DEF SeenOK, Sound
  <2>2. w \in Writers /\ w # Nobody
    BY <1>1, <1>3, <2>1, WriterIsLeft, RequestsAssumption DEF HttpTypes
  <2>3. /\ C!Inward(req[r]) \in ReqRecord /\ C!Inward(req[r]).at = req[r].at + 1
        /\ C!Inward(req[r]).way = "in" /\ Alike(C!Inward(req[r]), req[r])
    BY <1>1, InFields, AlikeMoves
  <2>4. Untouched(C!Inward(req[r]))
    BY <2>1, <2>3, AlikeIs
  <2>5. /\ rec \in ReqRecord /\ rec.at = req[r].at + 1 /\ rec.way = "in" /\ rec.writer = w
    BY <2>2, <2>3 DEF ReqRecord
  <2>6. Untouched(rec)
    BY <2>3, <2>4 DEF ReqRecord, Untouched
  <2>7. req' = [req EXCEPT ![r] = rec]
    BY <1>3
  <2> HIDE DEF rec
  <2>8. Opened(rec)
    BY <1>1, <2>1, <2>2, <2>5 DEF Opened
  <2>9. Sound(r, rec)
    BY <2>5, <2>6, <2>8, UntouchedIsGood DEF Sound, Untouched
  <2>10. Fits(r, rec, attached', pool')
    BY <1>1, <1>3, <2>2, <2>5 DEF Fits, HttpTypes
  <2>11. ASSUME NEW q \in Requests \ {r}, Opened(req[q])
         PROVE  attached'[req[q].writer] = attached[req[q].writer] /\ req[q].writer \notin pool'
    <3>1. req[q].writer \notin pool
      BY <2>11, SoundPlace DEF Fits
    <3>2. req[q].writer # w
      BY <1>3, <2>1, <3>1, WriterIsLeft
    <3>3. req[q].writer \in Writers
      <4>1. req[q].writer \in Writers \cup {Nobody} /\ req[q].writer # Nobody
        BY <1>1, <2>11 DEF HttpTypes, ReqRecord, Opened
      <4> QED
        BY <4>1
    <3> QED
      BY <1>1, <1>3, <3>1, <3>2, <3>3 DEF HttpTypes
  <2> QED
    BY <1>1, <2>5, <2>7, <2>9, <2>10, <2>11, AnswerStep
<1> QED
  BY <1>2, <1>3 DEF C!Gzip

\* What is left in the buffer, sent as it is, and the end of what was compressed.
LEMMA ClosedIsReadable ==
  ASSUME NEW r \in Requests, NEW rec \in ReqRecord, rec.writer # Nobody, Good(r, rec)
  PROVE  /\ ~rec.started => Readable(r, C!Send(rec, C!Frames(r, rec.buffer, FALSE)))
         /\ rec.started => Readable(r, C!Send(rec, C!Frames(r, <<"end">>, TRUE)))
<1>1. ASSUME ~rec.started PROVE Readable(r, C!Send(rec, C!Frames(r, rec.buffer, FALSE)))
  <2> DEFINE frames == C!Frames(r, rec.buffer, FALSE)
             new == C!Send(rec, frames)
  <2>1. /\ rec.status # 204 /\ Held(rec) /\ rec.buffer \in Seq(Pieces)
        /\ Len(rec.buffer) = rec.given /\ \A i \in 1..Len(rec.buffer) : rec.buffer[i] # "end"
    BY <1>1 DEF Good, Zipped, Held, ReqRecord
  <2>2. frames \in Seq(Frame)
    BY <2>1, FramesType
  <2>3. <<>> \in Seq(Frame) /\ Len(<<>>) = 0 /\ 1..0 = {}
    OBVIOUS
  <2>4. Own(r, <<>>, Len(<<>>), FALSE)
    BY <2>3 DEF Own
  <2>5. /\ Len(<<>> \o frames) = Len(<<>>) + Len(rec.buffer)
        /\ Own(r, <<>> \o frames, Len(<<>> \o frames), FALSE)
    BY <2>1, <2>3, <2>4, OwnGrows
  <2> HIDE DEF frames
  <2>6. Sent(rec, frames, new)
    BY <2>2, SendIs
  <2> HIDE DEF new
  <2>7. /\ ~new.encoded /\ ~new.header /\ new.given = rec.given /\ new.body = <<>> \o frames
    BY <2>1, <2>6 DEF Sent, Held
  <2>8. Len(<<>> \o frames) = rec.given /\ Own(r, <<>> \o frames, rec.given, FALSE)
    <3>1. Len(<<>>) + Len(rec.buffer) = Len(rec.buffer)
      BY <2>1, <2>3
    <3> QED
      BY Zenon, <2>1, <2>5, <3>1
  <2>9. Plain(r, new)
    BY Zenon, <2>7, <2>8 DEF Plain
  <2> QED
    BY <2>9 DEF Readable, new, frames
<1>2. ASSUME rec.started PROVE Readable(r, C!Send(rec, C!Frames(r, <<"end">>, TRUE)))
  <2> DEFINE frames == C!Frames(r, <<"end">>, TRUE)
             new == C!Send(rec, frames)
             all == rec.body \o frames
             n == rec.given
  <2>1. /\ rec.status # 204 /\ Zipped(r, rec) /\ rec.body \in Seq(Frame) /\ n \in Nat
        /\ Len(rec.body) = n /\ Own(r, rec.body, n, TRUE)
    BY <1>2 DEF Good, Held, Zipped, ReqRecord
  <2>2. <<"end">> \in Seq(Pieces) /\ Len(<<"end">>) = 1 /\ <<"end">>[1] = "end"
    BY DEF Pieces
  <2>3. /\ frames \in Seq(Frame) /\ Len(frames) = 1
        /\ frames[1] = [of |-> r, what |-> "end", zipped |-> TRUE]
    <3>1. 1 \in 1..Len(<<"end">>)
      BY <2>2
    <3> QED
      BY <2>2, <3>1, FramesAre
  <2> HIDE DEF frames
  <2>4. Sent(rec, frames, new)
    BY <2>3, SendIs
  <2> HIDE DEF new
  <2>5. rec.written /\ rec.encoded
    BY <2>1 DEF Zipped
  <2>6. new.written /\ new.encoded /\ new.given = n /\ new.body = all
    BY <2>1, <2>4, <2>5 DEF Sent
  <2>7. Len(all) = n + 1 /\ all[n + 1] = frames[1] /\ \A i \in 1..n : all[i] = rec.body[i]
    <3>0. rec.body \in Seq(Frame) /\ frames \in Seq(Frame)
      BY <2>1, <2>3
    <3>1. /\ Len(all) = Len(rec.body) + Len(frames)
          /\ \A i \in 1..Len(rec.body) : all[i] = rec.body[i]
          /\ \A i \in 1..Len(all) : i > Len(rec.body) => all[i] = frames[i - Len(rec.body)]
      BY <3>0
    <3> HIDE DEF all, n
    <3>2. Len(all) = n + 1 /\ n + 1 \in 1..Len(all) /\ n + 1 > n /\ (n + 1) - n = 1
      BY <2>1, <2>3, <3>1
    <3>3. all[n + 1] = frames[(n + 1) - n]
      BY <2>1, <3>1, <3>2
    <3> QED
      BY <2>1, <3>1, <3>2, <3>3
  <2> HIDE DEF all, n
  <2>8. Own(r, all, n, TRUE)
    BY <2>1, <2>7 DEF Own
  <2>9. all[n + 1].of = r /\ all[n + 1].zipped = TRUE /\ all[n + 1].what = "end"
    BY <2>3, <2>7
  <2>10. Ended(r, new)
    BY Zenon, <2>6, <2>7, <2>8, <2>9 DEF Ended
  <2> QED
    BY <2>10 DEF Readable, new, frames
<1> QED
  BY <1>1, <1>2

LEMMA AnswerClose ==
  ASSUME HttpInv, AnswerInv, ~panicked, NEW r \in Requests, C!Close(r)
  PROVE  AnswerInv'
<1> DEFINE out == C!Outward(req[r], "out")
           w == req[r].writer
<1>1. /\ req[r].way = "out" /\ req[r].at > 0 /\ chain[req[r].at] = "gzip" /\ chain' = chain
      /\ req[r] \in ReqRecord /\ ReqOK(req[r]) /\ HttpTypes
  BY SoundPlace, Place DEF C!Close, C!Back
<1>2. CASE w = Nobody
  <2>1. req' = [req EXCEPT ![r] = C!Outward(req[r], "out")] /\ UNCHANGED <<chain, attached, pool>>
    BY <1>1, <1>2 DEF C!Close
  <2>2. Alike(req[r], req[r])
    BY DEF Alike
  <2> QED
    BY <1>1, <1>2, <2>1, <2>2, AnswerLeaves
<1>3. CASE w # Nobody
  <2>1. /\ out \in ReqRecord /\ out.at = C!Outside(req[r].at) /\ out.way = "out"
        /\ Alike(out, req[r])
    BY <1>1, OutFields, AlikeMoves
  <2>2. /\ req[r].at \in 1..Len(chain) /\ req[r].at \in 0..(Len(chain) + 1) /\ Len(chain) \in Nat
        /\ DOMAIN chain = 1..Len(chain) /\ chain \in Chains
    BY <1>1, Place, Chain DEF ReqOK
  <2>3. /\ C!Outside(req[r].at) < req[r].at /\ C!Outside(req[r].at) \in Nat
    BY <2>2, OutsideIsNext
  <2>4. Opened(req[r])
    BY <1>1, <1>3, <2>2 DEF Opened
  <2>5. attached[w] = r /\ w \in Writers /\ Sound(r, req[r])
    <3>1. w \in Writers \cup {Nobody}
      BY <1>1 DEF ReqRecord
    <3> QED
      BY <1>3, <2>4, <3>1, SoundPlace DEF Fits
  <2>6. PICK frames \in Seq(Frame) :
           /\ req' = [req EXCEPT ![r] = C!Send(out, frames)]
           /\ Good(r, out) /\ out.given > 0 => Readable(r, C!Send(out, frames))
    <3>1. /\ out.writer = w /\ out.writer # Nobody /\ out.started = req[r].started
          /\ out.buffer = req[r].buffer
      BY <1>3, <2>1 DEF Alike
    <3>2. out.buffer \in Seq(Pieces) /\ <<"end">> \in Seq(Pieces)
      <4>1. "end" \in Pieces
        BY DEF Pieces
      <4> QED
        BY <2>1, <4>1 DEF ReqRecord
    <3>3. CASE ~req[r].started /\ req[r].buffer # <<>>
      <4>1. req' = [req EXCEPT ![r] = C!Send(out, C!Frames(r, out.buffer, FALSE))]
        BY <1>1, <1>3, <3>1, <3>3 DEF C!Close
      <4>2. C!Frames(r, out.buffer, FALSE) \in Seq(Frame)
        BY <3>2, FramesType
      <4> HIDE DEF out
      <4>3. Good(r, out) => Readable(r, C!Send(out, C!Frames(r, out.buffer, FALSE)))
        BY <2>1, <3>1, <3>3, ClosedIsReadable
      <4> QED
        BY <4>1, <4>2, <4>3
    <3>4. CASE ~(~req[r].started /\ req[r].buffer # <<>>)
      <4>1. req' = [req EXCEPT ![r] = C!Send(out, C!Frames(r, <<"end">>, TRUE))]
        BY <1>1, <1>3, <3>4 DEF C!Close
      <4>2. C!Frames(r, <<"end">>, TRUE) \in Seq(Frame)
        BY <3>2, FramesType
      <4> HIDE DEF out
      <4>3. Good(r, out) /\ out.given > 0 => Readable(r, C!Send(out, C!Frames(r, <<"end">>, TRUE)))
        <5>1. ASSUME Good(r, out), out.given > 0, ~out.started PROVE FALSE
          <6>1. out.buffer = <<>> /\ Len(out.buffer) = out.given
            BY <3>1, <3>4, <5>1 DEF Good, Held, Zipped
          <6>2. Len(<<>>) = 0 /\ ~(0 > 0)
            OBVIOUS
          <6> QED
            BY <5>1, <6>1, <6>2
        <5> QED
          BY <2>1, <3>1, <5>1, ClosedIsReadable
      <4> QED
        BY <4>1, <4>2, <4>3
    <3> QED
      BY <3>3, <3>4
  <2> DEFINE rec == C!Send(out, frames)
  <2> HIDE DEF out
  <2>7. /\ rec \in ReqRecord /\ rec.way = "out" /\ rec.at = C!Outside(req[r].at)
        /\ rec.given = out.given /\ rec.type = out.type /\ rec.early = out.early
    <3>1. rec \in ReqRecord /\ Same(rec, out) /\ Sent(out, frames, rec)
      BY <2>1, <2>6, SendIs
    <3> HIDE DEF rec
    <3> QED
      BY <2>1, <3>1 DEF Same, Sent
  <2>8. req' = [req EXCEPT ![r] = rec] /\ (Good(r, out) /\ out.given > 0 => Readable(r, rec))
    BY <2>6
  <2> HIDE DEF rec
  <2>9. ~Opened(rec)
    <3>1. \A k \in DOMAIN chain : chain[k] = "gzip" => k = req[r].at
      BY <1>1, <2>2, Chain
    <3> QED
      BY <2>2, <2>3, <2>7, <3>1 DEF Opened
  <2>10. Sound(r, rec)
    <3>1. ASSUME Promised(rec), rec.given > 0 PROVE Readable(r, rec)
      <4>1. Promised(req[r]) /\ req[r].given > 0
        BY <2>1, <2>7, <3>1 DEF Promised, Alike
      <4>2. Good(r, req[r])
        BY <1>1, <2>4, <2>5, <4>1 DEF Sound
      <4>3. Good(r, out)
        BY <2>1, <4>2, AlikeIs
      <4> QED
        BY <2>7, <2>8, <3>1, <4>3
    <3> QED
      BY <2>7, <2>9, <3>1 DEF Sound
  <2>11. pool' \subseteq pool \cup {w} /\ \A v \in Writers \ {w} : attached'[v] = attached[v]
    <3>1. \/ UNCHANGED <<pool, attached>>
          \/ attached' = [attached EXCEPT ![w] = Nobody] /\ pool' = pool \cup {w}
      BY <1>3 DEF C!Close
    <3> QED
      BY <1>1, <3>1 DEF HttpTypes
  <2>12. ASSUME NEW q \in Requests \ {r}, Opened(req[q])
         PROVE  attached'[req[q].writer] = attached[req[q].writer] /\ req[q].writer \notin pool'
    <3>1. attached[req[q].writer] = q /\ req[q].writer \notin pool
      BY <2>12, SoundPlace DEF Fits
    <3>2. req[q].writer # w
      BY <2>5, <3>1
    <3>3. req[q].writer \in Writers
      <4>1. req[q].writer \in Writers \cup {Nobody} /\ req[q].writer # Nobody
        BY <1>1, <2>12 DEF HttpTypes, ReqRecord, Opened
      <4> QED
        BY <4>1
    <3> QED
      BY <2>11, <3>1, <3>2, <3>3
  <2>13. Fits(r, rec, attached', pool')
    BY <2>9 DEF Fits
  <2> QED
    BY <1>1, <2>7, <2>8, <2>10, <2>12, <2>13, AnswerStep
<1> QED
  BY <1>2, <1>3

\* The handler stays where it is, and what it has written can be read.
LEMMA AnswerHandles ==
  ASSUME HttpInv, AnswerInv, ~panicked, NEW r \in Requests, C!Handling(r), NEW rec \in ReqRecord,
         rec.way = "in", rec.at = req[r].at, rec.writer = req[r].writer,
         rec.given = 0 => rec.type = "unknown", Promised(rec) => Good(r, rec),
         req' = [req EXCEPT ![r] = rec], UNCHANGED <<chain, attached, pool>>
  PROVE  AnswerInv'
<1>1. /\ req[r].way = "in" /\ req[r].at > Len(chain) /\ Sound(r, req[r])
      /\ req[r].at \in Nat /\ Len(chain) \in Nat
  BY SoundPlace, Place, Chain DEF C!Handling
<1>2. Opened(rec) <=> Opened(req[r])
  BY <1>1 DEF Opened
<1>3. ~(rec.at <= Len(chain))
  BY <1>1
<1>4. Sound(r, rec)
  BY <1>1, <1>2, <1>3 DEF Sound
<1> QED
  BY <1>2, <1>4, AnswerPlain

LEMMA AnswerHandlerWrites ==
  ASSUME HttpInv, AnswerInv, ~panicked, NEW r \in Requests, C!HandlerWrites(r)
  PROVE  AnswerInv'
<1>1. /\ C!Handling(r) /\ UNCHANGED <<chain, attached, pool>> /\ req[r] \in ReqRecord /\ HttpTypes
      /\ req[r].way = "in" /\ Sound(r, req[r])
  BY Place, SoundPlace DEF C!HandlerWrites, C!Handling, C!Shared
<1>2. <<"data">> \in Seq(Pieces) /\ Len(<<"data">>) = 1
      /\ \A i \in 1..Len(<<"data">>) : <<"data">>[i] # "end"
  <2>1. "data" \in Pieces /\ "data" # "end"
    BY DEF Pieces
  <2> QED
    BY <2>1
<1>3. req[r].writer # Nobody => attached[req[r].writer] = r
  BY <1>1, WriterIsOwn
<1>4. ASSUME NEW rec \in ReqRecord, rec.way = "in", rec.at = req[r].at,
             rec.writer = req[r].writer, Promised(rec) => Good(r, rec),
             req' = C!Written(r, rec, <<"data">>)
      PROVE  AnswerInv'
  <2> DEFINE pieces == <<"data">>
  <2>0. /\ pieces \in Seq(Pieces) /\ \A i \in 1..Len(pieces) : pieces[i] # "end"
        /\ req' = C!Written(r, rec, pieces) /\ HttpTypes
        /\ rec.writer # Nobody => attached[rec.writer] = r
    BY <1>1, <1>2, <1>3, <1>4
  <2> HIDE DEF pieces
  <2>1. PICK new \in ReqRecord :
           /\ req' = [req EXCEPT ![r] = new] /\ Same(new, rec) /\ new.given = rec.given + Len(pieces)
           /\ new.type = rec.type /\ new.early = rec.early
           /\ (rec.type # "excluded" /\ Good(r, rec) => Good(r, new))
    BY <2>0, WritesSound
  <2>2. new.given # 0
    BY <1>2, <2>1 DEF ReqRecord, pieces
  <2>3. Promised(new) => Good(r, new)
    BY <1>4, <2>1 DEF Promised
  <2>4. new.way = "in" /\ new.at = req[r].at /\ new.writer = req[r].writer
    BY <1>4, <2>1 DEF Same
  <2> QED
    BY <1>1, <2>1, <2>2, <2>3, <2>4, AnswerHandles
<1>5. CASE req[r].given > 0
  <2>1. req' = C!Written(r, req[r], <<"data">>)
    BY <1>5 DEF C!HandlerWrites
  <2>2. Promised(req[r]) => Good(r, req[r])
    BY <1>1 DEF Sound
  <2> QED
    BY <1>1, <1>4, <2>1, <2>2
<1>6. CASE ~(req[r].given > 0)
  <2>1. PICK s \in {200, 500},
             type \in {"included"} \cup (IF req[r].writer = Nobody THEN {} ELSE {"excluded"}) :
          req' = C!Written(r, [C!WriteHeader(req[r], s) EXCEPT !.type = type], <<"data">>)
    BY <1>6 DEF C!HandlerWrites
  <2> DEFINE head == C!WriteHeader(req[r], s)
             rec == [head EXCEPT !.type = type]
  <2>2. type \in {"included", "excluded"} /\ s \in C!Statuses /\ s # 204
    BY DEF C!Statuses
  <2>3. req[r].given = 0 /\ req[r].type = "unknown"
    BY <1>1, <1>6 DEF ReqRecord, Sound
  <2>4. /\ head \in ReqRecord /\ head.at = req[r].at /\ head.way = req[r].way
        /\ head.writer = req[r].writer
    BY <1>1, <2>2, WriteHeaderKeeps
  <2>5. head.early = req[r].early /\ (Good(r, req[r]) => Good(r, head))
    BY <1>1, <2>2, WriteHeaderGood
  <2> HIDE DEF head
  <2>6. /\ rec \in ReqRecord /\ rec.at = head.at /\ rec.way = head.way /\ rec.writer = head.writer
        /\ rec.early = head.early /\ rec.status = head.status /\ rec.written = head.written
        /\ rec.header = head.header /\ rec.encoded = head.encoded /\ rec.body = head.body
        /\ rec.started = head.started /\ rec.buffer = head.buffer /\ rec.given = head.given
    BY ZenonT(60), <2>2, <2>4 DEF ReqRecord
  <2>7. req' = C!Written(r, rec, <<"data">>)
    BY <2>1 DEF head
  <2> HIDE DEF rec
  <2>8. Good(r, head) => Good(r, rec)
    <3>1. Plain(r, head) => Plain(r, rec)
      BY <2>6 DEF Plain
    <3>2. Held(head) => Held(rec)
      BY <2>6 DEF Held
    <3>3. Zipped(r, head) => Zipped(r, rec)
      BY ZenonT(30), <2>6 DEF Zipped
    <3> QED
      BY <2>6, <3>1, <3>2, <3>3 DEF Good
  <2>9. Promised(rec) => Good(r, rec)
    BY <1>1, <2>3, <2>5, <2>6, <2>8 DEF Sound, Promised
  <2> QED
    BY <1>1, <1>4, <2>4, <2>6, <2>7, <2>9
<1> QED
  BY <1>5, <1>6

\* A Flush before anything is written makes no promise.
LEMMA AnswerHandlerFlushes ==
  ASSUME HttpInv, AnswerInv, ~panicked, NEW r \in Requests, C!HandlerFlushes(r)
  PROVE  AnswerInv'
<1> DEFINE sent == C!Send(req[r], <<>>)
           rec == [sent EXCEPT !.early = TRUE]
<1>1. /\ C!Handling(r) /\ UNCHANGED <<chain, attached, pool>> /\ req[r] \in ReqRecord
      /\ req' = [req EXCEPT ![r] = rec] /\ req[r].way = "in" /\ Sound(r, req[r])
  BY Place, SoundPlace DEF C!HandlerFlushes, C!Shared, C!Handling
<1>2. sent \in ReqRecord /\ Same(sent, req[r]) /\ Sent(req[r], <<>>, sent)
  <2>1. <<>> \in Seq(Frame)
    OBVIOUS
  <2> QED
    BY <1>1, <2>1, SendIs
<1> HIDE DEF sent
<1>3. /\ rec \in ReqRecord /\ rec.way = sent.way /\ rec.at = sent.at /\ rec.writer = sent.writer
      /\ rec.given = sent.given /\ rec.type = sent.type /\ rec.early
  BY <1>2 DEF ReqRecord
<1> HIDE DEF rec
<1>4. /\ rec.way = "in" /\ rec.at = req[r].at /\ rec.writer = req[r].writer
      /\ rec.given = req[r].given /\ rec.type = req[r].type /\ ~Promised(rec)
  BY <1>1, <1>2, <1>3 DEF Same, Sent, Promised
<1>5. rec.given = 0 => rec.type = "unknown"
  BY <1>1, <1>4 DEF Sound
<1> QED
  BY <1>1, <1>3, <1>4, <1>5, AnswerHandles

LEMMA AnswerHandlerReturns ==
  ASSUME HttpInv, AnswerInv, ~panicked, NEW r \in Requests, C!HandlerReturns(r)
  PROVE  AnswerInv'
<1> DEFINE out == C!Outward(req[r], "out")
<1>1. /\ req[r].way = "in" /\ req[r].at > Len(chain) /\ UNCHANGED <<chain, attached, pool>>
      /\ req[r] \in ReqRecord /\ req' = [req EXCEPT ![r] = out] /\ Sound(r, req[r])
  BY Place, SoundPlace DEF C!HandlerReturns, C!Handling, C!Shared
<1>2. /\ out \in ReqRecord /\ out.at = C!Outside(req[r].at) /\ out.way = "out"
      /\ out.writer = req[r].writer /\ Alike(out, req[r])
  BY <1>1, OutFields, AlikeMoves
<1> HIDE DEF out
<1>3. Promised(out) => Good(r, out)
  BY <1>1, <1>2, AlikeIs DEF Sound
<1> QED
  BY <1>1, <1>2, <1>3, AnswerTurns

LEMMA AnswerArrive ==
  ASSUME HttpInv, AnswerInv, ~panicked, NEW r \in Requests, C!Arrive(r)
  PROVE  AnswerInv'
<1> DEFINE rec == [C!Fresh EXCEPT !.way = "in", !.at = 1]
<1>1. req' = [req EXCEPT ![r] = rec] /\ UNCHANGED <<chain, attached, pool>> /\ chain \in Chains
  BY Place DEF C!Arrive, C!Shared
<1>2. C!Fresh \in ReqRecord /\ C!Fresh.writer = Nobody /\ Untouched(C!Fresh)
  <2>1. C!Fresh \in ReqRecord /\ C!Fresh.writer = Nobody
    BY <1>1, FreshFields
  <2>2. Untouched(C!Fresh)
    BY DEF C!Fresh, Untouched
  <2> QED
    BY <2>1, <2>2
<1>3. rec \in ReqRecord /\ rec.way = "in" /\ rec.writer = Nobody /\ Untouched(rec)
  <2>1. rec \in ReqRecord /\ rec.way = "in" /\ rec.writer = Nobody /\ Alike(rec, C!Fresh)
    BY <1>2 DEF ReqRecord, Alike
  <2> HIDE DEF rec
  <2> QED
    BY <1>2, <2>1, AlikeIs
<1> HIDE DEF rec
<1>4. Sound(r, rec) /\ ~Opened(rec)
  BY <1>3, UntouchedIsGood DEF Sound, Opened, Untouched
<1> QED
  BY <1>1, <1>3, <1>4, AnswerPlain

LEMMA AnswerEnd ==
  ASSUME HttpInv, AnswerInv, ~panicked, NEW r \in Requests, C!End(r)
  PROVE  AnswerInv'
<1> DEFINE sent == C!Send(req[r], <<>>)
           rec == [sent EXCEPT !.way = "done"]
<1>1. /\ req[r].at = 0 /\ req[r].way = "out" /\ req[r] \in ReqRecord /\ Sound(r, req[r])
      /\ UNCHANGED <<chain, attached, pool>> /\ chain \in Chains
  BY Place, SoundPlace DEF C!End, C!Shared
<1>2. req' = [req EXCEPT ![r] = rec]
  BY <1>1 DEF C!End
<1>3. sent \in ReqRecord /\ Same(sent, req[r]) /\ Sent(req[r], <<>>, sent)
  <2>1. <<>> \in Seq(Frame)
    OBVIOUS
  <2> QED
    BY <1>1, <2>1, SendIs
<1>4. Readable(r, req[r]) => Readable(r, sent)
  <2> HIDE DEF sent
  <2>1. req[r].body \in Seq(Frame)
    BY <1>1 DEF ReqRecord
  <2>2. req[r].body \o <<>> = req[r].body
    BY <2>1
  <2>3. sent.body = req[r].body /\ sent.given = req[r].given /\ sent.header = req[r].header
    BY <1>3, <2>2 DEF Sent
  <2>4. CASE Plain(r, req[r])
    <3>1. ~sent.encoded
      BY <1>3, <2>4 DEF Sent, Plain
    <3>2. Plain(r, sent)
      BY <2>3, <2>4, <3>1 DEF Plain
    <3> QED
      BY <3>2 DEF Readable
  <2>5. CASE Ended(r, req[r])
    <3>1. sent.encoded /\ sent.written
      BY <1>3, <2>5 DEF Sent, Ended
    <3>2. Ended(r, sent)
      BY <2>3, <2>5, <3>1 DEF Ended
    <3> QED
      BY <3>2 DEF Readable
  <2> QED
    BY <2>4, <2>5 DEF Readable
<1> HIDE DEF sent
<1>5. /\ rec \in ReqRecord /\ rec.way = "done" /\ Alike(rec, sent)
  BY <1>3 DEF ReqRecord, Alike
<1> HIDE DEF rec
<1>6. ~Opened(req[r])
  BY <1>1, Chain DEF Opened
<1>7. Promised(rec) /\ rec.given > 0 => Readable(r, rec)
  <2>1. /\ Promised(rec) => Promised(req[r])
        /\ rec.given = req[r].given
    BY <1>3, <1>5 DEF Sent, Alike, Promised
  <2>2. Readable(r, rec) <=> Readable(r, sent)
    BY <1>5, AlikeIs
  <2> QED
    BY <1>1, <1>4, <1>6, <2>1, <2>2 DEF Sound
<1>8. Sound(r, rec) /\ ~Opened(rec)
  BY <1>5, <1>7 DEF Sound, Opened
<1> QED
  BY <1>1, <1>2, <1>5, <1>8, AnswerPlain

LEMMA AnswerLeave ==
  ASSUME HttpInv, AnswerInv, ~panicked, NEW r \in Requests, C!Leave(r)
  PROVE  AnswerInv'
<1>1. req' = [req EXCEPT ![r] = C!Gone] /\ UNCHANGED <<chain, attached, pool>> /\ chain \in Chains
  BY Place DEF C!Leave, C!Shared
<1>2. C!Gone \in ReqRecord /\ C!Gone.way = "gone"
  BY <1>1, FreshFields
<1>3. Sound(r, C!Gone) /\ ~Opened(C!Gone)
  BY <1>2 DEF Sound, Opened
<1> QED
  BY <1>1, <1>2, <1>3, AnswerPlain

LEMMA AnswerInit == C!Init => AnswerInv
<1> SUFFICES ASSUME C!Init, NEW r \in Requests
             PROVE  Sound(r, req[r]) /\ Fits(r, req[r], attached, pool)
  BY DEF AnswerInv
<1>1. req[r] = C!Fresh /\ chain \in Chains
  BY DEF C!Init
<1>2. req[r].way = "new"
  BY <1>1, FreshFields
<1> QED
  BY <1>2 DEF Sound, Fits, Opened

LEMMA AnswerNext == HttpInv /\ AnswerInv /\ [C!Next]_(C!vars) => AnswerInv'
<1> SUFFICES ASSUME HttpInv, AnswerInv, [C!Next]_(C!vars) PROVE AnswerInv'
  OBVIOUS
<1>1. CASE panicked
  <2>1. ASSUME NEW r \in Requests,
               \/ C!Arrive(r) \/ C!Security(r) \/ C!CORS(r) \/ C!IPFilter(r) \/ C!BearerAuth(r)
               \/ C!RequireRoles(r) \/ C!RateLimit(r) \/ C!Decompress(r) \/ C!Recovery(r)
               \/ C!NoPanic(r) \/ C!Recover(r) \/ C!Logger(r) \/ C!Log(r)
        PROVE  panicked'
    BY <1>1, <2>1 DEF C!Shared, C!Arrive, C!Security, C!CORS, C!IPFilter, C!BearerAuth,
                      C!RequireRoles, C!RateLimit, C!Decompress, C!Recovery, C!NoPanic,
                      C!Recover, C!Logger, C!Log
  <2>2. ASSUME NEW r \in Requests,
               \/ C!MetricsIn(r) \/ C!Record(r) \/ C!MetricsOut(r) \/ C!Gzip(r) \/ C!Close(r)
               \/ C!HandlerWrites(r) \/ C!HandlerFlushes(r) \/ C!HandlerReturns(r)
               \/ C!HandlerPanics(r) \/ C!End(r) \/ C!Leave(r)
        PROVE  panicked'
    BY <1>1, <2>2 DEF C!Shared, C!MetricsIn, C!Record, C!MetricsOut, C!Gzip, C!Close,
                      C!HandlerWrites, C!HandlerFlushes, C!HandlerReturns, C!HandlerPanics,
                      C!End, C!Leave
  <2>3. C!Reset \/ UNCHANGED C!vars => UNCHANGED panicked
    BY DEF C!Reset, C!vars
  <2>4. panicked'
    <3>1. CASE C!Reset \/ UNCHANGED C!vars
      BY <1>1, <2>3, <3>1
    <3> QED
      BY <2>1, <2>2, <3>1 DEF C!Next
  <2> QED
    BY <2>4 DEF AnswerInv
<1>2. CASE ~panicked /\ (C!Reset \/ UNCHANGED C!vars)
  <2>1. UNCHANGED <<chain, req, attached, pool, panicked>>
    BY <1>2 DEF C!Reset, C!vars
  <2> QED
    BY <2>1 DEF AnswerInv, Sound, Fits, Opened
<1>3. ASSUME ~panicked, NEW r \in Requests,
             \/ C!Arrive(r) \/ C!Security(r) \/ C!CORS(r) \/ C!IPFilter(r) \/ C!BearerAuth(r)
             \/ C!RequireRoles(r) \/ C!RateLimit(r) \/ C!Decompress(r) \/ C!Recovery(r)
             \/ C!NoPanic(r) \/ C!Recover(r) \/ C!Logger(r) \/ C!Log(r)
      PROVE  AnswerInv'
  <2>1. ~C!Recover(r)
    BY <1>3, SoundPlace DEF C!Recover, C!Back
  <2> QED
    BY <1>3, <2>1, AnswerArrive, AnswerGates, AnswerCORS, AnswerBearerAuth, AnswerNoPanic, AnswerLog
<1>4. ASSUME ~panicked, NEW r \in Requests,
             \/ C!MetricsIn(r) \/ C!Record(r) \/ C!MetricsOut(r) \/ C!Gzip(r) \/ C!Close(r)
             \/ C!HandlerWrites(r) \/ C!HandlerFlushes(r) \/ C!HandlerReturns(r)
             \/ C!HandlerPanics(r) \/ C!End(r) \/ C!Leave(r)
      PROVE  AnswerInv'
  <2>1. CASE C!HandlerPanics(r)
    BY <2>1 DEF C!HandlerPanics, AnswerInv
  <2> QED
    BY <1>3, <1>4, <2>1, AnswerMetricsIn, AnswerRecord, AnswerMetricsOut, AnswerGzip, AnswerClose,
       AnswerHandlerWrites, AnswerHandlerFlushes, AnswerHandlerReturns, AnswerEnd, AnswerLeave
<1> QED
  BY <1>1, <1>2, <1>3, <1>4 DEF C!Next

-----------------------------------------------------------------------------
(* HttpChain: what the invariant says *)

LEMMA HttpTyped == HttpInv => C!TypeOK
<1> SUFFICES ASSUME HttpInv PROVE C!TypeOK
  OBVIOUS
<1>1. HttpTypes /\ metrics.inFlight \in Int
  BY DEF HttpInv, MetricsRecord
<1>2. \A r \in Requests : /\ req[r].way \in {"new", "in", "out", "panic", "done", "gone"}
                          /\ req[r].at \in 0..(Len(chain) + 1)
                          /\ req[r].status \in C!Statuses
                          /\ req[r].writer \in Writers \cup {Nobody}
  BY Place DEF ReqRecord
<1>3. metrics.inFlight \in 0..Cardinality(Requests)
  <2> DEFINE A == {r \in Requests : Inner(req[r])}
  <2>1. metrics.inFlight = Cardinality(A)
    BY AddUp DEF HttpInv
  <2>2. A \in SUBSET Requests
    OBVIOUS
  <2> HIDE DEF A
  <2>3. Cardinality(A) <= Cardinality(Requests) /\ Cardinality(A) \in Nat
        /\ Cardinality(Requests) \in Nat
    BY <2>2, RequestsAssumption, FS_Subset, FS_CardinalityType
  <2> QED
    BY <2>1, <2>3
<1>4. C!Cardinality(Requests) = Cardinality(Requests)
  BY SameCardinality
<1> QED
  BY <1>1, <1>2, <1>3, <1>4 DEF C!TypeOK, HttpTypes

LEMMA RequestsTellTheAnswer == HttpInv => C!LinesTellTheAnswer
<1> SUFFICES ASSUME HttpInv, NEW r \in Requests, req[r].way = "done",
                    "logger" \notin req[r].skipped,
                    NEW k \in DOMAIN chain, chain[k] = "logger", C!Open(k)
             PROVE  /\ req[r].lines # {} \/ (req[r].panic # "none" /\ chain \in Quiet)
                    /\ \A line \in req[r].lines :
                          IF line.kind = "request" THEN line.status = req[r].status
                          ELSE req[r].panic # "none"
  BY DEF C!LinesTellTheAnswer
<1>1. ReqOK(req[r]) /\ k \in 1..Len(chain) /\ Len(chain) \in Nat
  BY Place, Chain
<1>2. SeenOK(req[r], k) /\ req[r].at = 0 /\ 0 < k
  BY <1>1 DEF ReqOK
<1> QED
  BY <1>1, <1>2 DEF ReqOK, SeenOK, Told, LineOK

\* What a record that can be read says.
LEMMA ReadableIsRead == HttpInv /\ AnswerInv => C!ClientReadsAnswer
<1> SUFFICES ASSUME HttpInv, AnswerInv, NEW r \in Requests, req[r].way = "done", ~panicked,
                    ~req[r].early, req[r].given > 0, req[r].type # "excluded"
             PROVE  LET rec == req[r] IN
                    /\ \A i \in DOMAIN rec.body :
                          rec.body[i].of = r /\ rec.body[i].zipped = rec.encoded
                    /\ C!Cardinality({i \in DOMAIN rec.body : rec.body[i].what # "end"}) = rec.given
                    /\ rec.encoded <=> C!Last(rec.body).what = "end"
  BY DEF C!ClientReadsAnswer
<1> DEFINE rec == req[r]
           body == rec.body
           n == rec.given
           read == {i \in DOMAIN body : body[i].what # "end"}
<1>1. /\ Readable(r, rec) /\ body \in Seq(Frame) /\ n \in Nat /\ n > 0 /\ rec.encoded \in BOOLEAN
      /\ DOMAIN body = 1..Len(body) /\ Len(body) \in Nat
  BY SoundPlace, Place DEF Sound, Promised, ReqRecord
<1>2. C!Last(body) = body[Len(body)]
  BY DEF C!Last
<1>3. Cardinality(1..n) = n
  <2>1. 1 \in Int /\ n \in Int /\ 1 <= n /\ (n - 1) + 1 = n
    BY <1>1
  <2> HIDE DEF n
  <2> QED
    BY <1>1, <2>1, FS_Interval
<1>4. read = 1..n => C!Cardinality(read) = n
  BY <1>3, SameCardinality
<1> HIDE DEF n, body, read
<1>5. CASE Plain(r, rec)
  <2>1. /\ ~rec.encoded /\ Len(body) = n
        /\ \A i \in 1..n : body[i].of = r /\ body[i].zipped = FALSE /\ body[i].what # "end"
    BY <1>5 DEF Plain, Own, n, body
  <2>2. read = 1..n
    BY <1>1, <2>1 DEF read
  <2>3. n \in 1..n
    BY <1>1
  <2>4. rec.encoded = FALSE
    BY <1>1, <2>1
  <2> QED
    BY <1>1, <1>2, <1>4, <2>1, <2>2, <2>3, <2>4 DEF n, body, read
<1>6. CASE Ended(r, rec)
  <2>1. /\ rec.encoded /\ Len(body) = n + 1
        /\ \A i \in 1..n : body[i].of = r /\ body[i].zipped = TRUE /\ body[i].what # "end"
        /\ body[n + 1].of = r /\ body[n + 1].zipped = TRUE /\ body[n + 1].what = "end"
    BY <1>6 DEF Ended, Own, n, body
  <2>2. \A i \in 1..(n + 1) : i \in 1..n \/ i = n + 1
    BY <1>1
  <2>3. 1..n \subseteq 1..(n + 1) /\ n + 1 \notin 1..n
    BY <1>1
  <2>4. read = 1..n
    BY <1>1, <2>1, <2>2, <2>3 DEF read
  <2>5. rec.encoded = TRUE
    BY <1>1, <2>1
  <2> QED
    BY <1>1, <1>2, <1>4, <2>1, <2>2, <2>4, <2>5 DEF n, body, read
<1> QED
  BY <1>1, <1>5, <1>6 DEF Readable

-----------------------------------------------------------------------------
(* The parts together *)

LEMMA WindowSteps == [RequestsNext]_<<part, vars, httpVars, grpcVars>> => [Next]_vars
<1> SUFFICES ASSUME RequestsNext PROVE [Next]_vars
  BY DEF vars
<1> QED
  BY Zenon DEF RequestsNext, Windows, Http, Grpc, vars, Next, AllowN

LEMMA HttpSteps == [RequestsNext]_<<part, vars, httpVars, grpcVars>> => [C!Next]_(C!vars)
<1> SUFFICES ASSUME RequestsNext PROVE [C!Next]_(C!vars)
  BY DEF httpVars, C!vars
<1> QED
  BY Zenon DEF RequestsNext, Windows, Http, Grpc, httpVars, C!vars, C!Next

LEMMA GrpcSteps == [RequestsNext]_<<part, vars, httpVars, grpcVars>> => [G!Next]_(G!vars)
<1> SUFFICES ASSUME RequestsNext PROVE [G!Next]_(G!vars)
  BY DEF grpcVars, G!vars
<1> QED
  BY Zenon DEF RequestsNext, Windows, Http, Grpc, grpcVars, G!vars, G!Next

RequestsInv == WindowInv /\ HttpInv /\ AnswerInv /\ GrpcInv

LEMMA Invariant == RequestsSpec => []RequestsInv
<1>1. RequestsInit => RequestsInv
  BY WindowInit, HttpInit, AnswerInit, GrpcInit DEF RequestsInit, RequestsInv
<1>2. RequestsInv /\ [RequestsNext]_<<part, vars, httpVars, grpcVars>> => RequestsInv'
  BY WindowSteps, HttpSteps, GrpcSteps, WindowNext, HttpNext, AnswerNext, GrpcNext DEF RequestsInv
<1> QED
  BY <1>1, <1>2, PTL DEF RequestsSpec

-----------------------------------------------------------------------------

\* The variables of all three parts keep their types, and the gauge is no larger
\* than the number of requests, for any chains and numbers of keys, requests and
\* writers.
THEOREM TypeCorrect == RequestsSpec => []TypesOK
<1>1. GrpcInv => G!TypeOK
  BY Places DEF GrpcInv, CallOK, CallRecord, G!TypeOK
<1>2. RequestsInv => TypesOK
  BY <1>1, HttpTyped DEF RequestsInv, WindowInv, TypesOK
<1> QED
  BY Invariant, <1>2, PTL

\* No key gets more than twice the limit in any stretch of one window length,
\* whatever the limit, the length, the sizes asked for and the times of cleanup.
THEOREM WindowsGiveTwiceTheLimit == RequestsSpec => []TwiceTheLimit
<1>1. RequestsInv => TwiceTheLimit
  BY DEF RequestsInv, WindowInv, KeyOK, Bounded, TwiceTheLimit
<1> QED
  BY Invariant, <1>1, PTL

\* Cleanup changes no answer AllowN can give, whatever was asked for before and
\* whenever the ticker fires.
THEOREM CleanupIsInvisible == RequestsSpec => CleanupInvisible
<1>1. RequestsInv => [Cleanup => \A k \in Keys, n \in Sizes : Allows(k, n)' = Allows(k, n)]_vars
  BY CleanupKeepsAnswers DEF RequestsInv, WindowInv
<1> QED
  BY Invariant, <1>1, PTL DEF CleanupInvisible

\* The gauge counts the requests inside the metrics middleware and the counters
\* agree, for any chains and any number of requests, panics and resets.
THEOREM TheMetricsAddUp == RequestsSpec => []MetricsAddUp
<1>1. RequestsInv => MetricsAddUp
  BY DEF RequestsInv, HttpInv, MetricsAddUp
<1> QED
  BY Invariant, <1>1, PTL

\* An answered request has left a line with its status, or with the panic it came
\* from unless Recovery had no logger, in every chain with its logger where the
\* property wants it. An answered call with Recovery and Logging outermost has left a
\* line with the code of its error; that is the client's, but for the raw error of a
\* context (Unknown in the log) and a panic RecoveryFunc makes no error of.
THEOREM AnswersAreLogged == RequestsSpec => []LinesTellTheAnswer
<1>1. RequestsInv => LinesTellTheAnswer
  BY RequestsTellTheAnswer, CallsTellTheAnswer DEF RequestsInv, LinesTellTheAnswer
<1> QED
  BY Invariant, <1>1, PTL

\* As long as no handler panics, a client reads what was written for it, all of it
\* and nothing of another response, for any chains, any number of requests that
\* share the gzip writers, and any MinLength.
THEOREM ClientsReadTheirAnswer == RequestsSpec => []ClientReadsAnswer
<1>1. RequestsInv => ClientReadsAnswer
  BY ReadableIsRead DEF RequestsInv, ClientReadsAnswer
<1> QED
  BY Invariant, <1>1, PTL
=============================================================================
