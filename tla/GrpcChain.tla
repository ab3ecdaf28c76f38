----------------------------- MODULE GrpcChain -----------------------------
(***************************************************************************)
(* The gRPC interceptors of goupter (pkg/server/interceptor): a chain around *)
(* the method of a service, the same for calls and for streams.  Calls share *)
(* nothing here, so one is enough.  Metadata, payloads and the values of the *)
(* context are left out.  Both loggers are there: Recovery or Logging without *)
(* one would panic itself.                                                   *)
(***************************************************************************)
EXTENDS Integers, Sequences

CONSTANTS GrpcChains \* the orders of interceptors a server may have

VARIABLES
    interceptors, \* as given to ChainUnaryInterceptors or ChainStreamInterceptors
    call          \* the call: how deep it is, which way it goes, what it returns, what it
                  \* has logged and the code its client got

vars == <<interceptors, call>>

\* Errors made with the status package, named by their code, and others: those of
\* a context that has ended, and any other.
Statuses == {"Internal", "Unauthenticated", "ResourceExhausted", "Unknown", "DeadlineExceeded"}
ContextErrors == {"deadline", "canceled"}
Errors == Statuses \cup ContextErrors \cup {"nil", "error"}
Codes == Statuses \cup {"OK", "Canceled"}

Idle == [at |-> 1, way |-> "in", stream |-> FALSE, err |-> "nil", reply |-> FALSE,
         client |-> "OK", panicked |-> FALSE, skipped |-> FALSE, lines |-> <<>>]

Init ==
    /\ interceptors \in GrpcChains
    /\ \E stream \in BOOLEAN : call = [Idle EXCEPT !.stream = stream]

-----------------------------------------------------------------------------
(* The chain: interceptor i is called with interceptor i + 1 as its handler *)

Turn(i) == call.way = "in" /\ call.at <= Len(interceptors) /\ interceptors[call.at] = i
Back(way, i) == call.way = way /\ call.at > 0 /\ interceptors[call.at] = i

Inward == [call EXCEPT !.at = @ + 1]
Outward(c, way) == [c EXCEPT !.at = @ - 1, !.way = way]
Return(err) == call' = Outward([call EXCEPT !.err = err, !.reply = err = "nil"], "out")

\* status.Code: what is no status is Unknown, the errors of a context as well.
CodeOf(err) ==
    CASE err = "nil" -> "OK"
      [] err \in ContextErrors \cup {"error"} -> "Unknown"
      [] OTHER -> err

\* What grpc makes of what the chain returns: it knows the errors of a context; a
\* call that returns neither error nor response is sent as an empty message or
\* cannot be encoded.
ClientCodes(c) ==
    CASE c.err = "nil" -> {"OK"} \cup (IF c.reply \/ c.stream THEN {} ELSE {"Internal"})
      [] c.err = "deadline" -> {"DeadlineExceeded"}
      [] c.err = "canceled" -> {"Canceled"}
      [] OTHER -> {CodeOf(c.err)}

Line(kind, code) == [kind |-> kind, code |-> code]
Logged(c, line) == [c EXCEPT !.lines = Append(@, line)]

\* What an interceptor does that only returns what its handler returned.
Through ==
    /\ \/ Back("out", "recovery") \/ Back("panic", "logging")
       \/ \E i \in {"auth", "limit", "timeout", "requestid"} : Back("out", i) \/ Back("panic", i)
    /\ call' = Outward(call, call.way)
    /\ UNCHANGED interceptors

\* UnaryAuth and StreamAuth: a method to skip, or a token that extractToken finds
\* and the validator likes; without a validator nobody comes in.
Auth ==
    /\ Turn("auth")
    /\ call' = Inward \/ Return("Unauthenticated") \/ Return("Internal")
    /\ UNCHANGED interceptors

\* UnaryRateLimit and StreamRateLimit.
RateLimit ==
    /\ Turn("limit")
    /\ call' = Inward \/ Return("ResourceExhausted")
    /\ UNCHANGED interceptors

\* UnaryTimeout bounds the context and waits for the handler all the same, and what
\* the handler makes of a context that has ended passes as it is.
Timeout == Turn("timeout") /\ call' = Inward /\ UNCHANGED interceptors

\* UnaryRequestID and StreamRequestID find or make an id and pass it on.
RequestID == Turn("requestid") /\ call' = Inward /\ UNCHANGED interceptors

\* UnaryRecovery and StreamRecovery on the way in.
Recovery == Turn("recovery") /\ call' = Inward /\ UNCHANGED interceptors

\* The deferred function: handlePanic logs and makes an error of the panic,
\* Internal or what RecoveryFunc says, which may be no error; there is no response.
Recover ==
    /\ Back("panic", "recovery")
    /\ \E err \in Errors :
          call' = Outward([Logged(call, Line("panic", "none")) EXCEPT !.err = err], "out")
    /\ UNCHANGED interceptors

\* UnaryLogging and StreamLogging: a skipped method, or a line when the handler
\* has returned, at level error for an error, warn when slow and info otherwise.
Logging ==
    /\ Turn("logging")
    /\ \E skip \in BOOLEAN : call' = [Inward EXCEPT !.skipped = skip]
    /\ UNCHANGED interceptors

\* (Faulty variant of LineAfter: the code is the one before the handler ran.)
LineBefore(c) == Logged(c, Line("request", "OK"))

LineAfter(c) == Logged(c, Line("request", CodeOf(c.err)))

Log ==
    /\ Back("out", "logging")
    /\ call' = Outward(IF call.skipped THEN call ELSE LineAfter(call), "out")
    /\ UNCHANGED interceptors

\* The method of the service: an answer, an error of any kind, or a panic.
Handler ==
    /\ call.way = "in" /\ call.at > Len(interceptors)
    /\ \/ \E err \in Errors : Return(err)
       \/ call' = Outward([call EXCEPT !.panicked = TRUE], "panic")
    /\ UNCHANGED interceptors

\* grpc sends what the chain returned.
Reply ==
    /\ call.way = "out" /\ call.at = 0
    /\ \E code \in ClientCodes(call) : call' = [call EXCEPT !.way = "sent", !.client = code]
    /\ UNCHANGED interceptors

Next ==
    \/ Auth \/ RateLimit \/ Timeout \/ RequestID \/ Recovery \/ Recover \/ Logging \/ Log \/ Handler
    \/ Through \/ Reply

Spec == Init /\ [][Next]_vars

-----------------------------------------------------------------------------
(* Properties *)

\* Types of the variables.
TypeOK ==
    /\ interceptors \in GrpcChains
    /\ call.at \in 0..(Len(interceptors) + 1) /\ call.way \in {"in", "out", "panic", "sent"}
    /\ call.err \in Errors /\ call.client \in Codes

Index(i) == CHOOSE k \in 0..Len(interceptors) :
    IF \E j \in DOMAIN interceptors : interceptors[j] = i
    THEN k > 0 /\ interceptors[k] = i ELSE k = 0

\* The code of a line and the code of the client: the same, but for an error of a
\* context, which the log calls Unknown, and for a panic RecoveryFunc made nothing of.
Agree(code) ==
    \/ code = call.client
    \/ code = "Unknown" /\ call.err \in ContextErrors
    \/ code = "OK" /\ call.err = "nil" /\ ~call.reply /\ call.panicked

\* With Recovery and Logging outside everything that refuses a call, a panic never
\* gets out of the chain, and a call that is not skipped leaves a line before its
\* answer goes out: that of a panic first if there was one, and the lines of
\* requests say the code the client gets, as far as the log can know it.
LinesTellTheAnswer ==
    {Index("recovery"), Index("logging")} = {1, 2} =>
        /\ call.way = "panic" => call.at > 0
        /\ call.way = "sent" /\ ~call.skipped =>
              /\ call.lines # <<>>
              /\ \A k \in DOMAIN call.lines :
                    call.lines[k].kind = "request" => Agree(call.lines[k].code)
              /\ call.panicked => call.lines[1].kind = "panic"
=============================================================================
