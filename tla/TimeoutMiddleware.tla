------------------------- MODULE TimeoutMiddleware -------------------------
(***************************************************************************)
(* One request through the timeout middleware of                            *)
(* pkg/server/middleware/timeout.go.  executeWithTimeout runs the handlers  *)
(* behind it in a goroutine, on a copy of the gin context that writes to a  *)
(* buffer, and selects between the goroutine's panic, its end and the       *)
(* deadline.  When the middleware returns, gin goes on with the original    *)
(* context: the middleware never aborts it, so its index still stands at    *)
(* the middleware and gin's loop runs the same handlers on the original     *)
(* writer.                                                                  *)
(*                                                                          *)
(* A body is a sequence of chunks, each named by the run that wrote it.  A  *)
(* handler is arbitrary code: it sets a status, writes, returns, aborts the *)
(* chain, panics or hangs.  The handler of TimeoutWithCustomResponse is the *)
(* user's as well: it may leave the timeout page out, or a part of it, or   *)
(* panic.                                                                   *)
(***************************************************************************)
EXTENDS Naturals, Sequences

CONSTANTS
    N,          \* number of handlers behind the middleware
    MaxWrites   \* bound on the writes of one run of the handlers

ASSUME NAssumption == N \in Nat \ {0}
ASSUME MaxWritesAssumption == MaxWrites \in Nat

\* The two runs of gin's handler loop: in the goroutine, on the copied context,
\* and in the server's goroutine, on the original one.
Runs == {"worker", "original"}

VARIABLES
    pc,        \* where each run is
    index,     \* Context.index of each run, relative to the middleware
    writes,    \* writes each run made so far
    buffer,    \* the bufferedResponseWriter
    response,  \* the original gin.ResponseWriter
    ctxDone,   \* the request context is done: deadline, or the client left
    panicChan, \* panicChan (capacity one) holds a value
    decided,   \* (history) the branch the select took
    answered,  \* (history) what the timeout handler sent
    threw      \* (history) a handler panicked in the goroutine

runVars == <<pc, index, writes>>
vars == <<runVars, buffer, response, ctxDone, panicChan, decided, answered,
          threw>>

Sources == Runs \cup {"timeout"}
Status == {"default"} \cup Sources

\* What a timeout handler sends: the status and the page of writeJSONResponse,
\* or, being the user's code, one of them or none.
TimeoutAnswers ==
    [status : {"default", "timeout"}, body : {<<>>, <<"timeout">>}]

NoAnswer == [status |-> "default", body |-> <<>>]

TypeOK ==
    /\ pc.worker \in {"handler", "recover", "close", "done"}
    /\ pc.original \in {"select", "handler", "returned", "panicked"}
    /\ index \in [Runs -> 0..N + 1]
    /\ writes \in [Runs -> 0..MaxWrites]
    /\ buffer.status \in {"default", "worker"}
    /\ buffer.body \in Seq({"worker"}) /\ Len(buffer.body) <= MaxWrites
    /\ buffer.written = (buffer.body # <<>>)
    /\ buffer.timedOut = (decided = "timeout")
    /\ response.status \in Status
    /\ response.body \in Seq(Sources)
    /\ response.written = (response.body # <<>>)
    /\ {ctxDone, panicChan, threw} \subseteq BOOLEAN
    /\ decided \in {"none", "commit", "panic", "timeout"}
    /\ answered \in TimeoutAnswers

Init ==
    /\ pc = [worker |-> "handler", original |-> "select"]
    /\ index = [worker |-> 1, original |-> 0]
    /\ writes = [r \in Runs |-> 0]
    /\ buffer = [status |-> "default", written |-> FALSE, body |-> <<>>,
                 timedOut |-> FALSE]
    /\ response = [status |-> "default", written |-> FALSE, body |-> <<>>]
    /\ ctxDone = FALSE
    /\ panicChan = FALSE
    /\ decided = "none"
    /\ answered = NoAnswer
    /\ threw = FALSE

-----------------------------------------------------------------------------
(* The response writers *)

\* WriteHeader: the status stands once something was written.
StatusSet(w, source) == IF w.written THEN w ELSE [w EXCEPT !.status = source]

\* Write: append the chunks, which fixes the status.
Written(w, chunks) ==
    IF chunks = <<>> THEN w
    ELSE [w EXCEPT !.written = TRUE, !.body = @ \o chunks]

\* A writer after it was sent the status and the body of an answer.
Sent(w, answer) ==
    Written(IF answer.status = "default" THEN w ELSE StatusSet(w, answer.status),
            answer.body)

\* commitToOriginal: status and body of the buffer go to the original writer.
Committed == Sent(response, buffer)

-----------------------------------------------------------------------------
(* gin's loop and the handlers it runs, in either run *)

\* The loop of Context.Next: run the handler at index, from i on.
RunFrom(r, i, end) ==
    /\ index' = [index EXCEPT ![r] = i]
    /\ IF i <= N
       THEN pc' = [pc EXCEPT ![r] = "handler"]
       ELSE pc' = [pc EXCEPT ![r] = end]

EndOf(r) == IF r = "worker" THEN "close" ELSE "returned"

HandlerSetsStatus(r) ==
    /\ pc[r] = "handler"
    /\ IF r = "worker"
       THEN buffer' = StatusSet(buffer, r) /\ UNCHANGED response
       ELSE response' = StatusSet(response, r) /\ UNCHANGED buffer
    /\ UNCHANGED <<runVars, ctxDone, panicChan, decided, answered, threw>>

\* (Faulty variant of BufferWrite) Accepts writes after the deadline.
BufferWriteLate == Written(buffer, <<"worker">>)

\* bufferedResponseWriter.Write: refused once the response timed out.
BufferWrite ==
    IF buffer.timedOut THEN buffer ELSE Written(buffer, <<"worker">>)

HandlerWrites(r) ==
    /\ pc[r] = "handler"
    /\ writes[r] < MaxWrites
    /\ writes' = [writes EXCEPT ![r] = @ + 1]
    /\ IF r = "worker"
       THEN buffer' = BufferWrite /\ UNCHANGED response
       ELSE response' = Written(response, <<r>>) /\ UNCHANGED buffer
    /\ UNCHANGED <<pc, index, ctxDone, panicChan, decided, answered, threw>>

HandlerReturns(r) ==
    /\ pc[r] = "handler"
    /\ RunFrom(r, index[r] + 1, EndOf(r))
    /\ UNCHANGED <<writes, buffer, response, ctxDone, panicChan, decided,
                   answered, threw>>

\* Context.Abort: the loop of this context skips the remaining handlers.
HandlerAborts(r) ==
    /\ pc[r] = "handler"
    /\ RunFrom(r, N + 1, EndOf(r))
    /\ UNCHANGED <<writes, buffer, response, ctxDone, panicChan, decided,
                   answered, threw>>

\* (Faulty variant of HandlerPanics) close(done) runs before the recovery.
HandlerPanicsUnreported(r) ==
    /\ pc[r] = "handler"
    /\ pc' = [pc EXCEPT ![r] = IF r = "worker" THEN "close" ELSE "panicked"]
    /\ threw' = (threw \/ r = "worker")
    /\ UNCHANGED <<index, writes, buffer, response, ctxDone, panicChan, decided,
                   answered>>

HandlerPanics(r) ==
    /\ pc[r] = "handler"
    /\ pc' = [pc EXCEPT ![r] = IF r = "worker" THEN "recover" ELSE "panicked"]
    /\ threw' = (threw \/ r = "worker")
    /\ UNCHANGED <<index, writes, buffer, response, ctxDone, panicChan, decided,
                   answered>>

-----------------------------------------------------------------------------
(* The goroutine's deferred functions: recover first, then close(done) *)

\* (Faulty variant of SendPanic) An unbuffered panicChan.
SendPanicUnbuffered ==
    /\ pc.worker = "recover"
    /\ pc.original = "select"
    /\ panicChan' = TRUE
    /\ pc' = [pc EXCEPT !.worker = "close"]
    /\ UNCHANGED <<index, writes, buffer, response, ctxDone, decided, answered,
                   threw>>

\* panicChan has room for the one value ever sent.
SendPanic ==
    /\ pc.worker = "recover"
    /\ panicChan' = TRUE
    /\ pc' = [pc EXCEPT !.worker = "close"]
    /\ UNCHANGED <<index, writes, buffer, response, ctxDone, decided, answered,
                   threw>>

CloseDone ==
    /\ pc.worker = "close"
    /\ pc' = [pc EXCEPT !.worker = "done"]
    /\ UNCHANGED <<index, writes, buffer, response, ctxDone, panicChan, decided,
                   answered, threw>>

-----------------------------------------------------------------------------
(* The select of executeWithTimeout *)

Decide(branch) ==
    /\ pc.original = "select"
    /\ decided' = branch

\* panicChan is ready, or done is and the inner select finds panicChan ready:
\* panic(p) in the server's goroutine, gin's loop is not resumed.
SelectPanic ==
    /\ Decide("panic")
    /\ panicChan
    /\ panicChan' = FALSE
    /\ pc' = [pc EXCEPT !.original = "panicked"]
    /\ UNCHANGED <<index, writes, buffer, response, ctxDone, answered, threw>>

\* done is closed and nobody panicked: commit, return to gin's loop.
SelectDone ==
    /\ Decide("commit")
    /\ pc.worker = "done"
    /\ ~panicChan
    /\ response' = Committed
    /\ RunFrom("original", index.original + 1, "returned")
    /\ UNCHANGED <<writes, buffer, ctxDone, panicChan, answered, threw>>

\* The timeout handler sent answer: it returns to the middleware and so to
\* gin's loop, or it panics in the server's goroutine.
AfterTimeout(answer) ==
    /\ answered' = answer
    /\ \/ RunFrom("original", index.original + 1, "returned")
       \/ pc' = [pc EXCEPT !.original = "panicked"] /\ UNCHANGED index

\* (Faulty variant of SelectTimeout) Waits for the goroutine before answering.
SelectTimeoutJoined ==
    /\ Decide("timeout")
    /\ ctxDone
    /\ pc.worker = "done"
    /\ buffer' = [buffer EXCEPT !.timedOut = TRUE]
    /\ \E a \in TimeoutAnswers : response' = Sent(response, a) /\ AfterTimeout(a)
    /\ UNCHANGED <<writes, ctxDone, panicChan, threw>>

\* (Faulty variant of SelectTimeout) Commits what the goroutine wrote so far.
SelectTimeoutPartial ==
    /\ Decide("timeout")
    /\ ctxDone
    /\ buffer' = [buffer EXCEPT !.timedOut = TRUE]
    /\ \E a \in TimeoutAnswers : response' = Sent(Committed, a) /\ AfterTimeout(a)
    /\ UNCHANGED <<writes, ctxDone, panicChan, threw>>

\* (Faulty variant of SelectTimeout) Forgets markTimedOut.
SelectTimeoutUnmarked ==
    /\ Decide("timeout")
    /\ ctxDone
    /\ \E a \in TimeoutAnswers : response' = Sent(response, a) /\ AfterTimeout(a)
    /\ UNCHANGED <<writes, buffer, ctxDone, panicChan, threw>>

\* The context is done: close the buffer and run the timeout handler on the
\* original writer.
SelectTimeout ==
    /\ Decide("timeout")
    /\ ctxDone
    /\ buffer' = [buffer EXCEPT !.timedOut = TRUE]
    /\ \E a \in TimeoutAnswers : response' = Sent(response, a) /\ AfterTimeout(a)
    /\ UNCHANGED <<writes, ctxDone, panicChan, threw>>

\* The deadline passes, the client goes away, or the deferred cancel runs.
ContextEnds ==
    /\ ~ctxDone
    /\ ctxDone' = TRUE
    /\ UNCHANGED <<runVars, buffer, response, panicChan, decided, answered, threw>>

Handle(r) ==
    \/ HandlerSetsStatus(r) \/ HandlerWrites(r)
    \/ HandlerReturns(r) \/ HandlerAborts(r) \/ HandlerPanics(r)

Select == SelectPanic \/ SelectDone \/ SelectTimeout

\* The request is over and its goroutine gone.
Finished ==
    /\ pc.original \in {"returned", "panicked"}
    /\ pc.worker = "done"
    /\ UNCHANGED vars

Next ==
    \/ \E r \in Runs : Handle(r)
    \/ SendPanic \/ CloseDone
    \/ Select
    \/ ContextEnds
    \/ Finished

Spec == Init /\ [][Next]_vars

\* The middleware's own goroutines run and the deadline comes; a handler owes
\* nothing, it may hang for ever.
Fairness ==
    /\ WF_vars(SendPanic) /\ WF_vars(CloseDone)
    /\ WF_vars(Select)
    /\ WF_vars(ContextEnds)

FairSpec == Spec /\ Fairness

-----------------------------------------------------------------------------
(* Properties *)

\* All of the goroutine's output or none of it reaches the client: all, and
\* first, when the handlers ended without a panic in time, none when they
\* panicked or were late, whichever of panicChan, done and the context was ready
\* when the select ran.
AllOrNothing ==
    /\ decided = "commit" => /\ pc.worker = "done" /\ ~threw
                             /\ Len(buffer.body) <= Len(response.body)
    /\ \A i \in DOMAIN response.body :
          response.body[i] = "worker" <=>
              decided = "commit" /\ i <= Len(buffer.body)

\* A timed-out request keeps the page the timeout handler wrote: its status and
\* its leading body stand, whatever the two runs of the handlers do afterwards.
\* A handler that wrote no body settled nothing: the second run may still change
\* a status it set.
TimeoutStatusStands ==
    decided = "timeout" /\ answered.body # <<>> =>
        response.status = answered.status /\ response.body[1] = "timeout"

\* What a late handler writes is refused: once the response timed out, or was
\* committed, the buffered body does not change again.
BufferSealed ==
    [][(decided \in {"commit", "timeout"}) => UNCHANGED (buffer.body)]_vars

\* Neither goroutine waits for the other for ever: the middleware decides by the
\* deadline even when the handlers hang, and a goroutine whose handler panicked
\* ends, also when nobody receives from panicChan any more.
NeitherWaits ==
    /\ pc.original = "select" ~> pc.original # "select"
    /\ pc.worker = "recover" ~> pc.worker = "done"

\* The client gets one response: the handlers', or the timeout's.  It does not
\* hold: gin runs the handlers again on the original writer when the middleware
\* returns, and what they write follows the response already written.
OneResponse == \A i, j \in DOMAIN response.body : response.body[i] = response.body[j]
=============================================================================
