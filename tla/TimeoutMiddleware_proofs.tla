---------------------- MODULE TimeoutMiddleware_proofs ----------------------
(* Proofs of the safety properties of TimeoutMiddleware, for any number of   *)
(* handlers and of writes.                                                   *)
EXTENDS TimeoutMiddleware, TLAPS

Writer == [status : Status, written : BOOLEAN, body : Seq(Sources)]
Buffer == [status : {"default", "worker"}, written : BOOLEAN,
           body : Seq({"worker"}), timedOut : BOOLEAN]

\* The shape of the variables, as one step needs it of the step before.
Shape ==
    /\ pc \in [Runs -> {"handler", "recover", "close", "done", "select",
                        "returned", "panicked"}]
    /\ pc["worker"] \in {"handler", "recover", "close", "done"}
    /\ pc["original"] \in {"select", "handler", "returned", "panicked"}
    /\ index \in [Runs -> 0..N + 1]
    /\ \A r \in Runs : pc[r] = "handler" => index[r] <= N
    /\ index["original"] <= N \/ pc["original"] # "select"
    /\ writes \in [Runs -> 0..MaxWrites]
    /\ buffer \in Buffer
    /\ Len(buffer.body) <= writes["worker"]
    /\ buffer.written <=> (buffer.body # <<>>)
    /\ response \in Writer
    /\ response.written <=> (response.body # <<>>)
    /\ ctxDone \in BOOLEAN /\ panicChan \in BOOLEAN /\ threw \in BOOLEAN
    /\ decided \in {"none", "commit", "panic", "timeout"}
    /\ answered \in TimeoutAnswers

\* The select is over when it decided, and closed the buffer if it was late.
SelectOnce ==
    /\ decided = "none" <=> pc["original"] = "select"
    /\ buffer.timedOut <=> decided = "timeout"
    /\ decided = "none" => response = [status |-> "default", written |-> FALSE,
                                       body |-> <<>>]

\* A panic is reported before done is closed, and stays in the channel until
\* the select takes it; the buffer is committed only when nobody panicked.
PanicReported ==
    /\ pc["worker"] = "recover" => threw
    /\ threw => \/ pc["worker"] = "recover" \/ panicChan \/ decided = "panic"
    /\ panicChan => threw
    /\ decided = "commit" => pc["worker"] = "done" /\ ~threw

\* The page of the timeout handler was written, which fixes its status.
TimeoutAnswered ==
    decided = "timeout" /\ answered.body # <<>> =>
        /\ response.status = answered.status
        /\ response.body # <<>>
        /\ response.body[1] = "timeout"

\* The committed chunks are the first of the response, and the only ones the
\* goroutine wrote.
CommittedWhole ==
    /\ decided = "commit" => Len(buffer.body) <= Len(response.body)
    /\ \A i \in 1..Len(response.body) :
          response.body[i] = "worker" <=>
              decided = "commit" /\ i <= Len(buffer.body)

IInv ==
    /\ Shape
    /\ SelectOnce
    /\ PanicReported
    /\ TimeoutAnswered
    /\ CommittedWhole

USE NAssumption, MaxWritesAssumption DEF Runs, Sources, Status

-----------------------------------------------------------------------------
(* The response writers *)

\* WriteHeader keeps a writer well formed, and the status of one written to.
LEMMA StatusSetBuffer ==
    ASSUME buffer \in Buffer, buffer.written <=> (buffer.body # <<>>)
    PROVE  LET b == StatusSet(buffer, "worker") IN
           /\ b \in Buffer /\ b.body = buffer.body
           /\ b.written = buffer.written /\ b.timedOut = buffer.timedOut
BY DEF Buffer, StatusSet

LEMMA StatusSetResponse ==
    ASSUME NEW w \in Writer, NEW s \in Status
    PROVE  LET v == StatusSet(w, s) IN
           /\ v \in Writer /\ v.body = w.body /\ v.written = w.written
           /\ v.status = IF w.written THEN w.status ELSE s
BY DEF Writer, StatusSet

\* Write appends what it is given, and a chunk makes the writer written.
LEMMA WrittenResponse ==
    ASSUME NEW w \in Writer, w.written <=> (w.body # <<>>), NEW c \in Seq(Sources)
    PROVE  LET v == Written(w, c) IN
           /\ v \in Writer /\ v.status = w.status
           /\ v.written <=> (v.body # <<>>)
           /\ w.body # <<>> => v.body # <<>> /\ v.body[1] = w.body[1]
           /\ v.body = w.body \o c
           /\ w.body = <<>> => v.body = c
<1>1. CASE c = <<>>
  <2>1. w.body \in Seq(Sources) /\ w.body \o <<>> = w.body
    BY DEF Writer
  <2> QED
    BY <1>1, <2>1 DEF Writer, Written
<1>2. CASE c # <<>>
  <2>1. w.body \in Seq(Sources) /\ w.body \o c \in Seq(Sources)
    BY DEF Writer
  <2>2. w.body \o c # <<>> /\ Len(c) > 0
    BY <1>2, <2>1
  <2>3. w.body # <<>> => (w.body \o c)[1] = w.body[1]
    BY <2>1
  <2>4. w.body = <<>> => w.body \o c = c
    BY <2>1
  <2>5. Written(w, c) = [w EXCEPT !.written = TRUE, !.body = w.body \o c]
    BY <1>2 DEF Written
  <2> QED
    BY <2>1, <2>2, <2>3, <2>4, <2>5 DEF Writer
<1> QED
  BY <1>1, <1>2

\* The buffer takes one more chunk or, late, nothing.
LEMMA BufferWriteBuffer ==
    ASSUME buffer \in Buffer, buffer.written <=> (buffer.body # <<>>)
    PROVE  /\ BufferWrite \in Buffer
           /\ BufferWrite.timedOut = buffer.timedOut
           /\ BufferWrite.written <=> (BufferWrite.body # <<>>)
           /\ Len(BufferWrite.body) <= Len(buffer.body) + 1
           /\ buffer.timedOut => BufferWrite = buffer
<1> DEFINE body == buffer.body \o <<"worker">>
<1>1. buffer.body \in Seq({"worker"}) /\ Len(buffer.body) \in Nat
  BY DEF Buffer
<1>2. body \in Seq({"worker"}) /\ body # <<>> /\ Len(body) = Len(buffer.body) + 1
  BY <1>1
<1>3. CASE buffer.timedOut
  <2>1. BufferWrite = buffer
    BY <1>3 DEF BufferWrite
  <2> QED
    BY <1>1, <2>1
<1>4. CASE ~buffer.timedOut
  <2> HIDE DEF body
  <2>1. BufferWrite = [buffer EXCEPT !.written = TRUE, !.body = body]
    BY <1>4, <1>1 DEF BufferWrite, Written, body
  <2>2. /\ BufferWrite \in Buffer
        /\ BufferWrite.timedOut = buffer.timedOut
        /\ BufferWrite.written /\ BufferWrite.body = body
    BY <1>2, <2>1 DEF Buffer
  <2> QED
    BY <1>1, <1>2, <1>4, <2>2
<1> QED
  BY <1>3, <1>4 DEF Buffer

\* A writer that was sent an answer: the body is appended, the status is the
\* answer's unless something was written before.
LEMMA SentResponse ==
    ASSUME NEW w \in Writer, w.written <=> (w.body # <<>>),
           NEW a, a.status \in Status, a.body \in Seq(Sources)
    PROVE  /\ Sent(w, a) \in Writer
           /\ Sent(w, a).written <=> (Sent(w, a).body # <<>>)
           /\ w.body = <<>> => Sent(w, a).body = a.body
           /\ w.body = <<>> => Sent(w, a).status =
                IF a.status = "default" THEN w.status ELSE a.status
<1> DEFINE u == IF a.status = "default" THEN w ELSE StatusSet(w, a.status)
<1>1. /\ u \in Writer /\ (u.written <=> (u.body # <<>>)) /\ u.body = w.body
      /\ ~w.written => u.status = IF a.status = "default" THEN w.status
                                  ELSE a.status
  BY StatusSetResponse
<1> HIDE DEF u
<1> DEFINE v == Written(u, a.body)
<1>2. /\ v \in Writer /\ v.status = u.status
      /\ v.written <=> (v.body # <<>>)
      /\ u.body = <<>> => v.body = a.body
  BY <1>1, WrittenResponse
<1>3. Sent(w, a) = v
  BY DEF Sent, u
<1> HIDE DEF v
<1> QED
  BY <1>1, <1>2, <1>3

\* What commit leaves on the original writer.
LEMMA CommittedResponse ==
    ASSUME Shape
    PROVE  /\ Committed \in Writer
           /\ Committed.written <=> (Committed.body # <<>>)
           /\ response.body = <<>> => Committed.body = buffer.body
<1>1. /\ buffer.status \in Status /\ buffer.body \in Seq(Sources)
      /\ response \in Writer /\ (response.written <=> (response.body # <<>>))
  BY DEF Shape, Buffer
<1> QED
  BY <1>1, SentResponse DEF Committed

\* What the timeout handler leaves on the original writer.
LEMMA TimeoutResponse ==
    ASSUME Shape, SelectOnce, decided = "none", NEW a \in TimeoutAnswers
    PROVE  /\ Sent(response, a) \in Writer
           /\ Sent(response, a).written <=> (Sent(response, a).body # <<>>)
           /\ Sent(response, a).status = a.status
           /\ Sent(response, a).body = a.body
           /\ a.body \in {<<>>, <<"timeout">>}
<1>1. /\ response \in Writer /\ response.body = <<>> /\ ~response.written
      /\ response.status = "default"
  BY DEF Shape, SelectOnce
<1>5. <<>> \in Seq(Sources) /\ <<"timeout">> \in Seq(Sources)
  OBVIOUS
<1>2. /\ a.status \in Status /\ a.body \in {<<>>, <<"timeout">>}
      /\ a.body \in Seq(Sources)
  <2>1. a.status \in {"default", "timeout"} /\ a.body \in {<<>>, <<"timeout">>}
    BY DEF TimeoutAnswers
  <2> QED
    BY <1>5, <2>1
<1>3. response.written <=> (response.body # <<>>)
  BY <1>1
<1>4. /\ Sent(response, a) \in Writer
      /\ Sent(response, a).written <=> (Sent(response, a).body # <<>>)
      /\ Sent(response, a).body = a.body
      /\ Sent(response, a).status =
           IF a.status = "default" THEN response.status ELSE a.status
  BY <1>1, <1>2, <1>3, SentResponse
<1> QED
  BY <1>1, <1>2, <1>4

-----------------------------------------------------------------------------
(* The invariant *)

LEMMA InitIInv == Init => IInv
<1> SUFFICES ASSUME Init PROVE IInv
  OBVIOUS
<1>1. /\ pc["worker"] = "handler" /\ pc["original"] = "select"
      /\ index["worker"] = 1 /\ index["original"] = 0
  BY DEF Init
<1>2. pc \in [Runs -> {"handler", "recover", "close", "done", "select",
                       "returned", "panicked"}]
  BY DEF Init
<1>3. index \in [Runs -> 0..N + 1] /\ writes \in [Runs -> 0..MaxWrites]
  BY DEF Init
<1>4. buffer \in Buffer /\ buffer.body = <<>> /\ ~buffer.written
      /\ ~buffer.timedOut
  BY DEF Init, Buffer
<1>5. response \in Writer /\ response.body = <<>> /\ ~response.written
  BY DEF Init, Writer
<1>6. Len(buffer.body) <= writes["worker"]
  BY <1>3, <1>4
<1>7. /\ \A r \in Runs : pc[r] = "handler" => index[r] <= N
      /\ index["original"] <= N
  BY <1>1, 1 <= N, 0 <= N
<1>8. /\ buffer.written <=> (buffer.body # <<>>)
      /\ response.written <=> (response.body # <<>>)
  BY <1>4, <1>5
<1>9. /\ ctxDone \in BOOLEAN /\ panicChan \in BOOLEAN /\ threw \in BOOLEAN
      /\ decided \in {"none", "commit", "panic", "timeout"}
      /\ answered \in TimeoutAnswers
  BY DEF Init, NoAnswer, TimeoutAnswers
<1>10. Shape
  BY <1>1, <1>2, <1>3, <1>4, <1>5, <1>6, <1>7, <1>8, <1>9 DEF Shape
<1>11. SelectOnce
  BY <1>1, <1>4 DEF Init, SelectOnce
<1>12. PanicReported /\ TimeoutAnswered
  BY <1>1 DEF Init, PanicReported, TimeoutAnswered
<1>13. CommittedWhole
  BY <1>4, <1>5 DEF Init, CommittedWhole
<1> QED
  BY <1>10, <1>11, <1>12, <1>13 DEF IInv

\* Each step keeps the shape of the variables.
LEMMA ShapeStep == Shape /\ SelectOnce /\ [Next]_vars => Shape'
<1> SUFFICES ASSUME Shape /\ SelectOnce, [Next]_vars PROVE Shape'
  OBVIOUS
<1> USE DEF runVars, Shape
<1>1. ASSUME NEW r \in Runs, HandlerSetsStatus(r) PROVE Shape'
  <2>1. CASE r = "worker"
    BY <1>1, <2>1, StatusSetBuffer DEF HandlerSetsStatus
  <2>2. CASE r = "original"
    BY <1>1, <2>2, StatusSetResponse DEF HandlerSetsStatus
  <2> QED
    BY <2>1, <2>2
<1>2. ASSUME NEW r \in Runs, HandlerWrites(r) PROVE Shape'
  <2>1. CASE r = "worker"
    <3>1. /\ buffer' = BufferWrite /\ response' = response
          /\ writes' = [writes EXCEPT ![r] = @ + 1] /\ writes[r] < MaxWrites
          /\ UNCHANGED <<pc, index, ctxDone, panicChan, decided, answered, threw>>
      BY <1>2, <2>1 DEF HandlerWrites
    <3>2. buffer' \in Buffer /\ (buffer.written <=> (buffer.body # <<>>))'
          /\ Len(buffer'.body) <= Len(buffer.body) + 1
      BY <3>1, BufferWriteBuffer
    <3>3. Len(buffer.body) \in Nat /\ Len(buffer'.body) \in Nat
      BY <3>2 DEF Buffer
    <3>4. writes' \in [Runs -> 0..MaxWrites] /\ writes'["worker"] = writes["worker"] + 1
      BY <3>1, <2>1
    <3>5. Len(buffer'.body) <= writes'["worker"]
      BY <3>2, <3>3, <3>4
    <3> QED
      BY <3>1, <3>2, <3>4, <3>5
  <2>2. CASE r = "original"
    <3>1. /\ response' = Written(response, <<"original">>) /\ buffer' = buffer
          /\ writes' = [writes EXCEPT ![r] = @ + 1] /\ writes[r] < MaxWrites
          /\ UNCHANGED <<pc, index, ctxDone, panicChan, decided, answered, threw>>
      BY <1>2, <2>2 DEF HandlerWrites
    <3>2. response' \in Writer /\ (response.written <=> (response.body # <<>>))'
      BY <3>1, <<"original">> \in Seq(Sources), WrittenResponse
    <3>3. writes' \in [Runs -> 0..MaxWrites] /\ writes'["worker"] = writes["worker"]
      BY <3>1, <2>2
    <3> QED
      BY <3>1, <3>2, <3>3
  <2> QED
    BY <2>1, <2>2
<1>3. ASSUME NEW r \in Runs, HandlerReturns(r) PROVE Shape'
  BY <1>3 DEF HandlerReturns, runVars, RunFrom, EndOf, Decide
<1>4. ASSUME NEW r \in Runs, HandlerAborts(r) PROVE Shape'
  BY <1>4 DEF HandlerAborts, runVars, RunFrom, EndOf, Decide
<1>5. ASSUME NEW r \in Runs, HandlerPanics(r) PROVE Shape'
  BY <1>5 DEF HandlerPanics, runVars, RunFrom, EndOf, Decide
<1>6. ASSUME SendPanic PROVE Shape'
  BY <1>6 DEF SendPanic, runVars, RunFrom, EndOf, Decide
<1>7. ASSUME CloseDone PROVE Shape'
  BY <1>7 DEF CloseDone, runVars, RunFrom, EndOf, Decide
<1>8. ASSUME SelectPanic PROVE Shape'
  BY <1>8 DEF SelectPanic, runVars, RunFrom, EndOf, Decide
<1>9. ASSUME SelectDone PROVE Shape'
  <2>1. response' \in Writer /\ (response.written <=> (response.body # <<>>))'
    BY <1>9, CommittedResponse DEF SelectDone
  <2> QED
    BY <1>9, <2>1 DEF SelectDone, RunFrom, Decide
<1>10. ASSUME SelectTimeout PROVE Shape'
  <2>1. decided = "none"
    BY <1>10 DEF SelectTimeout, Decide, SelectOnce
  <2>4. PICK a \in TimeoutAnswers :
           response' = Sent(response, a) /\ AfterTimeout(a)
    BY <1>10 DEF SelectTimeout
  <2>2. response' \in Writer /\ (response.written <=> (response.body # <<>>))'
    BY <2>1, <2>4, TimeoutResponse
  <2>3. buffer' \in Buffer /\ buffer'.body = buffer.body
        /\ buffer'.written = buffer.written
    BY <1>10 DEF SelectTimeout, Buffer
  <2> QED
    BY <1>10, <2>2, <2>3, <2>4 DEF SelectTimeout, AfterTimeout, RunFrom, Decide
<1>11. ASSUME ContextEnds PROVE Shape'
  BY <1>11 DEF ContextEnds, runVars, RunFrom, EndOf, Decide
<1>12. ASSUME UNCHANGED vars PROVE Shape'
  BY <1>12 DEF vars, runVars, RunFrom, EndOf, Decide
<1> QED
  BY <1>1, <1>2, <1>3, <1>4, <1>5, <1>6, <1>7, <1>8, <1>9, <1>10, <1>11, <1>12
  DEF Next, Handle, Select, Finished

\* The select decides once, and a timeout closes the buffer.
LEMMA SelectOnceStep == Shape /\ SelectOnce /\ [Next]_vars => SelectOnce'
<1> SUFFICES ASSUME Shape /\ SelectOnce, [Next]_vars PROVE SelectOnce'
  OBVIOUS
<1> USE DEF runVars, Shape, SelectOnce
<1>1. ASSUME NEW r \in Runs, HandlerSetsStatus(r) PROVE SelectOnce'
  <2>1. CASE r = "worker"
    BY <1>1, <2>1, StatusSetBuffer DEF HandlerSetsStatus
  <2>2. CASE r = "original"
    BY <1>1, <2>2 DEF HandlerSetsStatus
  <2> QED
    BY <2>1, <2>2
<1>2. ASSUME NEW r \in Runs, HandlerWrites(r) PROVE SelectOnce'
  <2>1. CASE r = "worker"
    BY <1>2, <2>1, BufferWriteBuffer DEF HandlerWrites
  <2>2. CASE r = "original"
    BY <1>2, <2>2 DEF HandlerWrites
  <2> QED
    BY <2>1, <2>2
<1>3. ASSUME NEW r \in Runs, HandlerReturns(r) PROVE SelectOnce'
  BY <1>3 DEF HandlerReturns, runVars, RunFrom, EndOf, Decide
<1>4. ASSUME NEW r \in Runs, HandlerAborts(r) PROVE SelectOnce'
  BY <1>4 DEF HandlerAborts, runVars, RunFrom, EndOf, Decide
<1>5. ASSUME NEW r \in Runs, HandlerPanics(r) PROVE SelectOnce'
  BY <1>5 DEF HandlerPanics, runVars, RunFrom, EndOf, Decide
<1>6. ASSUME SendPanic PROVE SelectOnce'
  BY <1>6 DEF SendPanic, runVars, RunFrom, EndOf, Decide
<1>7. ASSUME CloseDone PROVE SelectOnce'
  BY <1>7 DEF CloseDone, runVars, RunFrom, EndOf, Decide
<1>8. ASSUME SelectPanic PROVE SelectOnce'
  BY <1>8 DEF SelectPanic, runVars, RunFrom, EndOf, Decide
<1>9. ASSUME SelectDone PROVE SelectOnce'
  BY <1>9 DEF SelectDone, runVars, RunFrom, EndOf, Decide
<1>10. ASSUME SelectTimeout PROVE SelectOnce'
  <2>1. buffer'.timedOut
    BY <1>10 DEF SelectTimeout, Buffer
  <2> QED
    BY <1>10, <2>1 DEF SelectTimeout, AfterTimeout, RunFrom, Decide
<1>11. ASSUME ContextEnds PROVE SelectOnce'
  BY <1>11 DEF ContextEnds, runVars, RunFrom, EndOf, Decide
<1>12. ASSUME UNCHANGED vars PROVE SelectOnce'
  BY <1>12 DEF vars, runVars, RunFrom, EndOf, Decide
<1> QED
  BY <1>1, <1>2, <1>3, <1>4, <1>5, <1>6, <1>7, <1>8, <1>9, <1>10, <1>11, <1>12
  DEF Next, Handle, Select, Finished

\* A panic reaches the channel before done is closed.
LEMMA PanicStep == Shape /\ SelectOnce /\ PanicReported /\ [Next]_vars => PanicReported'
<1> SUFFICES ASSUME Shape /\ SelectOnce /\ PanicReported, [Next]_vars PROVE PanicReported'
  OBVIOUS
<1> USE DEF runVars, Shape, SelectOnce, PanicReported
<1>1. ASSUME NEW r \in Runs, HandlerSetsStatus(r) PROVE PanicReported'
  BY <1>1 DEF HandlerSetsStatus, runVars, RunFrom, EndOf, Decide
<1>2. ASSUME NEW r \in Runs, HandlerWrites(r) PROVE PanicReported'
  BY <1>2 DEF HandlerWrites, runVars, RunFrom, EndOf, Decide
<1>3. ASSUME NEW r \in Runs, HandlerReturns(r) PROVE PanicReported'
  BY <1>3 DEF HandlerReturns, runVars, RunFrom, EndOf, Decide
<1>4. ASSUME NEW r \in Runs, HandlerAborts(r) PROVE PanicReported'
  BY <1>4 DEF HandlerAborts, runVars, RunFrom, EndOf, Decide
<1>5. ASSUME NEW r \in Runs, HandlerPanics(r) PROVE PanicReported'
  BY <1>5 DEF HandlerPanics, runVars, RunFrom, EndOf, Decide
<1>6. ASSUME SendPanic PROVE PanicReported'
  BY <1>6 DEF SendPanic, runVars, RunFrom, EndOf, Decide
<1>7. ASSUME CloseDone PROVE PanicReported'
  BY <1>7 DEF CloseDone, runVars, RunFrom, EndOf, Decide
<1>8. ASSUME SelectPanic PROVE PanicReported'
  BY <1>8 DEF SelectPanic, runVars, RunFrom, EndOf, Decide
<1>9. ASSUME SelectDone PROVE PanicReported'
  BY <1>9 DEF SelectDone, runVars, RunFrom, EndOf, Decide
<1>10. ASSUME SelectTimeout PROVE PanicReported'
  BY <1>10 DEF SelectTimeout, AfterTimeout, runVars, RunFrom, EndOf, Decide
<1>11. ASSUME ContextEnds PROVE PanicReported'
  BY <1>11 DEF ContextEnds, runVars, RunFrom, EndOf, Decide
<1>12. ASSUME UNCHANGED vars PROVE PanicReported'
  BY <1>12 DEF vars, runVars, RunFrom, EndOf, Decide
<1> QED
  BY <1>1, <1>2, <1>3, <1>4, <1>5, <1>6, <1>7, <1>8, <1>9, <1>10, <1>11, <1>12
  DEF Next, Handle, Select, Finished

\* Neither run of the handlers replaces a timeout response.
LEMMA StatusStep == Shape /\ SelectOnce /\ TimeoutAnswered /\ [Next]_vars => TimeoutAnswered'
<1> SUFFICES ASSUME Shape /\ SelectOnce /\ TimeoutAnswered, [Next]_vars PROVE TimeoutAnswered'
  OBVIOUS
<1> USE DEF runVars
<1>1. ASSUME NEW r \in Runs, HandlerSetsStatus(r) PROVE TimeoutAnswered'
  <2> USE DEF Shape, TimeoutAnswered
  <2>1. CASE r = "worker"
    BY <1>1, <2>1 DEF HandlerSetsStatus
  <2>2. CASE r = "original"
    <3>1. response \in Writer /\ r \in Status
      BY <2>2
    <3> QED
      BY <1>1, <2>2, <3>1, StatusSetResponse DEF HandlerSetsStatus
  <2> QED
    BY <2>1, <2>2
<1>2. ASSUME NEW r \in Runs, HandlerWrites(r) PROVE TimeoutAnswered'
  <2> USE DEF Shape, TimeoutAnswered
  <2>1. CASE r = "worker"
    BY <1>2, <2>1 DEF HandlerWrites
  <2>2. CASE r = "original"
    <3>1. /\ response \in Writer /\ (response.written <=> (response.body # <<>>))
          /\ <<"original">> \in Seq(Sources)
      OBVIOUS
    <3>2. response' = Written(response, <<"original">>) /\ decided' = decided /\ answered' = answered
      BY <1>2, <2>2 DEF HandlerWrites
    <3>3. /\ response'.status = response.status
          /\ response.body # <<>> =>
                response'.body # <<>> /\ response'.body[1] = response.body[1]
      BY <3>1, <3>2, WrittenResponse
    <3> QED
      BY <3>2, <3>3
  <2> QED
    BY <2>1, <2>2
<1>3. ASSUME NEW r \in Runs, HandlerReturns(r) PROVE TimeoutAnswered'
  BY <1>3 DEF HandlerReturns, runVars, RunFrom, EndOf, Decide, TimeoutAnswered
<1>4. ASSUME NEW r \in Runs, HandlerAborts(r) PROVE TimeoutAnswered'
  BY <1>4 DEF HandlerAborts, runVars, RunFrom, EndOf, Decide, TimeoutAnswered
<1>5. ASSUME NEW r \in Runs, HandlerPanics(r) PROVE TimeoutAnswered'
  BY <1>5 DEF HandlerPanics, runVars, RunFrom, EndOf, Decide, TimeoutAnswered
<1>6. ASSUME SendPanic PROVE TimeoutAnswered'
  BY <1>6 DEF SendPanic, runVars, RunFrom, EndOf, Decide, TimeoutAnswered
<1>7. ASSUME CloseDone PROVE TimeoutAnswered'
  BY <1>7 DEF CloseDone, runVars, RunFrom, EndOf, Decide, TimeoutAnswered
<1>8. ASSUME SelectPanic PROVE TimeoutAnswered'
  BY <1>8 DEF SelectPanic, Decide, TimeoutAnswered
<1>9. ASSUME SelectDone PROVE TimeoutAnswered'
  BY <1>9 DEF SelectDone, Decide, TimeoutAnswered
<1>10. ASSUME SelectTimeout PROVE TimeoutAnswered'
  <2>1. decided = "none"
    BY <1>10 DEF SelectTimeout, Decide, SelectOnce
  <2>2. PICK a \in TimeoutAnswers :
           response' = Sent(response, a) /\ AfterTimeout(a)
    BY <1>10 DEF SelectTimeout
  <2>3. /\ answered' = a /\ response'.status = a.status
        /\ response'.body = a.body /\ a.body \in {<<>>, <<"timeout">>}
    BY <2>1, <2>2, TimeoutResponse DEF AfterTimeout
  <2> QED
    BY <2>3 DEF TimeoutAnswered
<1>11. ASSUME ContextEnds PROVE TimeoutAnswered'
  BY <1>11 DEF ContextEnds, runVars, RunFrom, EndOf, Decide, TimeoutAnswered
<1>12. ASSUME UNCHANGED vars PROVE TimeoutAnswered'
  BY <1>12 DEF vars, runVars, RunFrom, EndOf, Decide, TimeoutAnswered
<1> QED
  BY <1>1, <1>2, <1>3, <1>4, <1>5, <1>6, <1>7, <1>8, <1>9, <1>10, <1>11, <1>12
  DEF Next, Handle, Select, Finished

\* Only the commit puts chunks of the goroutine into the response.
LEMMA WholeStep == Shape /\ SelectOnce /\ PanicReported /\ CommittedWhole /\ [Next]_vars => CommittedWhole'
<1> SUFFICES ASSUME Shape /\ SelectOnce /\ PanicReported /\ CommittedWhole, [Next]_vars PROVE CommittedWhole'
  OBVIOUS
<1> USE DEF runVars
<1>1. ASSUME NEW r \in Runs, HandlerSetsStatus(r) PROVE CommittedWhole'
  <2> USE DEF Shape, CommittedWhole
  <2>1. CASE r = "worker"
    BY <1>1, <2>1, StatusSetBuffer DEF HandlerSetsStatus
  <2>2. CASE r = "original"
    BY <1>1, <2>2, StatusSetResponse DEF HandlerSetsStatus
  <2> QED
    BY <2>1, <2>2
<1>2. ASSUME NEW r \in Runs, HandlerWrites(r) PROVE CommittedWhole'
  <2>1. CASE r = "worker"
    <3>1. decided # "commit"
      BY <1>2, <2>1 DEF HandlerWrites, PanicReported
    <3> QED
      BY <1>2, <2>1, <3>1 DEF HandlerWrites, CommittedWhole
  <2>2. CASE r = "original"
    <3>1. response \in Writer /\ (response.written <=> (response.body # <<>>))
          /\ <<"original">> \in Seq(Sources)
      BY DEF Shape
    <3>2. response'.body = response.body \o <<"original">> /\ buffer' = buffer
          /\ decided' = decided
      BY <1>2, <2>2, <3>1, WrittenResponse DEF HandlerWrites
    <3>3. /\ response.body \in Seq(Sources) /\ Len(response.body) \in Nat
          /\ Len(buffer.body) \in Nat
      BY DEF Shape, Writer, Buffer
    <3>4. /\ Len(response'.body) = Len(response.body) + 1
          /\ \A i \in 1..Len(response.body) : response'.body[i] = response.body[i]
          /\ response'.body[Len(response.body) + 1] = "original"
      BY <3>2, <3>3
    <3>5. \A i \in 1..Len(response'.body) :
             i \in 1..Len(response.body) \/ i = Len(response.body) + 1
      BY <3>3, <3>4
    <3> QED
      BY <3>2, <3>3, <3>4, <3>5 DEF CommittedWhole
  <2> QED
    BY <2>1, <2>2
<1>3. ASSUME NEW r \in Runs, HandlerReturns(r) PROVE CommittedWhole'
  BY <1>3 DEF HandlerReturns, runVars, RunFrom, EndOf, Decide, CommittedWhole
<1>4. ASSUME NEW r \in Runs, HandlerAborts(r) PROVE CommittedWhole'
  BY <1>4 DEF HandlerAborts, runVars, RunFrom, EndOf, Decide, CommittedWhole
<1>5. ASSUME NEW r \in Runs, HandlerPanics(r) PROVE CommittedWhole'
  BY <1>5 DEF HandlerPanics, runVars, RunFrom, EndOf, Decide, CommittedWhole
<1>6. ASSUME SendPanic PROVE CommittedWhole'
  BY <1>6 DEF SendPanic, runVars, RunFrom, EndOf, Decide, CommittedWhole
<1>7. ASSUME CloseDone PROVE CommittedWhole'
  BY <1>7 DEF CloseDone, runVars, RunFrom, EndOf, Decide, CommittedWhole
<1>8. ASSUME SelectPanic PROVE CommittedWhole'
  <2>1. decided = "none" /\ response.body = <<>>
    BY <1>8 DEF SelectPanic, Decide, SelectOnce
  <2>2. response' = response /\ decided' = "panic"
    BY <1>8 DEF SelectPanic, Decide
  <2> QED
    BY <2>1, <2>2 DEF CommittedWhole
<1>9. ASSUME SelectDone PROVE CommittedWhole'
  <2>1. decided = "none" /\ response.body = <<>>
    BY <1>9 DEF SelectDone, Decide, SelectOnce
  <2>2. response'.body = buffer.body /\ buffer' = buffer /\ decided' = "commit"
    BY <1>9, <2>1, CommittedResponse DEF SelectDone, Decide
  <2>3. buffer.body \in Seq({"worker"})
    BY DEF Shape, Buffer
  <2>4. \A i \in 1..Len(buffer.body) : buffer.body[i] = "worker"
    BY <2>3
  <2> QED
    BY <2>2, <2>3, <2>4 DEF CommittedWhole
<1>10. ASSUME SelectTimeout PROVE CommittedWhole'
  <2>1. decided = "none"
    BY <1>10 DEF SelectTimeout, Decide, SelectOnce
  <2>4. PICK a \in TimeoutAnswers : response' = Sent(response, a)
    BY <1>10 DEF SelectTimeout
  <2>2. response'.body \in {<<>>, <<"timeout">>} /\ decided' = "timeout"
    BY <1>10, <2>1, <2>4, TimeoutResponse DEF SelectTimeout, Decide
  <2>3. \A i \in 1..Len(response'.body) : response'.body[i] = "timeout"
    BY <2>2
  <2> QED
    BY <2>2, <2>3 DEF CommittedWhole
<1>11. ASSUME ContextEnds PROVE CommittedWhole'
  BY <1>11 DEF ContextEnds, runVars, RunFrom, EndOf, Decide, CommittedWhole
<1>12. ASSUME UNCHANGED vars PROVE CommittedWhole'
  BY <1>12 DEF vars, runVars, RunFrom, EndOf, Decide, CommittedWhole
<1> QED
  BY <1>1, <1>2, <1>3, <1>4, <1>5, <1>6, <1>7, <1>8, <1>9, <1>10, <1>11, <1>12
  DEF Next, Handle, Select, Finished

THEOREM Invariance == Spec => []IInv
<1>1. IInv /\ [Next]_vars => IInv'
  BY ShapeStep, SelectOnceStep, PanicStep, StatusStep, WholeStep DEF IInv
<1> QED
  BY <1>1, InitIInv, PTL DEF Spec

-----------------------------------------------------------------------------
(* The properties *)

\* Every variable keeps its type; the buffer is marked late exactly when the
\* select took the deadline (markTimedOut).
THEOREM TypeCorrect == Spec => []TypeOK
<1>1. IInv => TypeOK
  <2> SUFFICES ASSUME IInv PROVE TypeOK
    OBVIOUS
  <2>1. Shape /\ SelectOnce
    BY DEF IInv
  <2>2. buffer.written \in BOOLEAN /\ buffer.timedOut \in BOOLEAN
        /\ response.written \in BOOLEAN
    BY <2>1 DEF Shape, Buffer, Writer
  <2>3. /\ buffer.written = (buffer.body # <<>>)
        /\ buffer.timedOut = (decided = "timeout")
        /\ response.written = (response.body # <<>>)
    BY <2>1, <2>2, Zenon DEF Shape, SelectOnce
  <2>4. Len(buffer.body) <= MaxWrites
    BY <2>1 DEF Shape, Buffer
  <2>5. /\ buffer.status \in {"default", "worker"} /\ response.status \in Status
        /\ buffer.body \in Seq({"worker"}) /\ response.body \in Seq(Sources)
    BY <2>1 DEF Shape, Buffer, Writer
  <2> QED
    BY <2>1, <2>3, <2>4, <2>5 DEF TypeOK, Shape
<1> QED
  BY <1>1, Invariance, PTL

\* The goroutine's output reaches the client whole, and only after the handlers
\* ended without a panic, for any number of handlers and writes
\* (executeWithTimeout, commitToOriginal).
THEOREM OutputIsAllOrNothing == Spec => []AllOrNothing
<1>1. IInv => AllOrNothing
  <2> SUFFICES ASSUME IInv PROVE AllOrNothing
    OBVIOUS
  <2>1. DOMAIN response.body = 1..Len(response.body)
    BY DEF IInv, Shape, Writer
  <2> QED
    BY <2>1 DEF IInv, CommittedWhole, PanicReported, AllOrNothing
<1> QED
  BY <1>1, Invariance, PTL

\* The page a timeout handler wrote stands, its status and its body, whatever
\* both runs of the handlers do (executeWithTimeout, writeJSONResponse,
\* TimeoutWithCustomResponse).
THEOREM TimeoutResponseStands == Spec => []TimeoutStatusStands
<1>1. IInv => TimeoutStatusStands
  BY DEF IInv, TimeoutAnswered, TimeoutStatusStands
<1> QED
  BY <1>1, Invariance, PTL

\* After the decision the buffered body does not change, however long the
\* handlers go on (bufferedResponseWriter.Write).
THEOREM BufferIsSealed == Spec => BufferSealed
<1> DEFINE Late == decided \in {"commit", "timeout"}
<1>1. IInv /\ [Next]_vars => [Late => UNCHANGED (buffer.body)]_vars
  <2> SUFFICES ASSUME IInv, Next, Late PROVE UNCHANGED (buffer.body)
    OBVIOUS
  <2>1. Shape /\ SelectOnce /\ PanicReported
    BY DEF IInv
  <2>2. ASSUME NEW r \in Runs, HandlerSetsStatus(r) PROVE UNCHANGED (buffer.body)
    BY <2>1, <2>2, StatusSetBuffer DEF HandlerSetsStatus, Shape
  <2>3. ASSUME NEW r \in Runs, HandlerWrites(r) PROVE UNCHANGED (buffer.body)
    <3>1. CASE r = "worker"
      <4>1. decided = "timeout"
        BY <2>1, <2>3, <3>1 DEF HandlerWrites, PanicReported
      <4>2. buffer.timedOut
        BY <2>1, <4>1 DEF SelectOnce
      <4> QED
        BY <2>3, <3>1, <4>2 DEF HandlerWrites, BufferWrite
    <3>2. CASE r = "original"
      BY <2>3, <3>2 DEF HandlerWrites
    <3> QED
      BY <3>1, <3>2
  <2>4. ASSUME NEW r \in Runs,
               HandlerReturns(r) \/ HandlerAborts(r) \/ HandlerPanics(r)
        PROVE  UNCHANGED (buffer.body)
    BY <2>4 DEF HandlerReturns, HandlerAborts, HandlerPanics
  <2>5. ASSUME SendPanic \/ CloseDone \/ ContextEnds \/ Finished
        PROVE  UNCHANGED (buffer.body)
    BY <2>5 DEF SendPanic, CloseDone, ContextEnds, Finished, vars
  <2>6. ASSUME Select PROVE UNCHANGED (buffer.body)
    BY <2>1, <2>6 DEF Select, SelectPanic, SelectDone, SelectTimeout,
                      AfterTimeout, Decide, SelectOnce
  <2> QED
    BY <2>2, <2>3, <2>4, <2>5, <2>6 DEF Next, Handle
<1> QED
  BY <1>1, Invariance, PTL DEF Spec, BufferSealed
=============================================================================
