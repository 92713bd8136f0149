---------------------------- MODULE StreamProofs ----------------------------
(***************************************************************************)
(* Proofs about Stream, for any set of goroutines in Header, SendMsg and    *)
(* CloseSend: one of all of them finishes the span, and marks it if need be. *)
(***************************************************************************)
EXTENDS Stream, TLAPS

Won == {"close", "tag", "finish"}   \* in finishFunc, behind the compare-and-swap

\* The flag is set by the one that is or was behind it; the span is open as
\* long as nobody has left.
OneWinner ==
    /\ \A p \in Proc : pc[p] \in Won => isFinished /\ span.state = "started"
    /\ \A p, q \in Proc : pc[p] \in Won /\ pc[q] \in Won => p = q
    /\ \A p \in Proc : pc[p] \in {"claim", "idle", "select"} /\ ~isFinished =>
                         span.state = "started"
    /\ span.state = "started" => finishes = 0
    /\ closed => isFinished
    /\ span.state = "none" => /\ finishes = 0
                              /\ \A p \in Proc : pc[p] \in {"none", "plain", "exit"}

\* Until the stream is opened nothing happened on it.
Fresh == pc[recv] = "none" =>
    /\ \A p \in Proc : pc[p] = "none"
    /\ span = NoSpan /\ ~isFinished /\ ~closed /\ finishes = 0

\* RecvMsg's error is its argument as long as it is in finishFunc; the finalizer
\* does not run before RecvMsg is out of it, and whoever else finishes the span
\* of a stream that RecvMsg can still end marks it.
InFinish(p) == pc[p] \in Won \cup {"claim"}
Reader ==
    /\ sawError => /\ InFinish(recv) \/ (pc[recv] = "exit" /\ isFinished)
                   /\ arg[recv] # Nil
    /\ InFinish(recv) => ~dropped
    /\ InFinish(gc) => dropped
    /\ pc[gc] \in Won => ~sawError
Marks ==
    /\ \A p \in Proc : /\ InFinish(p) /\ p \notin {recv, gc} => arg[p] # Nil
                       /\ pc[p] = "finish" /\ arg[p] # Nil => span.error
    /\ span.state = "finished" /\ sawError => span.error
    /\ span.state = "finished" /\ ~dropped /\ pc[recv] = "idle" => span.error

Inv == TypeOK /\ OneWinner /\ Fresh /\ Reader /\ Marks

-----------------------------------------------------------------------------
LEMMA Processes == recv \in Proc /\ watch \in Proc /\ gc \in Proc /\ recv # gc /\ watch # recv /\ watch # gc
  BY ProcsAssumption DEF Proc, User

LEMMA Tags ==
    ASSUME NEW s \in Span, NEW err \in Err, NEW client \in BOOLEAN
    PROVE  /\ SetSpanTag(s, err, client) \in Span
           /\ SetSpanTag(s, err, client).state = s.state
           /\ client /\ err # Nil => SetSpanTag(s, err, client).error = TRUE
  <1>1. ErrorClass(err) \in {"0xx", "2xx", "4xx", "5xx"}
    BY DEF ErrorClass
  <1>2. SetSpanTag(s, err, client) =
          [s EXCEPT !.class = ErrorClass(err),
                    !.error = err # Nil /\ (client \/ ErrorClass(err) = "5xx")]
    BY DEF SetSpanTag
  <1> QED
    BY <1>1, <1>2 DEF Span

LEMMA Spans ==
    /\ NoSpan \in Span
    /\ \A parent \in {"root", "client"} :
         Started(parent) \in Span /\ Started(parent).state = "started"
    /\ \A s \in Span : /\ Finished(s) \in Span /\ Finished(s).state = "finished"
                       /\ Finished(s).error = s.error
  BY DEF Span, NoSpan, Started, Finished

LEMMA TypeStep == Inv /\ [Next]_vars => TypeOK'
  <1> SUFFICES ASSUME Inv, [Next]_vars PROVE TypeOK'
    OBVIOUS
  <1> USE Processes, Spans DEF Inv, TypeOK
  <1>1. CASE OpenPlain
    BY <1>1 DEF OpenPlain, Call
  <1>2. CASE OpenFails
    <2>1. PICK err \in Code \ {Nil} :
            span' = Finished(SetSpanTag(Started("root"), err, TRUE)) /\ result' = err
      BY <1>2 DEF OpenFails
    <2>2. err \in Err
      BY DEF Err
    <2>3. span' \in Span
      BY <2>1, <2>2, Tags
    <2>4. finishes = 0
      BY <1>2 DEF OpenFails, Fresh
    <2>5. finishes' \in 0..1 /\ result' \in Code \cup {"open"}
      BY <1>2, <2>1, <2>4 DEF OpenFails
    <2> QED
      BY <1>2, <2>3, <2>5 DEF OpenFails
  <1>3. CASE Open
    BY <1>3 DEF Open, Call
  <1>4. CASE Serve
    BY <1>4 DEF Serve, Call
  <1>5. CASE Abort
    BY <1>5 DEF Abort, Code
  <1>6. CASE RecvReturns
    <2>1. result \in Err
      BY <1>6 DEF RecvReturns, Err
    <2> QED
      BY <1>6, <2>1 DEF RecvReturns, Call
  <1>7. CASE Drop
    BY <1>7 DEF Drop, Call
  <1>8. CASE Finalize
    BY <1>8 DEF Finalize, Call, Err, Code, Nil
  <1>9. CASE WatchFinished
    BY <1>9 DEF WatchFinished, Call
  <1>10. CASE WatchDone
    BY <1>10 DEF WatchDone, Call, Err, Plain
  <1>11. ASSUME NEW err \in Code, Handled(err) PROVE TypeOK'
    <2>1. err \in Err
      BY DEF Err
    <2>2. SetSpanTag(sspan, err, FALSE) \in Span
      BY <2>1, Tags
    <2>3. sspan' \in Span
      BY <1>11, <2>2, Spans DEF Handled
    <2> QED
      BY <1>11, <2>3 DEF Handled
  <1>12. ASSUME NEW p \in Proc, SendReturns(p) PROVE TypeOK'
    BY <1>12 DEF SendReturns, Call, Err, Plain, Code
  <1>13. ASSUME NEW p \in Proc, Claim(p) PROVE TypeOK'
    BY <1>13 DEF Claim, Call
  <1>14. ASSUME NEW p \in Proc, Close(p) PROVE TypeOK'
    BY <1>14 DEF Close, Call
  <1>15. ASSUME NEW p \in Proc, TagSpan(p) PROVE TypeOK'
    <2>1. span' \in Span
      BY <1>15, Tags DEF TagSpan
    <2> QED
      BY <1>15, <2>1 DEF TagSpan
  <1>16. ASSUME NEW p \in Proc, FinishSpan(p) PROVE TypeOK'
    <2>1. finishes = 0
      BY <1>16 DEF FinishSpan, OneWinner, Won
    <2> QED
      BY <1>16, <2>1 DEF FinishSpan
  <1>17. CASE UNCHANGED vars
    BY <1>17 DEF vars
  <1> QED
    BY <1>1, <1>2, <1>3, <1>4, <1>5, <1>6, <1>7, <1>8, <1>9, <1>10, <1>11, <1>12, <1>13, <1>14, <1>15, <1>16, <1>17
       DEF Next, FinishFunc, Terminating

LEMMA WinnerStep == Inv /\ [Next]_vars => OneWinner' /\ Fresh'
  <1> SUFFICES ASSUME Inv, [Next]_vars PROVE OneWinner' /\ Fresh'
    OBVIOUS
  <1> USE Processes, Spans DEF Inv, TypeOK, OneWinner, Fresh, Won
  <1>1. CASE OpenPlain
    BY <1>1 DEF OpenPlain, Call
  <1>2. CASE OpenFails
    <2>1. PICK err \in Code \ {Nil} :
            span' = Finished(SetSpanTag(Started("root"), err, TRUE))
      BY <1>2 DEF OpenFails
    <2>2. err \in Err
      BY DEF Err
    <2>3. span'.state = "finished"
      BY <2>1, <2>2, Tags
    <2> QED
      BY <1>2, <2>3 DEF OpenFails
  <1>3. CASE Open
    BY <1>3 DEF Open, Call
  <1>4. CASE Serve
    BY <1>4 DEF Serve, Call
  <1>5. CASE Abort
    BY <1>5 DEF Abort, Call
  <1>6. CASE RecvReturns
    BY <1>6 DEF RecvReturns, Call
  <1>7. CASE Drop
    BY <1>7 DEF Drop, Call
  <1>8. CASE Finalize
    BY <1>8 DEF Finalize, Call
  <1>9. CASE WatchFinished
    BY <1>9 DEF WatchFinished, Call
  <1>10. CASE WatchDone
    BY <1>10 DEF WatchDone, Call
  <1>11. ASSUME NEW err \in Code, Handled(err) PROVE OneWinner' /\ Fresh'
    BY <1>11 DEF Handled
  <1>12. ASSUME NEW p \in Proc, SendReturns(p) PROVE OneWinner' /\ Fresh'
    BY <1>12 DEF SendReturns, Call
  <1>13. ASSUME NEW p \in Proc, Claim(p) PROVE OneWinner' /\ Fresh'
    BY <1>13 DEF Claim, Call
  <1>14. ASSUME NEW p \in Proc, Close(p) PROVE OneWinner' /\ Fresh'
    BY <1>14 DEF Close, Call
  <1>15. ASSUME NEW p \in Proc, TagSpan(p) PROVE OneWinner' /\ Fresh'
    <2>1. span'.state = span.state
      BY <1>15, Tags DEF TagSpan
    <2> QED
      BY <1>15, <2>1 DEF TagSpan
  <1>16. ASSUME NEW p \in Proc, FinishSpan(p) PROVE OneWinner' /\ Fresh'
    BY <1>16 DEF FinishSpan, Call
  <1>17. CASE UNCHANGED vars
    BY <1>17 DEF vars
  <1> QED
    BY <1>1, <1>2, <1>3, <1>4, <1>5, <1>6, <1>7, <1>8, <1>9, <1>10, <1>11, <1>12, <1>13, <1>14, <1>15, <1>16, <1>17
       DEF Next, FinishFunc, Terminating

LEMMA MarkStep == Inv /\ [Next]_vars => Reader' /\ Marks'
  <1> SUFFICES ASSUME Inv, [Next]_vars PROVE Reader' /\ Marks'
    OBVIOUS
  <1> USE Processes DEF Inv, TypeOK, OneWinner, Fresh, Won, Reader, Marks, InFinish, Nil
  <1>1. CASE OpenPlain
    BY <1>1 DEF OpenPlain, Call
  <1>2. CASE OpenFails
    <2>1. PICK err \in Code \ {Nil} :
            span' = Finished(SetSpanTag(Started("root"), err, TRUE))
      BY <1>2 DEF OpenFails
    <2>2. err \in Err
      BY DEF Err
    <2>5. Started("root") \in Span
      BY Spans
    <2>6. TRUE \in BOOLEAN /\ err # Nil
      BY <2>1
    <2>3. /\ SetSpanTag(Started("root"), err, TRUE) \in Span
          /\ SetSpanTag(Started("root"), err, TRUE).error = TRUE
      BY <2>2, <2>5, <2>6, Tags
    <2>4. span'.error
      BY <2>1, <2>3, Spans
    <2> QED
      BY <1>2, <2>4 DEF OpenFails
  <1>3. CASE Open
    <2>1. Reader'
      BY <1>3 DEF Open, Call, User
    <2>2. Marks'
      BY <1>3, Spans DEF Open, Call, User
    <2> QED
      BY <2>1, <2>2
  <1>4. CASE Serve
    BY <1>4 DEF Serve, Call
  <1>5. CASE Abort
    BY <1>5 DEF Abort, Call
  <1>6. CASE RecvReturns
    BY <1>6 DEF RecvReturns, Call
  <1>7. CASE Drop
    <2>1. Reader'
      BY <1>7 DEF Drop, Call, User
    <2>2. Marks'
      BY <1>7, Spans DEF Drop, Call, User
    <2> QED
      BY <2>1, <2>2
  <1>8. CASE Finalize
    BY <1>8 DEF Finalize, Call
  <1>9. CASE WatchFinished
    BY <1>9 DEF WatchFinished, Call
  <1>10. CASE WatchDone
    <2>1. Reader'
      BY <1>10 DEF WatchDone, Call, User
    <2>2. Marks'
      BY <1>10, Spans DEF WatchDone, Call, User
    <2> QED
      BY <2>1, <2>2
  <1>11. ASSUME NEW err \in Code, Handled(err) PROVE Reader' /\ Marks'
    BY <1>11 DEF Handled
  <1>12. ASSUME NEW p \in Proc, SendReturns(p) PROVE Reader' /\ Marks'
    <2>1. Reader'
      BY <1>12, ProcsAssumption DEF SendReturns, Call
    <2>2. Marks'
      BY <1>12, Spans DEF SendReturns, Call, User
    <2> QED
      BY <2>1, <2>2
  <1>13. ASSUME NEW p \in Proc, Claim(p) PROVE Reader' /\ Marks'
    BY <1>13 DEF Claim, Call
  <1>14. ASSUME NEW p \in Proc, Close(p) PROVE Reader' /\ Marks'
    BY <1>14 DEF Close, Call
  <1>15. ASSUME NEW p \in Proc, TagSpan(p) PROVE Reader' /\ Marks'
    <2>1. span'.state = span.state /\ (arg[p] # Nil => span'.error)
      BY <1>15, Tags DEF TagSpan
    <2> QED
      BY <1>15, <2>1 DEF TagSpan
  <1>16. ASSUME NEW p \in Proc, FinishSpan(p) PROVE Reader' /\ Marks'
    <2>1. Reader'
      BY <1>16 DEF FinishSpan, Call, User
    <2>2. Marks'
      BY <1>16, Spans DEF FinishSpan, Call, User
    <2> QED
      BY <2>1, <2>2
  <1>17. CASE UNCHANGED vars
    BY <1>17 DEF vars
  <1> QED
    BY <1>1, <1>2, <1>3, <1>4, <1>5, <1>6, <1>7, <1>8, <1>9, <1>10, <1>11, <1>12, <1>13, <1>14, <1>15, <1>16, <1>17
       DEF Next, FinishFunc, Terminating

LEMMA InvInductive == Spec => []Inv
  <1>1. Init => Inv
    <2> SUFFICES ASSUME Init PROVE Inv
      OBVIOUS
    <2>1. TypeOK
      <3>1. arg \in [Proc -> Err]
        BY DEF Init, Err, Code, Nil
      <3>2. span \in Span /\ sspan \in Span
        BY Spans DEF Init
      <3>3. finishes \in 0..1
        BY DEF Init
      <3> QED
        BY <3>1, <3>2, <3>3 DEF Init, TypeOK
    <2>2. OneWinner /\ Fresh
      BY Spans DEF Init, OneWinner, Fresh, Won, NoSpan
    <2>3. Reader /\ Marks
      BY Processes DEF Init, Reader, Marks, InFinish, Won, NoSpan
    <2> QED
      BY <2>1, <2>2, <2>3 DEF Inv
  <1> QED
    BY <1>1, TypeStep, WinnerStep, MarkStep, PTL DEF Spec, Inv

-----------------------------------------------------------------------------
\* The stream, its goroutines and its spans keep their types (client.go:145-215).
THEOREM StreamTypeCorrect == Spec => []TypeOK
  BY InvInductive, PTL DEF Inv

\* Nobody finishes, or writes to, a finished span: the compare-and-swap lets one
\* of the goroutines, the watcher and the finalizer through (client.go:150-191).
THEOREM SpanFinishedOnce == Spec => FinishedOnce
  <1>1. Inv /\ [Next]_vars =>
          (span.state = "finished" => span' = span /\ finishes' = finishes)
    <2> SUFFICES ASSUME Inv, [Next]_vars, span.state = "finished"
                 PROVE  span' = span /\ finishes' = finishes
      OBVIOUS
    <2>1. pc[recv] # "none" /\ \A p \in Proc : pc[p] \notin Won
      BY DEF Inv, OneWinner, Fresh, NoSpan
    <2> QED
      BY <2>1 DEF Next, OpenPlain, OpenFails, Open, Serve, Handled, Abort, RecvReturns,
         Drop, Finalize, WatchFinished, WatchDone, SendReturns, FinishFunc, Claim, Close,
         TagSpan, FinishSpan, Terminating, Won, vars
  <1> QED
    BY <1>1, InvInductive, PTL DEF Spec, FinishedOnce

\* When RecvMsg returned an error the finished span says so, whoever finished it
\* (client.go:150-168, 217-229).
THEOREM FailuresAreTagged == Spec => []FailureIsTagged
  <1>1. Inv => FailureIsTagged
    BY DEF Inv, TypeOK, Marks, FailureIsTagged
  <1> QED
    BY <1>1, InvInductive, PTL
=============================================================================
