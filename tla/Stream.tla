------------------------------- MODULE Stream -------------------------------
(***************************************************************************)
(* One instrumented gRPC stream (mic_part4/util/otgrpc): the client span of *)
(* client.go and the server span of server.go.  The client span must be     *)
(* finished by exactly one of: the goroutines in Header, SendMsg and        *)
(* CloseSend, the one in RecvMsg, the goroutine that watches the stream's   *)
(* context, and the finalizer of a stream the program has dropped.          *)
(*                                                                          *)
(* grpc-go's side of the stream is external: an RPC that ends has a code,   *)
(* SendMsg on an ended stream returns io.EOF, and every call that returns   *)
(* the end cancels the stream's context before it returns.                  *)
(***************************************************************************)
EXTENDS Naturals

CONSTANT Caller      \* goroutines in Header, SendMsg or CloseSend

\* The goroutine in RecvMsg, the one of newOpenTracingClientStream, and the
\* one that runs finalizers.
CONSTANTS recv, watch, gc

ASSUME ProcsAssumption ==
    /\ {recv, watch, gc} \cap Caller = {}
    /\ recv # watch /\ recv # gc /\ watch # gc

User == Caller \cup {recv}
Proc == User \cup {watch, gc}

\* One code of each class, and Canceled, which is nobody's fault.
Code == {"OK", "Canceled", "NotFound", "Internal", "Unknown"}

\* What finishFunc is called with: nil, io.EOF, the context's error, a status.
Nil == "OK"
Plain == {"EOF", "ctx"}      \* errors without a status
Err == Code \cup Plain

VARIABLES
    opts,         \* the client's and the server's options
    pc,           \* where each process is
    arg,          \* the error each process calls finishFunc with
    isFinished,   \* the flag of the compare-and-swap
    closed,       \* finishChan is closed
    span,         \* the client span
    finishes,     \* how often it was finished
    sspan,        \* the server span
    result,       \* the RPC's code once it has ended
    ctx,          \* the stream's context is done
    sawError,     \* RecvMsg returned an error other than io.EOF
    dropped       \* nothing of the program refers to the stream any more

vars == <<opts, pc, arg, isFinished, closed, span, finishes, sspan, result,
          ctx, sawError, dropped>>

NoSpan == [state |-> "none", class |-> "none", error |-> FALSE, parent |-> "none"]

\* newOptions and the Options applied to it.
Options == [client : BOOLEAN,          \* the client's inclusionFunc lets the stream in
            server : BOOLEAN]          \* the server's does

Init ==
    /\ opts \in Options
    /\ pc = [p \in Proc |-> "none"]
    /\ arg = [p \in Proc |-> Nil]
    /\ isFinished = FALSE
    /\ closed = FALSE
    /\ span = NoSpan
    /\ finishes = 0
    /\ sspan = NoSpan
    /\ result = "open"
    /\ ctx = FALSE
    /\ sawError = FALSE
    /\ dropped = FALSE

-----------------------------------------------------------------------------
\* status.FromError knows no code of an error without a status.
CodeOf(err) == IF err \in Plain THEN "Unknown" ELSE err

ErrorClass(err) ==
    CASE CodeOf(err) \in {"OK", "Canceled"} -> "2xx"
      [] CodeOf(err) = "NotFound" -> "4xx"
      [] CodeOf(err) = "Internal" -> "5xx"
      [] OTHER -> "0xx"

\* A slip: a client span is marked like a server span.
MutSetSpanTag(s, err, client) ==
    [s EXCEPT !.class = ErrorClass(err),
              !.error = err # Nil /\ (client => ErrorClass(err) = "5xx")]

SetSpanTag(s, err, client) ==
    [s EXCEPT !.class = ErrorClass(err),
              !.error = err # Nil /\ (client \/ ErrorClass(err) = "5xx")]

\* StartSpan with ChildOf or RPCServerOption.
Started(parent) == [NoSpan EXCEPT !.state = "started", !.parent = parent]
Finished(s) == [s EXCEPT !.state = "finished"]

\* Process p calls finishFunc with err.
Call(p, err) ==
    /\ pc' = [pc EXCEPT ![p] = "claim"]
    /\ arg' = [arg EXCEPT ![p] = err]

-----------------------------------------------------------------------------
\* OpenTracingStreamClientInterceptor of a stream that is not included.
OpenPlain ==
    /\ ~opts.client /\ pc[recv] = "none"
    /\ pc' = [p \in Proc |-> IF p \in User THEN "plain" ELSE "exit"]
    /\ UNCHANGED <<opts, arg, isFinished, closed, span, finishes, sspan, result,
                   ctx, sawError, dropped>>

\* streamer returned an error: there is no stream, the span ends at once.
OpenFails ==
    /\ opts.client /\ pc[recv] = "none"
    /\ pc' = [p \in Proc |-> "exit"]
    /\ \E err \in Code \ {Nil} :
        /\ span' = Finished(SetSpanTag(Started("root"), err, TRUE))
        /\ result' = err
    /\ finishes' = finishes + 1
    /\ UNCHANGED <<opts, arg, isFinished, closed, sspan, ctx, sawError, dropped>>

\* newOpenTracingClientStream
Open ==
    /\ opts.client /\ pc[recv] = "none"
    /\ span' = Started("root")
    /\ pc' = [p \in Proc |-> IF p = watch THEN "select" ELSE "idle"]
    /\ UNCHANGED <<opts, arg, isFinished, closed, finishes, sspan, result, ctx,
                   sawError, dropped>>

\* The header reaches the server: OpenTracingStreamServerInterceptor starts its
\* span, a child of the one injected, before the handler runs.
Serve ==
    /\ pc[recv] \in {"plain", "idle"} /\ result = "open"
    /\ opts.server /\ sspan.state = "none"
    /\ sspan' = Started(IF opts.client THEN "client" ELSE "root")
    /\ UNCHANGED <<opts, pc, arg, isFinished, closed, span, finishes, result, ctx,
                   sawError, dropped>>

\* The handler returns; grpc sends its status when the interceptor, Finish
\* included, has returned.  A status is late for an RPC that was aborted.
Handled(err) ==
    /\ pc[recv] # "none"
    /\ IF opts.server
         THEN /\ sspan.state = "started"
              /\ sspan' = Finished(IF err = Nil THEN sspan
                                   ELSE SetSpanTag(sspan, err, FALSE))
         ELSE result = "open" /\ UNCHANGED sspan
    /\ result' = IF result = "open" THEN err ELSE result
    /\ UNCHANGED <<opts, pc, arg, isFinished, closed, span, finishes, ctx,
                   sawError, dropped>>

\* The connection breaks, or the caller's context is cancelled or expires.
Abort ==
    /\ result = "open" /\ pc[recv] # "none"
    /\ \/ result' = "Internal" /\ UNCHANGED ctx
       \/ result' = "Canceled" /\ ctx' = TRUE
    /\ UNCHANGED <<opts, pc, arg, isFinished, closed, span, finishes, sspan,
                   sawError, dropped>>

-----------------------------------------------------------------------------
\* Header, SendMsg, CloseSend: a call on an ended stream returns io.EOF or its
\* code; one that fails by itself ends the stream.
SendReturns(p) ==
    /\ p \in Caller /\ pc[p] = "idle" /\ ~dropped
    /\ \/ /\ result # "open"
          /\ Call(p, "EOF")
          /\ UNCHANGED <<result, ctx>>
       \/ /\ result \notin {"open", "OK"}
          /\ Call(p, result)
          /\ ctx' = TRUE
          /\ UNCHANGED result
       \/ /\ result = "open"
          /\ Call(p, "Internal")
          /\ result' = "Internal" /\ ctx' = TRUE
    /\ UNCHANGED <<opts, isFinished, closed, span, finishes, sspan, sawError,
                   dropped>>

\* A slip: every end of the stream is taken for io.EOF.
MutRecvReturns ==
    /\ pc[recv] = "idle" /\ ~dropped
    /\ result # "open"
    /\ Call(recv, Nil)
    /\ ctx' = TRUE
    /\ sawError' = (result # "OK")
    /\ UNCHANGED <<opts, isFinished, closed, span, finishes, sspan, result, dropped>>

\* RecvMsg returns io.EOF or, without ServerStreams, the only message: both
\* mean success.  (A message of a server stream changes nothing here.)
RecvReturns ==
    /\ pc[recv] = "idle" /\ ~dropped
    /\ result # "open"
    /\ Call(recv, result)
    /\ ctx' = TRUE
    /\ sawError' = (result # "OK")
    /\ UNCHANGED <<opts, isFinished, closed, span, finishes, sspan, result, dropped>>

\* The program lets go of the stream, whether or not it read it to the end.
Drop ==
    /\ ~dropped /\ pc[recv] # "none"
    /\ \A p \in User : pc[p] \in {"idle", "plain", "exit"}
    /\ dropped' = TRUE
    /\ UNCHANGED <<opts, pc, arg, isFinished, closed, span, finishes, sspan,
                   result, ctx, sawError>>

\* A slip: the watcher's closure holds on to the stream it watches.
MutFinalize ==
    /\ dropped /\ pc[gc] = "idle" /\ pc[watch] = "exit"
    /\ Call(gc, Nil)
    /\ UNCHANGED <<opts, isFinished, closed, span, finishes, sspan, result, ctx,
                   sawError, dropped>>

\* runtime.SetFinalizer: the watcher refers to the inner stream only.
Finalize ==
    /\ dropped /\ pc[gc] = "idle"
    /\ Call(gc, Nil)
    /\ UNCHANGED <<opts, isFinished, closed, span, finishes, sspan, result, ctx,
                   sawError, dropped>>

\* The select of the watcher; with both channels ready it takes either.
WatchFinished ==
    /\ pc[watch] = "select" /\ closed
    /\ pc' = [pc EXCEPT ![watch] = "exit"]
    /\ UNCHANGED <<opts, arg, isFinished, closed, span, finishes, sspan, result,
                   ctx, sawError, dropped>>
WatchDone ==
    /\ pc[watch] = "select" /\ ctx
    /\ Call(watch, "ctx")
    /\ UNCHANGED <<opts, isFinished, closed, span, finishes, sspan, result, ctx,
                   sawError, dropped>>

-----------------------------------------------------------------------------
\* A slip: finishChan itself serves as the flag.
MutClaim(p) ==
    /\ pc[p] = "claim"
    /\ pc' = [pc EXCEPT ![p] = IF closed THEN "exit" ELSE "close"]
    /\ isFinished' = TRUE
    /\ UNCHANGED <<opts, arg, closed, span, finishes, sspan, result, ctx, sawError,
                   dropped>>

\* finishFunc: CompareAndSwapInt32 lets one process through.
Claim(p) ==
    /\ pc[p] = "claim"
    /\ IF isFinished
         THEN pc' = [pc EXCEPT ![p] = "exit"] /\ UNCHANGED isFinished
         ELSE pc' = [pc EXCEPT ![p] = "close"] /\ isFinished' = TRUE
    /\ UNCHANGED <<opts, arg, closed, span, finishes, sspan, result, ctx, sawError,
                   dropped>>

\* close(finishChan)
Close(p) ==
    /\ pc[p] = "close"
    /\ closed' = TRUE
    /\ pc' = [pc EXCEPT ![p] = "tag"]
    /\ UNCHANGED <<opts, arg, isFinished, span, finishes, sspan, result, ctx,
                   sawError, dropped>>

\* The error, if any, is written to the span.
TagSpan(p) ==
    /\ pc[p] = "tag"
    /\ span' = IF arg[p] = Nil THEN span ELSE SetSpanTag(span, arg[p], TRUE)
    /\ pc' = [pc EXCEPT ![p] = "finish"]
    /\ UNCHANGED <<opts, arg, isFinished, closed, finishes, sspan, result, ctx,
                   sawError, dropped>>

\* The deferred clientSpan.Finish, after the decorator.
FinishSpan(p) ==
    /\ pc[p] = "finish"
    /\ span' = Finished(span)
    /\ finishes' = finishes + 1
    /\ pc' = [pc EXCEPT ![p] = "exit"]
    /\ UNCHANGED <<opts, arg, isFinished, closed, sspan, result, ctx, sawError,
                   dropped>>

FinishFunc(p) == Claim(p) \/ Close(p) \/ TagSpan(p) \/ FinishSpan(p)

-----------------------------------------------------------------------------
\* The program is done with the stream.
Terminating ==
    /\ dropped
    /\ \A p \in User : pc[p] \in {"plain", "idle", "exit"}
    /\ UNCHANGED vars

Next ==
    \/ OpenPlain \/ OpenFails \/ Open
    \/ Serve \/ (\E err \in Code : Handled(err)) \/ Abort
    \/ RecvReturns \/ Drop \/ Finalize \/ WatchFinished \/ WatchDone
    \/ \E p \in Proc : SendReturns(p) \/ FinishFunc(p)
    \/ Terminating

Spec == Init /\ [][Next]_vars

\* Goroutines run on; a handler returns; the program some day lets go of a
\* stream, and the garbage collector finds it.  Nothing makes it read the
\* stream to its end, or the RPC end.
FairSpec ==
    /\ Spec
    /\ WF_vars(Open \/ OpenPlain \/ OpenFails) /\ WF_vars(Drop) /\ WF_vars(Finalize)
    /\ WF_vars(WatchFinished \/ WatchDone)
    /\ WF_vars(\E err \in Code : Handled(err))
    /\ \A p \in Proc : WF_vars(FinishFunc(p))

-----------------------------------------------------------------------------
Span == [state : {"none", "started", "finished"}, error : BOOLEAN,
         class : {"none", "0xx", "2xx", "4xx", "5xx"},
         parent : {"none", "root", "client"}]

TypeOK ==
    /\ opts \in Options
    /\ pc \in [Proc -> {"none", "plain", "idle", "select", "claim", "close", "tag",
                        "finish", "exit"}]
    /\ arg \in [Proc -> Err]
    /\ isFinished \in BOOLEAN /\ closed \in BOOLEAN
    /\ span \in Span /\ sspan \in Span
    /\ finishes \in 0..1
    /\ result \in Code \cup {"open"}
    /\ ctx \in BOOLEAN /\ sawError \in BOOLEAN /\ dropped \in BOOLEAN

\* "The current OpenTracing specification forbids finishing a span more than
\* once" (client.go:151), and nothing is written to a finished span, whichever
\* of the five processes meet in finishFunc.
FinishedOnce ==
    [][span.state = "finished" => span' = span /\ finishes' = finishes]_vars

\* A stream whose reader got an error leaves a span marked as failed, even when
\* another goroutine, the watcher or the finalizer finished the span first.
FailureIsTagged == sawError /\ span.state = "finished" => span.error

\* Every span that was started is finished and the watcher goroutine ends, also
\* for a stream nobody read to its end (client.go:186).
Ends ==
    /\ span.state = "started" ~> span.state = "finished"
    /\ pc[watch] = "select" ~> pc[watch] = "exit"
    /\ sspan.state = "started" ~> sspan.state = "finished"
=============================================================================
