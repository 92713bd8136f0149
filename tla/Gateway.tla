------------------------------ MODULE Gateway ------------------------------
(***************************************************************************)
(* The web gateways (product_web, cartorder_web): gin runs every request in *)
(* a goroutine of its own; handlers check their parameters, call a gRPC     *)
(* client that all requests share and write JSON answers.  The routes of    *)
(* cartorder_web are traced: middleware.Tracing makes a Jaeger tracer for   *)
(* each request and closes it behind the request, and the client's unary    *)
(* interceptor (otgrpc) assigns it to a variable that its closure shares.   *)
(*                                                                          *)
(* What differs between handlers is data, see Route; what they have in      *)
(* common are the actions.  fixed says which slips are taken as repaired:   *)
(* "conn", initGrpcClient closes the connection it has just made, so that   *)
(* every RPC fails; "closer", cart_srv's initJaeger closes the tracer it    *)
(* returns.                                                                 *)
(***************************************************************************)
EXTENDS Naturals, Sequences, FiniteSets

CONSTANTS Req,           \* requests in flight
          srv, noop      \* cart_srv's tracer; the global tracer of the gateway

ASSUME TracersAssumption == srv # noop /\ {srv, noop} \cap Req = {}

VARIABLES
    fixed,        \* the repaired slips
    route,        \* the handler each request is for
    pc,           \* where each request is
    good,         \* its parameters pass the handler's checks
    open,         \* tracers that are not closed: one for each request, and srv
    tracer,       \* the variable captured by each client's interceptor
    span,         \* the tracer of each request's client span, noop before
    reported,     \* who finished which span while its tracer was open
    lost,         \* ... or closed
    answers       \* the JSON bodies written

vars == <<fixed, route, pc, good, open, tracer, span, reported, lost, answers>>

-----------------------------------------------------------------------------
(* client: whose connection; ctx: the handler passes the gin context under  *)
(* "webContent"; bind: the JSON body is bound to something; stops: a bad    *)
(* parameter ends the request; panics: it makes the handler panic; fails:   *)
(* what a failed RPC is answered with; returns: the handler returns then.   *)

ShopCartHandler ==
    [client |-> "cart", ctx |-> FALSE, bind |-> TRUE, stops |-> FALSE,
     panics |-> FALSE, fails |-> <<>>, returns |-> FALSE]
\* cart.Id < 1 is reported through err, which is nil by then.
AddCartHandler ==
    [client |-> "cart", ctx |-> FALSE, bind |-> TRUE, stops |-> TRUE,
     panics |-> TRUE, fails |-> <<"error">>, returns |-> TRUE]
DeleteCartHandler ==
    [client |-> "cart", ctx |-> FALSE, bind |-> TRUE, stops |-> TRUE,
     panics |-> FALSE, fails |-> <<"error">>, returns |-> TRUE]
UpdateCartHandler ==
    [client |-> "cart", ctx |-> FALSE, bind |-> TRUE, stops |-> TRUE,
     panics |-> TRUE, fails |-> <<"error">>, returns |-> TRUE]

OrderListHandler ==
    [client |-> "order", ctx |-> TRUE, bind |-> TRUE, stops |-> FALSE,
     panics |-> FALSE, fails |-> <<"error">>, returns |-> FALSE]
OrderDetailHandler ==
    [client |-> "order", ctx |-> TRUE, bind |-> TRUE, stops |-> FALSE,
     panics |-> FALSE, fails |-> <<"error">>, returns |-> FALSE]
\* orderReq is bound by value, which gin refuses.
OrderCreateHandler ==
    [client |-> "order", ctx |-> TRUE, bind |-> FALSE, stops |-> FALSE,
     panics |-> FALSE, fails |-> <<"error">>, returns |-> FALSE]

ProductHandler ==
    [client |-> "product", ctx |-> FALSE, bind |-> TRUE, stops |-> TRUE,
     panics |-> FALSE, fails |-> <<"error">>, returns |-> TRUE]
\* product is a nil pointer: ProductReq2Pb reads through it.
ProductAddHandler ==
    [client |-> "product", ctx |-> FALSE, bind |-> FALSE, stops |-> FALSE,
     panics |-> TRUE, fails |-> <<"error">>, returns |-> FALSE]
ProductDetailHandler ==
    [client |-> "product", ctx |-> FALSE, bind |-> TRUE, stops |-> TRUE,
     panics |-> FALSE, fails |-> <<"error">>, returns |-> TRUE]
ProductDeleteHandler ==
    [client |-> "product", ctx |-> FALSE, bind |-> TRUE, stops |-> TRUE,
     panics |-> FALSE, fails |-> <<"error">>, returns |-> TRUE]
ProductUpdateHandler ==
    [client |-> "product", ctx |-> FALSE, bind |-> FALSE, stops |-> TRUE,
     panics |-> FALSE, fails |-> <<"error">>, returns |-> TRUE]

CartRoutes == {ShopCartHandler, AddCartHandler, DeleteCartHandler, UpdateCartHandler}
OrderRoutes == {OrderListHandler, OrderDetailHandler, OrderCreateHandler}
ProductRoutes == {ProductHandler, ProductAddHandler, ProductDetailHandler,
                  ProductDeleteHandler, ProductUpdateHandler}
Route == CartRoutes \cup OrderRoutes \cup ProductRoutes
Traced == CartRoutes \cup OrderRoutes

Client == {"cart", "order", "product"}

Init ==
    /\ fixed \in SUBSET {"conn", "closer"}
    /\ route \in [Req -> Route]
    /\ pc = [r \in Req |-> "routed"]
    /\ good \in [Req -> BOOLEAN]
    /\ open = IF "closer" \in fixed THEN {srv} ELSE {}
    /\ tracer = [c \in Client |-> noop]
    /\ span = [r \in Req |-> noop]
    /\ reported = {}
    /\ lost = {}
    /\ answers = [r \in Req |-> <<>>]

-----------------------------------------------------------------------------
Goto(r, label) == pc' = [pc EXCEPT ![r] = label]
Write(r, bodies) == answers' = [answers EXCEPT ![r] = @ \o bodies]

\* Finish hands the span to the reporter of its tracer t: behind Close, it is dropped.
Finish(who, r, t) ==
    IF t \in open
      THEN reported' = reported \cup {<<who, r>>} /\ UNCHANGED lost
      ELSE lost' = lost \cup {<<who, r>>} /\ UNCHANGED reported

\* A slip: the closer is not deferred.
MutTracing(r) ==
    /\ pc[r] = "routed"
    /\ Goto(r, "check")
    /\ UNCHANGED <<fixed, route, good, open, tracer, span, reported, lost, answers>>

\* Tracing: without a tracer there is no closer either, and closer.Close
\* panics; gin.Recovery answers.  The request's own span is never finished.
Tracing(r) ==
    /\ pc[r] = "routed"
    /\ \/ /\ route[r] \in Traced
          /\ open' = open \cup {r}
          /\ Goto(r, "check")
          /\ UNCHANGED answers
       \/ /\ route[r] \in Traced
          /\ Write(r, <<"panic">>)
          /\ Goto(r, "done")
          /\ UNCHANGED open
       \/ /\ route[r] \notin Traced
          /\ Goto(r, "check")
          /\ UNCHANGED <<open, answers>>
    /\ UNCHANGED <<fixed, route, good, tracer, span, reported, lost>>

\* Query parameters, path parameters and bodies that are as they should be.
Check(r) ==
    /\ pc[r] = "check"
    /\ good[r] /\ route[r].bind
    /\ Goto(r, "call")
    /\ UNCHANGED <<fixed, route, good, open, tracer, span, reported, lost, answers>>

\* A bad parameter: an answer, and the handler goes on when nobody returns.
CheckFails(r) ==
    /\ pc[r] = "check"
    /\ ~(good[r] /\ route[r].bind)
    /\ \/ /\ Write(r, <<"error">>)
          /\ Goto(r, IF route[r].stops THEN "leave"
                     ELSE IF route[r].panics THEN "panic" ELSE "call")
       \/ /\ route[r].panics /\ route[r].stops    \* Id < 1
          /\ Goto(r, "panic")
          /\ UNCHANGED answers
    /\ UNCHANGED <<fixed, route, good, open, tracer, span, reported, lost>>

\* gin.Recovery; the deferred closer has run by then.
Recovery(r) ==
    /\ pc[r] = "panic"
    /\ Write(r, <<"panic">>)
    /\ Goto(r, "leave")
    /\ UNCHANGED <<fixed, route, good, open, tracer, span, reported, lost>>

\* OpenTracingClientInterceptor, first half: tracer = myTracer, for everybody.
\* A gin context is not found under "webContent" in itself.
TakeTracer(r) ==
    /\ pc[r] = "call"
    /\ IF route[r].ctx THEN tracer' = [tracer EXCEPT ![route[r].client] = r]
       ELSE UNCHANGED tracer
    /\ Goto(r, IF route[r] \in Traced THEN "start" ELSE "rpc")
    /\ UNCHANGED <<fixed, route, good, open, span, reported, lost,
                   answers>>

\* Second half: the tracer that is there now starts the span.
StartSpan(r) ==
    /\ pc[r] = "start"
    /\ span' = [span EXCEPT ![r] = tracer[route[r].client]]
    /\ Goto(r, "rpc")
    /\ UNCHANGED <<fixed, route, good, open, tracer, reported, lost, answers>>

\* The RPC reaches the server: OpenTracingServerInterceptor starts a span of
\* cart_srv's tracer, runs the handler and finishes it.
Serve(r) ==
    /\ pc[r] = "rpc" /\ "conn" \in fixed
    /\ IF route[r] \in Traced THEN Finish("server", r, srv)
       ELSE UNCHANGED <<reported, lost>>
    /\ Goto(r, "served")
    /\ UNCHANGED <<fixed, route, good, open, tracer, span, answers>>

\* invoker returns; the deferred Finish of the client span.
Returned(r) ==
    IF route[r] \in Traced /\ span[r] # noop
      THEN Finish("client", r, span[r])
      ELSE UNCHANGED <<reported, lost>>

\* The RPC is answered.
RpcOk(r) ==
    /\ pc[r] = "served"
    /\ Returned(r)
    /\ Write(r, <<"ok">>)
    /\ Goto(r, "leave")
    /\ UNCHANGED <<fixed, route, good, open, tracer, span>>

\* The service's error, a broken or, as committed, closed connection.
RpcFails(r) ==
    /\ pc[r] \in {"rpc", "served"}
    /\ Returned(r)
    /\ Write(r, route[r].fails \o IF route[r].returns THEN <<>> ELSE <<"ok">>)
    /\ Goto(r, "leave")
    /\ UNCHANGED <<fixed, route, good, open, tracer, span>>

\* ctx.Next returns, closer.Close.
Leave(r) ==
    /\ pc[r] = "leave"
    /\ open' = open \ {r}
    /\ Goto(r, "done")
    /\ UNCHANGED <<fixed, route, good, tracer, span, reported, lost,
                   answers>>

-----------------------------------------------------------------------------
Terminating == (\A r \in Req : pc[r] = "done") /\ UNCHANGED vars

Step(r) ==
    \/ Tracing(r) \/ Check(r) \/ CheckFails(r) \/ Recovery(r) \/ TakeTracer(r)
    \/ StartSpan(r) \/ Serve(r) \/ RpcOk(r) \/ RpcFails(r) \/ Leave(r)

Next == (\E r \in Req : Step(r)) \/ Terminating

Spec == Init /\ [][Next]_vars

-----------------------------------------------------------------------------
\* jaeger_tracing.go:33: the interceptor uses the request's own tracer.  It
\* does, and its span reaches Jaeger, unless another request of the same client
\* assigned the shared variable between the two halves of the interceptor.
OwnSpanReported ==
    \A r \in Req : <<"client", r>> \in lost =>
        \E q \in Req \ {r} : /\ span[r] = q /\ pc[q] = "done"
                             /\ route[q].client = route[r].client
=============================================================================
