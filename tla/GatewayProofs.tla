---------------------------- MODULE GatewayProofs ----------------------------
(***************************************************************************)
(* Proofs about Gateway, for any set of requests: whose tracer a request's  *)
(* span belongs to, and where it is lost.                                   *)
(***************************************************************************)
EXTENDS Gateway, TLAPS

Labels == {"routed", "check", "call", "start", "rpc", "served", "panic", "leave", "done"}
Types ==
    /\ route \in [Req -> Route]
    /\ pc \in [Req -> Labels]
    /\ tracer \in [Client -> Req \cup {noop}]
    /\ span \in [Req -> Req \cup {noop}]

\* q is a request for client c behind the line that assigns its tracer to the
\* variable that all of them share.
Assigned(q, c) ==
    /\ q \in Req /\ route[q] \in Traced /\ route[q].client = c
    /\ pc[q] \in {"start", "rpc", "served", "leave", "done"}

Shared == \A c \in Client : tracer[c] # noop => Assigned(tracer[c], c)
Tracers ==
    /\ Shared
    /\ \A r \in Req : span[r] # noop => Assigned(span[r], route[r].client)

\* A traced request's tracer is open until the request is done.
OpenTracers ==
    \A q \in Req : route[q] \in Traced /\ pc[q] \notin {"routed", "done"} => q \in open

\* A client span is lost by the return of its RPC, to a tracer that was closed.
LostSpans ==
    \A r \in Req : <<"client", r>> \in lost =>
        /\ pc[r] \in {"leave", "done"}
        /\ span[r] \in Req \ {r} /\ pc[span[r]] = "done"
        /\ route[span[r]].client = route[r].client

Inv == Types /\ Tracers /\ OpenTracers /\ LostSpans

-----------------------------------------------------------------------------
LEMMA Routes ==
    ASSUME NEW h \in Route
    PROVE  h.client \in Client /\ (h.ctx => h \in Traced)
  <1>1. CASE h \in CartRoutes
    BY <1>1 DEF CartRoutes, Client, Traced, ShopCartHandler, AddCartHandler,
       DeleteCartHandler, UpdateCartHandler
  <1>2. CASE h \in OrderRoutes
    BY <1>2 DEF OrderRoutes, Client, Traced, OrderListHandler, OrderDetailHandler,
       OrderCreateHandler
  <1>3. CASE h \in ProductRoutes
    BY <1>3 DEF ProductRoutes, Client, ProductHandler, ProductAddHandler,
       ProductDetailHandler, ProductDeleteHandler, ProductUpdateHandler
  <1> QED
    BY <1>1, <1>2, <1>3 DEF Route

\* A request that moves on from one label to a later one.
LEMMA Move ==
    ASSUME Inv, NEW r \in Req, NEW l \in Labels, Goto(r, l), l # "routed", l # "done",
           pc[r] \in {"start", "rpc", "served"} => l \in {"rpc", "served", "leave"},
           pc[r] \notin {"routed", "leave", "done"},
           UNCHANGED <<route, open, tracer>>
    PROVE  /\ pc' \in [Req -> Labels] /\ OpenTracers'
           /\ \A q \in Req, c \in Client : Assigned(q, c) => Assigned(q, c)'
           /\ \A q \in Req : pc[q] \in {"leave", "done"} => pc'[q] = pc[q]
           /\ pc'[r] = l
  BY DEF Inv, Types, Goto, OpenTracers, Assigned

LEMMA InvStep == Inv /\ [Next]_vars => Inv'
  <1> SUFFICES ASSUME Inv, [Next]_vars PROVE Inv'
    OBVIOUS
  <1>0. \A r \in Req : route[r] \in Route /\ route[r].client \in Client
                       /\ (route[r].ctx => route[r] \in Traced)
    BY Routes DEF Inv, Types
  \* a step that touches no span and keeps what was assigned
  <1>1. ASSUME Types', OpenTracers',
               \A q \in Req, c \in Client : Assigned(q, c) => Assigned(q, c)',
               Shared',
               \A q \in Req : pc[q] \in {"leave", "done"} /\ pc'[q] # pc[q] => pc'[q] = "done",
               UNCHANGED <<route, span, lost>>
        PROVE  Inv'
    <2>0. \A r \in Req : span[r] # noop =>
                            Assigned(span[r], route[r].client)'
      BY <1>0, <1>1 DEF Inv, Tracers, Assigned
    <2>1. Tracers'
      BY <1>1, <2>0 DEF Tracers
    <2>2. LostSpans'
      BY <1>1 DEF Inv, LostSpans
    <2> QED
      BY <1>1, <2>1, <2>2 DEF Inv
  <1>2. ASSUME NEW r \in Req, Tracing(r) PROVE Inv'
    <2>1. Types' /\ OpenTracers' /\ pc[r] = "routed"
      BY <1>2 DEF Tracing, Goto, Inv, Types, Labels, OpenTracers
    <2>2. \A q \in Req, c \in Client : Assigned(q, c) => Assigned(q, c)'
      BY <1>2 DEF Tracing, Goto, Inv, Types, Assigned
    <2>3. UNCHANGED <<route, tracer, span, lost>>
      BY <1>2 DEF Tracing
    <2>4. Shared'
      BY <2>2, <2>3 DEF Inv, Types, Tracers, Shared
    <2>5. \A q \in Req : pc[q] \in {"leave", "done"} => pc'[q] = pc[q]
      BY <1>2 DEF Tracing, Goto, Inv, Types
    <2> QED
      BY <1>1, <2>1, <2>2, <2>3, <2>4, <2>5
  <1>3. ASSUME NEW r \in Req, Check(r) \/ CheckFails(r) \/ Recovery(r) PROVE Inv'
    <2>1. PICK l \in {"call", "leave", "panic"} : Goto(r, l)
      BY <1>3 DEF Check, CheckFails, Recovery
    <2>2. pc[r] \in {"check", "panic"} /\ UNCHANGED <<route, open, tracer, span, lost>>
      BY <1>3 DEF Check, CheckFails, Recovery
    <2>3. /\ pc' \in [Req -> Labels] /\ OpenTracers'
          /\ \A q \in Req, c \in Client : Assigned(q, c) => Assigned(q, c)'
          /\ \A q \in Req : pc[q] \in {"leave", "done"} => pc'[q] = pc[q]
      BY <2>1, <2>2, Move DEF Labels
    <2>4. Types'
      BY <2>2, <2>3 DEF Inv, Types
    <2>5. Shared'
      BY <2>2, <2>3 DEF Inv, Types, Tracers, Shared
    <2> QED
      BY <1>1, <2>2, <2>3, <2>4, <2>5
  <1>4. ASSUME NEW r \in Req, TakeTracer(r) PROVE Inv'
    <2>1. PICK l \in {"start", "rpc"} : Goto(r, l) /\ (route[r] \in Traced => l = "start")
      BY <1>4 DEF TakeTracer
    <2>2. pc[r] = "call" /\ UNCHANGED <<route, open, span, lost>>
      BY <1>4 DEF TakeTracer
    <2>3. /\ pc' \in [Req -> Labels] /\ OpenTracers'
          /\ \A q \in Req, c \in Client : Assigned(q, c) => Assigned(q, c)'
          /\ \A q \in Req : pc[q] \in {"leave", "done"} => pc'[q] = pc[q]
      BY <2>1, <2>2 DEF Inv, Types, Goto, OpenTracers, Assigned, Labels
    <2>4. /\ tracer' \in [Client -> Req \cup {noop}]
          /\ \A c \in Client : \/ tracer'[c] = tracer[c]
                               \/ tracer'[c] = r /\ c = route[r].client /\ route[r].ctx
      <3>1. tracer \in [Client -> Req \cup {noop}] /\ route[r].client \in Client
        BY <1>0 DEF Inv, Types
      <3>2. \/ tracer' = tracer
            \/ tracer' = [tracer EXCEPT ![route[r].client] = r] /\ route[r].ctx
        BY <1>4 DEF TakeTracer
      <3> QED
        BY <3>1, <3>2
    <2>5. Assigned(r, route[r].client)' \/ route[r] \notin Traced
      BY <2>1, <2>2 DEF Goto, Assigned, Inv, Types
    <2>6. Types'
      BY <2>2, <2>3, <2>4 DEF Inv, Types
    <2>7. Shared'
      <3> SUFFICES ASSUME NEW c \in Client, tracer'[c] # noop
                   PROVE  Assigned(tracer[c], c)'
        BY DEF Shared
      <3>1. CASE tracer'[c] = tracer[c]
        BY <2>3, <3>1 DEF Inv, Types, Tracers, Shared
      <3>2. CASE tracer'[c] = r /\ c = route[r].client /\ route[r].ctx
        BY <1>0, <2>2, <2>5, <3>2 DEF Assigned
      <3> QED
        BY <2>4, <3>1, <3>2
    <2> QED
      BY <1>1, <2>2, <2>3, <2>6, <2>7
  <1>5. ASSUME NEW r \in Req, StartSpan(r) PROVE Inv'
    <2> DEFINE t == tracer[route[r].client]
    <2>1. /\ pc[r] = "start" /\ Goto(r, "rpc")
          /\ UNCHANGED <<route, open, tracer, lost>>
      BY <1>5 DEF StartSpan
    <2>2. /\ pc' \in [Req -> Labels] /\ OpenTracers'
          /\ \A q \in Req, c \in Client : Assigned(q, c) => Assigned(q, c)'
          /\ \A q \in Req : pc[q] \in {"leave", "done"} => pc'[q] = pc[q]
          /\ pc'[r] = "rpc"
      BY <2>1, Move DEF Labels
    <2>3. t \in Req \cup {noop} /\ (t # noop => Assigned(t, route[r].client))
      BY <1>0 DEF Inv, Types, Tracers, Shared
    <2>4. span' = [span EXCEPT ![r] = t]
      BY <1>5 DEF StartSpan
    <2> HIDE DEF t
    <2>5. span'[r] = t /\ \A q \in Req : q # r => span'[q] = span[q]
      BY <2>4 DEF Inv, Types
    <2>7. Types'
      BY <2>1, <2>2, <2>3, <2>4 DEF Inv, Types
    <2>8. Tracers'
      BY <1>0, <2>1, <2>2, <2>3, <2>5 DEF Inv, Types, Tracers, Shared, Assigned
    <2>9. LostSpans'
      BY <2>1, <2>2, <2>5 DEF Inv, LostSpans
    <2> QED
      BY <2>2, <2>7, <2>8, <2>9 DEF Inv
  <1>6. ASSUME NEW r \in Req, Serve(r) PROVE Inv'
    <2>1. /\ pc[r] = "rpc" /\ Goto(r, "served")
          /\ UNCHANGED <<route, open, tracer, span>>
      BY <1>6 DEF Serve
    <2>2. /\ pc' \in [Req -> Labels] /\ OpenTracers'
          /\ \A q \in Req, c \in Client : Assigned(q, c) => Assigned(q, c)'
          /\ \A q \in Req : pc[q] \in {"leave", "done"} => pc'[q] = pc[q]
          /\ pc'[r] = "served"
      BY <2>1, Move DEF Labels
    <2>3. \A q \in Req : <<"client", q>> \in lost' => <<"client", q>> \in lost
      BY <1>6 DEF Serve, Finish
    <2>4. Types' /\ Tracers'
      BY <1>0, <2>1, <2>2 DEF Inv, Types, Tracers, Shared, Assigned
    <2>5. LostSpans'
      BY <2>1, <2>2, <2>3 DEF Inv, LostSpans
    <2> QED
      BY <2>2, <2>4, <2>5 DEF Inv
  <1>7. ASSUME NEW r \in Req, RpcOk(r) \/ RpcFails(r) PROVE Inv'
    <2>1. /\ pc[r] \in {"rpc", "served"} /\ Goto(r, "leave") /\ Returned(r)
          /\ UNCHANGED <<route, open, tracer, span>>
      BY <1>7 DEF RpcOk, RpcFails
    <2>2. /\ pc' \in [Req -> Labels] /\ OpenTracers'
          /\ \A q \in Req, c \in Client : Assigned(q, c) => Assigned(q, c)'
          /\ \A q \in Req : pc[q] \in {"leave", "done"} => pc'[q] = pc[q]
          /\ pc'[r] = "leave"
      BY <2>1, Move DEF Labels
    <2>3. Types' /\ Tracers'
      BY <1>0, <2>1, <2>2 DEF Inv, Types, Tracers, Shared, Assigned
    \* the tracer of a lost span was closed, so its request is done
    <2>4. \A q \in Req : <<"client", q>> \in lost' =>
            \/ <<"client", q>> \in lost
            \/ q = r /\ span[r] # noop /\ span[r] \notin open
      BY <2>1 DEF Returned, Finish
    <2>5. ASSUME span[r] # noop, span[r] \notin open
          PROVE  /\ span[r] \in Req \ {r} /\ pc[span[r]] = "done"
                 /\ route[span[r]].client = route[r].client
      <3>1. Assigned(span[r], route[r].client)
        BY <2>5 DEF Inv, Tracers
      <3>2. pc[span[r]] = "done"
        BY <2>5, <3>1 DEF Inv, OpenTracers, Assigned
      <3> QED
        BY <2>1, <3>1, <3>2 DEF Assigned
    <2>6. LostSpans'
      BY <2>1, <2>2, <2>4, <2>5 DEF Inv, LostSpans
    <2> QED
      BY <2>2, <2>3, <2>6 DEF Inv
  <1>8. ASSUME NEW r \in Req, Leave(r) PROVE Inv'
    <2>1. Types' /\ OpenTracers'
      BY <1>8 DEF Leave, Goto, Inv, Types, Labels, OpenTracers
    <2>2. \A q \in Req, c \in Client : Assigned(q, c) => Assigned(q, c)'
      BY <1>8 DEF Leave, Goto, Inv, Types, Assigned
    <2>3. \A q \in Req : pc'[q] # pc[q] => pc'[q] = "done"
      BY <1>8 DEF Leave, Goto, Inv, Types
    <2>4. UNCHANGED <<route, span, lost, tracer>>
      BY <1>8 DEF Leave
    <2>5. Shared'
      BY <2>2, <2>4 DEF Inv, Types, Tracers, Shared
    <2> QED
      BY <1>1, <2>1, <2>2, <2>3, <2>4, <2>5
  <1>9. CASE UNCHANGED vars
    BY <1>9 DEF vars, Inv, Types, Tracers, Shared, Assigned, OpenTracers, LostSpans
  <1> QED
    BY <1>2, <1>3, <1>4, <1>5, <1>6, <1>7, <1>8, <1>9 DEF Next, Step, Terminating

LEMMA InvInductive == Spec => []Inv
  <1>1. Init => Inv
    <2> SUFFICES ASSUME Init PROVE Inv
      OBVIOUS
    <2>1. Types
      BY DEF Init, Types, Labels
    <2>2. Tracers /\ OpenTracers /\ LostSpans
      BY DEF Init, Tracers, Shared, OpenTracers, LostSpans
    <2> QED
      BY <2>1, <2>2 DEF Inv
  <1> QED
    BY <1>1, InvStep, PTL DEF Spec

-----------------------------------------------------------------------------
\* The span of an RPC is lost only to the tracer of another request of the same
\* client that is over (jaeger_tracing.go:13-45, otgrpc/client.go:30-37).
THEOREM SpansAreLostToOthers == Spec => []OwnSpanReported
  <1>1. Inv => OwnSpanReported
    BY DEF Inv, LostSpans, OwnSpanReported
  <1> QED
    BY <1>1, InvInductive, PTL
=============================================================================
