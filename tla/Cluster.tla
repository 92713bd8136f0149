------------------------------ MODULE Cluster ------------------------------
(***************************************************************************)
(* The processes of the system and how they find each other: each picks a   *)
(* port that was free when it asked, announces itself in Consul, and only   *)
(* then listens; callers resolve a service's name to the ports announced    *)
(* under it and send their calls to whoever listens there now.              *)
(*                                                                          *)
(* Starts are numbered, the number is the (random) id of a registration.    *)
(* fixed says which slips are taken as repaired: "resolver", no resolver    *)
(* for consul:// is linked in; "name", cartorder_web dials the name it      *)
(* registers for itself; "order", cartorder_srv does not register           *)
(* OrderService; "clients", its product and stock clients are never made.   *)
(***************************************************************************)
EXTENDS Rpc, Naturals

CONSTANTS Kind,         \* the processes: what each of them is an instance of
          Ephemeral,    \* the ports the kernel hands out
          ConfPort,     \* the ports of the configuration, by kind
          Repairs,      \* the sets of repairs considered
          MaxStarts     \* bound on the number of starts

Process == DOMAIN Kind
ServerKind == {"product", "stock", "cart"}
WebKind == {"product_web", "cart_web"}
NoPort == 0

ASSUME ClusterAssumption ==
    /\ \A p \in Process : Kind[p] \in ServerKind \cup WebKind
    /\ \A t \in Ephemeral : t # NoPort /\ \A k \in DOMAIN ConfPort : ConfPort[k] # t

VARIABLES
    fixed,        \* the repaired slips
    debug,        \* AppConf.Debug
    starts,       \* how many times a process was started
    pc,           \* where each process is
    id,           \* its registration's id
    port,         \* the port it has picked last
    registry,     \* Consul: id, name, port and checked port of each entry
    addrs         \* what each caller's resolver has for each service

vars == <<fixed, debug, starts, pc, id, port, registry, addrs>>

Servers == {p \in Process : Kind[p] \in ServerKind}
Webs == {p \in Process : Kind[p] \in WebKind}
Ports == Ephemeral \cup {ConfPort[k] : k \in DOMAIN ConfPort}

Listening(t) == {p \in Process : pc[p] = "running" /\ port[p] = t}
Alive(p) == pc[p] # "off"

\* net.Listen on a port of the kernel's choice, closed again on return: the
\* port is free at this moment and nothing keeps it so.
GenRandomPort(t) == t \in Ephemeral /\ Listening(t) = {}

-----------------------------------------------------------------------------
\* The services a running process answers for.
Registered(p) ==
    CASE Kind[p] = "product" -> {"ProductService"}
      [] Kind[p] = "stock" -> {"StockService"}
      [] Kind[p] = "cart" ->
            {"ShopCartService"} \cup (IF "order" \in fixed THEN {"OrderService"} ELSE {})
      [] Kind[p] \in WebKind -> {}

\* The kind of server that has s; the name s is dialled by.
Provider(s) == CASE s = "ProductService" -> "product"
                 [] s = "StockService" -> "stock"
                 [] s \in {"ShopCartService", "OrderService"} -> "cart"
CartName == IF "name" \in fixed THEN "cart" ELSE "cart_web"
OrderName == IF "name" \in fixed THEN "cart" ELSE "cart_web"
Dialled(s) == CASE s = "ShopCartService" -> CartName
                [] s = "OrderService" -> OrderName
                [] OTHER -> Provider(s)

\* A process has a resolver for s when its connection is made at all.
Dials(p, s) ==
    /\ <<Kind[p], s>> \in Calls /\ Alive(p) /\ "resolver" \in fixed
    /\ Kind[p] = "cart" => "clients" \in fixed

\* Consul's view of GET /health: gin answers it, a gRPC server does not.
Healthy(t) == \E p \in Listening(t) : p \in Webs

Entry(n, name, t, check) == [id |-> n, name |-> name, port |-> t, check |-> check]

-----------------------------------------------------------------------------
Init ==
    /\ fixed \in Repairs /\ debug \in BOOLEAN /\ starts = 0
    /\ pc = [p \in Process |-> "off"]
    /\ id = [p \in Process |-> 0]
    /\ port = [p \in Process |-> NoPort]
    /\ registry = {}
    /\ addrs = [p \in Process |-> [s \in Service |-> {}]]

\* A process ends (a panic, a crash, an exit): the kernel closes its listener,
\* what it had in memory is gone, its registration stays.
Gone(p) ==
    /\ pc' = [pc EXCEPT ![p] = "off"]
    /\ id' = [id EXCEPT ![p] = 0] /\ port' = [port EXCEPT ![p] = NoPort]
    /\ addrs' = [addrs EXCEPT ![p] = [s \in Service |-> {}]]
    /\ UNCHANGED <<fixed, debug, starts>>
Crash(p) == Alive(p) /\ Gone(p) /\ UNCHANGED registry

\* Configuration and database are there (a process without them panics before
\* anybody knows of it), main or the web's init picks a port.
Start(p, t) ==
    /\ pc[p] = "off" /\ starts < MaxStarts
    /\ IF p \in Webs /\ debug THEN t = ConfPort[Kind[p]] ELSE GenRandomPort(t)
    /\ starts' = starts + 1
    /\ id' = [id EXCEPT ![p] = starts']
    /\ pc' = [pc EXCEPT ![p] = "picked"] /\ port' = [port EXCEPT ![p] = t]
    /\ UNCHANGED <<fixed, debug, registry, addrs>>

\* A server announces its port with no check.  (When Consul refuses, it
\* panics: Crash.)
MutServerEntry(p) == Entry(id[p], Kind[p], port[p], ConfPort["cart"])  \* a slip: a check
ServerEntry(p) == Entry(id[p], Kind[p], port[p], NoPort)
RegisterServer(p) ==
    /\ p \in Servers /\ pc[p] = "picked"
    /\ registry' = registry \cup {ServerEntry(p)}
    /\ pc' = [pc EXCEPT ![p] = "announced"]
    /\ UNCHANGED <<fixed, debug, starts, id, port, addrs>>

\* A web announces the port that init picked; the health check goes to the
\* port of the configuration: the web's own (part 2), the server's (part 4).  The
\* configuration of product_web gives it the name of the server.
ProductWebEntry(p) == Entry(id[p], "product", port[p], ConfPort["product_web"])
MutCartWebEntry(p) == Entry(id[p], Kind[p], port[p], NoPort)        \* a slip: no check
CartWebEntry(p) == Entry(id[p], Kind[p], port[p], ConfPort["cart"])
WebEntry(p) == IF Kind[p] = "product_web" THEN ProductWebEntry(p) ELSE CartWebEntry(p)

\* When Consul refuses, the web goes on without a registration.  Then main
\* picks a port again.
RegisterWeb(p, t) ==
    /\ p \in Webs /\ pc[p] = "picked"
    /\ registry' \in {registry, registry \cup {WebEntry(p)}}
    /\ IF debug THEN t = ConfPort[Kind[p]] ELSE GenRandomPort(t)
    /\ pc' = [pc EXCEPT ![p] = "announced"] /\ port' = [port EXCEPT ![p] = t]
    /\ UNCHANGED <<fixed, debug, starts, id, addrs>>

\* Somebody else may have the port by now: the process ends.
Listen(p) ==
    /\ pc[p] = "announced"
    /\ \/ /\ Listening(port[p]) = {}
          /\ pc' = [pc EXCEPT ![p] = "running"]
          /\ UNCHANGED <<fixed, debug, starts, id, port, registry, addrs>>
       \/ Listening(port[p]) # {} /\ Gone(p) /\ UNCHANGED registry

\* cartorder_web takes its registration back when it is told to stop.  (When
\* that fails it panics: Crash.)
Deregister(p) ==
    /\ Kind[p] = "cart_web" /\ pc[p] \in {"announced", "running"}
    /\ registry' = {r \in registry : r.id # id[p]}
    /\ Gone(p)

\* Consul drops an entry whose check has been failing.
Reap(n) ==
    /\ \E r \in registry :
         r.id = n /\ r.check # NoPort /\ ~Healthy(r.check) /\ registry' = registry \ {r}
    /\ UNCHANGED <<fixed, debug, starts, pc, id, port, addrs>>

\* The resolver of a caller asks Consul again.
Found(s) == {r.port : r \in {e \in registry : e.name = Dialled(s)}}
\* A slip: one address is enough.
MutResolve(p, s) ==
    /\ Dials(p, s)
    /\ \E t \in Found(s) : addrs' = [addrs EXCEPT ![p][s] = {t}]
    /\ UNCHANGED <<fixed, debug, starts, pc, id, port, registry>>
Resolve(p, s) ==
    /\ Dials(p, s)
    /\ addrs' = [addrs EXCEPT ![p][s] = Found(s)]
    /\ UNCHANGED <<fixed, debug, starts, pc, id, port, registry>>

Next ==
    \/ \E p \in Process, t \in Ports : Start(p, t) \/ RegisterWeb(p, t)
    \/ \E p \in Process : RegisterServer(p) \/ Listen(p) \/ Deregister(p) \/ Crash(p)
    \/ \E n \in 1..MaxStarts : Reap(n)
    \/ \E p \in Process, s \in Service : Resolve(p, s)

\* Consul checks once a second for as long as an entry is there.
Spec == Init /\ [][Next]_vars /\ \A n \in 1..MaxStarts : WF_vars(Reap(n))

-----------------------------------------------------------------------------
\* Whoever asks Consul for the name of a server that runs is told its port,
\* whatever other starts left in the registry or took of its ports: it was
\* announced before it listened and, having no check, is never dropped.
Findable ==
    \A q \in Servers : pc[q] = "running" =>
        \E r \in registry : r.id = id[q] /\ r.name = Kind[q] /\ r.port = port[q]

\* A caller that knows a running server never loses it by asking Consul again,
\* whatever crashes, restarts, takes old ports or is removed meanwhile: what is
\* stale joins the addresses it has, it never takes the place of what is not.
NeverLost ==
    [][\A p \in Process, s \in Service : addrs'[p][s] # addrs[p][s] /\ pc'[p] # "off" =>
          \A q \in Servers :
             pc[q] = "running" /\ Dialled(s) = Kind[q] /\ port[q] \in addrs[p][s]
                => port[q] \in addrs'[p][s]]_vars

\* No registration of a web that has ended stays, unless a process of today
\* answers the check of that one.  (product_web has the name of a server, but
\* servers have no check.)
WebEntries == {r \in registry : r.name \in WebKind \/ r.check # NoPort}
Dead(r) == r \in WebEntries /\ \A p \in Process : id[p] # r.id
Reaped == (\E r \in registry : Dead(r) /\ ~Healthy(r.check))
            ~> (\A r \in registry : Dead(r) => Healthy(r.check))

=============================================================================
