--------------------------- MODULE ClusterProofs ---------------------------
(***************************************************************************)
(* Proofs about Cluster, for any processes, ports and numbers of starts.    *)
(***************************************************************************)
EXTENDS Cluster, TLAPS

\* Starts are numbered: the ids in use are below the next one, and no two
\* processes have the same.
IdInv ==
    /\ starts \in Nat
    /\ pc \in [Process -> {"off", "picked", "announced", "running"}]
    /\ id \in [Process -> Nat] /\ port \in [Process -> Ports \cup {NoPort}]
    /\ \A p \in Process : id[p] <= starts /\ (Alive(p) => id[p] # 0)
    /\ \A p, q \in Process : p # q /\ Alive(p) /\ Alive(q) => id[p] # id[q]
    /\ \A r \in registry : r.id \in Nat /\ r.id <= starts

Addresses ==
    /\ \A r \in registry : r.port \in Ports \cup {NoPort}
    /\ addrs \in [Process -> [Service -> SUBSET (Ports \cup {NoPort})]]

\* A server that has announced itself has its entry, without a check.
Announced ==
    \A q \in Servers : pc[q] \in {"announced", "running"} =>
        \E r \in registry : /\ r.id = id[q] /\ r.name = Kind[q] /\ r.port = port[q]
                            /\ r.check = NoPort

-----------------------------------------------------------------------------
LEMMA IdStep == IdInv /\ [Next]_vars => IdInv'
  <1> SUFFICES ASSUME IdInv, [Next]_vars PROVE IdInv'
    OBVIOUS
  <1> USE DEF IdInv, Alive
  <1>1. ASSUME NEW p \in Process, Gone(p), registry' \subseteq registry PROVE IdInv'
    BY <1>1 DEF Gone
  <1>2. ASSUME NEW p \in Process, NEW t \in Ports, Start(p, t) PROVE IdInv'
    BY <1>2 DEF Start
  <1>3. ASSUME NEW p \in Process, NEW t \in Ports, RegisterWeb(p, t) PROVE IdInv'
    BY <1>3 DEF RegisterWeb, WebEntry, ProductWebEntry, CartWebEntry, Entry
  <1>4. ASSUME NEW p \in Process, RegisterServer(p) PROVE IdInv'
    BY <1>4 DEF RegisterServer, ServerEntry, Entry
  <1>5. ASSUME NEW p \in Process, Listen(p) PROVE IdInv'
    BY <1>1, <1>5 DEF Listen
  <1>6. ASSUME NEW p \in Process, Deregister(p) \/ Crash(p) PROVE IdInv'
    BY <1>1, <1>6 DEF Deregister, Crash
  <1>7. ASSUME NEW n \in 1..MaxStarts, Reap(n) PROVE IdInv'
    BY <1>7 DEF Reap
  <1>8. ASSUME NEW p \in Process, NEW s \in Service, Resolve(p, s) PROVE IdInv'
    BY <1>8 DEF Resolve
  <1>9. CASE UNCHANGED vars
    BY <1>9 DEF vars
  <1> QED
    BY <1>2, <1>3, <1>4, <1>5, <1>6, <1>7, <1>8, <1>9 DEF Next

\* An entry is only removed by the process whose id it has, or for its check.
LEMMA AnnouncedStep == IdInv /\ Announced /\ [Next]_vars => Announced'
  <1> SUFFICES ASSUME IdInv, Announced, [Next]_vars,
                      NEW q \in Servers, pc'[q] \in {"announced", "running"}
               PROVE  \E r \in registry' :
                         /\ r.id = id'[q] /\ r.name = Kind[q] /\ r.port = port'[q]
                         /\ r.check = NoPort
    BY DEF Announced
  <1> USE DEF IdInv, Alive
  <1> q \in Process /\ Kind[q] \in ServerKind
    BY DEF Servers
  \* the entry of a server that goes on is kept
  <1>1. ASSUME pc[q] \in {"announced", "running"},
               id'[q] = id[q], port'[q] = port[q],
               \A r \in registry : r.id = id[q] /\ r.check = NoPort => r \in registry'
        PROVE  \E r \in registry' :
                  /\ r.id = id'[q] /\ r.name = Kind[q] /\ r.port = port'[q]
                  /\ r.check = NoPort
    BY <1>1 DEF Announced
  <1>2. ASSUME NEW p \in Process, Gone(p)
        PROVE  /\ p # q /\ pc[q] \in {"announced", "running"}
               /\ id'[q] = id[q] /\ port'[q] = port[q]
    BY <1>2 DEF Gone
  <1>3. CASE \E p \in Process, t \in Ports : Start(p, t)
    BY <1>1, <1>3 DEF Start
  <1>4. CASE \E p \in Process, t \in Ports : RegisterWeb(p, t)
    <2> PICK p \in Process, t \in Ports : RegisterWeb(p, t)
      BY <1>4
    <2>1. p # q
      BY DEF RegisterWeb, Webs, ServerKind, WebKind
    <2> QED
      BY <1>1, <2>1 DEF RegisterWeb
  <1>5. CASE \E p \in Process : RegisterServer(p)
    <2> PICK p \in Process : RegisterServer(p)
      BY <1>5
    <2>1. CASE p = q
      <3>1. ServerEntry(q) \in registry'
        BY <2>1 DEF RegisterServer
      <3>2. /\ ServerEntry(q).id = id'[q] /\ ServerEntry(q).name = Kind[q]
            /\ ServerEntry(q).port = port'[q] /\ ServerEntry(q).check = NoPort
        BY <2>1 DEF RegisterServer, ServerEntry, Entry
      <3> QED
        BY <3>1, <3>2
    <2>2. CASE p # q
      BY <1>1, <2>2 DEF RegisterServer
    <2> QED
      BY <2>1, <2>2
  <1>6. CASE \E p \in Process : Listen(p)
    BY <1>1, <1>2, <1>6 DEF Listen
  <1>7. CASE \E p \in Process : Crash(p)
    BY <1>1, <1>2, <1>7 DEF Crash
  <1>8. CASE \E p \in Process : Deregister(p)
    <2> PICK p \in Process : Deregister(p)
      BY <1>8
    <2>1. /\ p # q /\ pc[q] \in {"announced", "running"}
          /\ id'[q] = id[q] /\ port'[q] = port[q]
      BY <1>2 DEF Deregister
    <2>2. id[p] # id[q]
      BY <2>1 DEF Deregister
    <2> QED
      BY <1>1, <2>1, <2>2 DEF Deregister
  <1>9. CASE \E n \in 1..MaxStarts : Reap(n)
    BY <1>1, <1>9 DEF Reap
  <1>10. CASE \E p \in Process, s \in Service : Resolve(p, s)
    BY <1>1, <1>10 DEF Resolve
  <1>11. CASE UNCHANGED vars
    BY <1>1, <1>11 DEF vars
  <1> QED
    BY <1>3, <1>4, <1>5, <1>6, <1>7, <1>8, <1>9, <1>10, <1>11 DEF Next

LEMMA AddressesStep == IdInv /\ Addresses /\ [Next]_vars => Addresses'
  <1> SUFFICES ASSUME IdInv, Addresses, [Next]_vars PROVE Addresses'
    OBVIOUS
  <1>1. ASSUME NEW p \in Process, Gone(p), registry' \subseteq registry PROVE Addresses'
    BY <1>1 DEF Gone, Addresses
  <1>2. ASSUME NEW p \in Process,
               \/ RegisterServer(p) \/ \E t \in Ports : Start(p, t) \/ RegisterWeb(p, t)
        PROVE  Addresses'
    <2>1. addrs' = addrs /\ port[p] \in Ports \cup {NoPort}
      BY <1>2 DEF IdInv, RegisterServer, Start, RegisterWeb
    <2>2. \A r \in registry' : r \in registry \/ r.port = port[p]
      BY <1>2 DEF RegisterServer, Start, RegisterWeb, ServerEntry, WebEntry,
         ProductWebEntry, CartWebEntry, Entry
    <2> QED
      BY <2>1, <2>2 DEF Addresses
  <1>3. ASSUME NEW p \in Process, Listen(p) \/ Deregister(p) \/ Crash(p) PROVE Addresses'
    BY <1>1, <1>3 DEF Listen, Deregister, Crash, Addresses
  <1>4. ASSUME NEW n \in 1..MaxStarts, Reap(n) PROVE Addresses'
    BY <1>4 DEF Reap, Addresses
  <1>5. ASSUME NEW p \in Process, NEW s \in Service, Resolve(p, s) PROVE Addresses'
    <2>1. Found(s) \in SUBSET (Ports \cup {NoPort})
      BY DEF Addresses, Found
    <2> QED
      BY <1>5, <2>1 DEF Resolve, Addresses
  <1>6. CASE UNCHANGED vars
    BY <1>6 DEF vars, Addresses
  <1> QED
    BY <1>2, <1>3, <1>4, <1>5, <1>6 DEF Next

LEMMA Invariants == Spec => [](IdInv /\ Announced /\ Addresses)
  <1>1. Init => IdInv /\ Announced /\ Addresses
    <2>1. \A q \in Servers : q \in Process
      BY DEF Servers
    <2>2. Init => IdInv
      BY DEF Init, IdInv, Alive
    <2> QED
      BY <2>1, <2>2 DEF Init, Announced, Addresses
  <1> QED
    BY <1>1, IdStep, AnnouncedStep, AddressesStep, PTL DEF Spec

-----------------------------------------------------------------------------
\* A running server can be found under its name, whatever else starts, ends,
\* takes its old ports or is removed from Consul (product_srv/main.go:35-61,
\* cartorder_srv/main.go:71-149, cartorder_web/main.go:77-83).
THEOREM RunningServersAreFindable == Spec => []Findable
  <1>1. IdInv /\ Announced => Findable
    BY DEF Announced, Findable
  <1> QED
    BY <1>1, Invariants, PTL

\* A caller that asks Consul again keeps every running server it knew under the
\* name it dials, whatever stale entries it is given besides
\* (product_srv/main.go:35-48, util/port.go:7-20).
THEOREM CallersKeepServers == Spec => NeverLost
  <1> DEFINE Kept ==
        \A p \in Process, s \in Service : addrs'[p][s] # addrs[p][s] /\ pc'[p] # "off" =>
          \A q \in Servers :
             pc[q] = "running" /\ Dialled(s) = Kind[q] /\ port[q] \in addrs[p][s]
                => port[q] \in addrs'[p][s]
  <1>1. IdInv /\ Announced /\ Addresses /\ [Next]_vars => Kept
    <2> SUFFICES ASSUME IdInv, Announced, Addresses, [Next]_vars,
                        NEW p \in Process, NEW s \in Service,
                        addrs'[p][s] # addrs[p][s], pc'[p] # "off",
                        NEW q \in Servers, pc[q] = "running", Dialled(s) = Kind[q]
                 PROVE  port[q] \in addrs'[p][s]
      OBVIOUS
    <2>1. PICK r \in registry : r.name = Dialled(s) /\ r.port = port[q]
      BY DEF Announced
    <2>2. port[q] \in Found(s)
      BY <2>1 DEF Found
    \* only asking again gives a living process other addresses
    <2>3. ~ \E x \in Process : Gone(x)
      BY DEF Gone, IdInv, Addresses
    <2>4. \E x \in Process, z \in Service : Resolve(x, z)
      BY <2>3 DEF Next, vars, Start, RegisterWeb, RegisterServer, Listen, Deregister,
         Crash, Reap
    <2>5. Resolve(p, s)
      BY <2>4 DEF Resolve, Addresses
    <2>6. addrs'[p][s] = Found(s)
      BY <2>5 DEF Resolve, Addresses
    <2> QED
      BY <2>2, <2>6
  <1> QED
    BY <1>1, Invariants, PTL DEF Spec, NeverLost
=============================================================================
