# MicroserviceLearn: a verification project

TLA+ modules, TLC runs and machine-checked proofs for the shop in `src/`: a set of Go gRPC
services that find each other through Consul, keep their data in MySQL through gorm and talk
asynchronously through RocketMQ. All paths below are relative to `src/`.

- [The system](#the-system): components, state, operations, hard behaviours
- [Modules](#modules): what models what, and how
- [Runs](#runs): what TLC checks, bounds, fairness
- [Proofs](#proofs): what holds for every value of the constants, and why
- [Findings](#findings): where the code does not do what it says
- [Not modelled](#not-modelled)

## The system

| component | code | state | operations |
|---|---|---|---|
| stock service | `microservice_part3/biz/stock.go` | table of `model.Stock` (product, quantity); the process mutex `m` | SetStock, StockDetail, Sell, BackStock |
| shop cart service | `mic_part4/cartorder_srv/biz/shopcart.go` | table of `model.ShopCart` (account, product, quantity, checked) | ShopCartItemList, AddShopCartItem, DeleteShopCart, UpdateShopCartItem |
| order service | `mic_part4/cartorder_srv/biz/order.go` | order and order product tables; a half message at the broker; the listener's fields | CreateOrder with its local transaction and check-back, OrderList, OrderDetail, ChangeOrderStatus |
| order timeout consumer | `mic_part4/cartorder_srv/main.go:98-147` | order table | consumes the delayed `Timeout_Order_Info` |
| stock return consumer | `microservice_part3/main.go:68-120` | stock table; `StockItemDetail` per order | consumes `Sad_BackStockTopic` |
| product service | `microservice_part2/product_srv/biz` | brands, categories, products, advertisements, category-brand pairs | 24 operations: create, delete, update, list of each |
| paging | `*/internal/db.go:52-66` | none | `MyPaging` |
| gateways | `*/…_web` | a gRPC client each, shared by all requests | HTTP to gRPC, twelve handlers |
| tracing | `mic_part4/util/otgrpc`, `middleware/jaeger_tracing.go` | a span per call or stream; the tracer variable of a client's interceptor | unary and stream interceptors of both sides |
| JWT | `*/jwt_op/jwt.go` (three copies), `middleware/jwt_middleware.go` | the signing key; jwt-go's package variable `TimeFunc` | GenerateToken, ParseToken, RefreshToken, JWTAuth |
| registration, discovery, ports | `*/internal/register`, the `main.go`s, `*/util/port.go` | Consul's entries, listeners, what resolvers know | pick a port, register, listen, deregister, health check, resolve |
| generated code | `*.pb.go`, `*_grpc.pb.go` | none | encode, dispatch and decode a call |
| distributed lock demo | `microservice_part3/distributed_lock/dis_lock.go` | a key in Redis | Lock, Unlock |

How they interact: the gateways call the services. CreateOrder sends a *half message* ("return
this order's stock") to RocketMQ and then runs `ExecuteLocalTransaction` in the calling
goroutine: it reads the account's checked cart lines, asks the product service for prices, calls
`Sell` at the stock service, and in one database transaction saves the order, its products and
the deletion of the cart lines; it sends the delayed timeout message before it commits. What
the function returns decides about the half message (Commit: the stock goes back, Rollback: it
does not). A half message that has no verdict is *checked back* by the broker:
`CheckLocalTransaction` looks whether the order row exists. After the delay the timeout
consumer is to close unpaid orders and return their stock through the same topic, which the
stock return consumer applies.

What is hard, and what correctness means there:

- **Stock.** Requests of several processes write the same rows. A basket is sold as a whole or
  not at all; quantities never go below zero and no sale is lost; row locks taken in request
  order may deadlock and must all be released; the answer must be true. The mutex orders only
  the Sells of one process, `SetStock` takes neither it nor a row lock, and errors of `Commit`
  and of the queries are dropped or mistaken for missing rows.
- **Cart.** Every Add is a read and a later full-row `Save` without a lock: quantity may be lost
  or a product get two lines, but never be invented, and no line may end at another account.
- **Order.** Three databases and a broker without a common transaction. The stock of an order
  is gone exactly when the order exists, over lost answers, lost verdicts and crashes; a check-back
  that comes early or fails to read must be the only judge that errs; the cart loses the lines
  that were bought and only those; an order's stock is returned once, although the timeout
  message may be delivered again.
- **Product.** Every operation is several statements without a transaction. What a row refers to
  may be deleted between its lookup and the insert; a full-row Save brings a row back that was
  deleted since it was read; a delete of a category and its subcategories may fail half way. A
  list must survive what the others do, and pages must tile the table in int32 arithmetic.
- **JWT.** A package-wide clock that one request changes for all others of its process. A refresh
  may only extend an identity that somebody minted; an expired token must not pass.
- **Tracing.** Five goroutines may end a stream at once, and its span must be finished once and
  say that the RPC failed; the unary interceptor shares one tracer variable among all requests.
- **Processes.** A port is given back before it is used, and announced before anybody listens:
  a call may reach a stranger, and Consul's entries outlive their processes.

`PROJECT.json` lists each of these hazards at the line where it bites, with the properties aimed
at it.

## Modules

| module | models | proved in |
|---|---|---|
| `StockAbs` | what a stock service promises: one atomic step takes a basket, a request is acknowledged only afterwards | |
| `Stock` | `biz/stock.go` statement by statement, on MySQL rows with locks | `StockProofs` |
| `OrderAbs` | what CreateOrder promises: stock is reserved once, then there is one decision, an order placed with its cart lines or the stock sent back; a blind judge and the expiry of an order are its only exceptions | |
| `ShopCart` | `biz/shopcart.go` | `ShopCartProofs` |
| `Order` | `biz/order.go` (CreateOrder and the listener), the broker, the timeout consumer of `main.go`; composes cart, stock (`StockAbs`) and order | `OrderProofs` |
| `Catalog` | `product_srv/biz/*.go`, `MyPaging` | `CatalogProofs` |
| `Jwt` | `jwt_op/jwt.go`, the web's middlewares | `JwtProofs` |
| `Stream` | the stream interceptors of `otgrpc` | `StreamProofs` |
| `Gateway` | the handlers of both webs, the tracing middleware, the unary interceptors of `otgrpc` | `GatewayProofs` |
| `WireFields`, `Wire`, `WireCopies` | the generated messages: kinds of fields, the servers' messages, the order service's own copies of them | |
| `Rpc` | the generated stubs, handlers and method tables, who calls whom; that the copies agree is an ASSUME, which TLC evaluates | |
| `Cluster` | the processes, ports and Consul; extends `Rpc` | `ClusterProofs` |
| `MC…` | instances for TLC | |

### Stock

A `Handler` is one request on one `Instance`. `committed` is the table as other
transactions read it, `rows` as the open transactions left it, `rowLock` who holds which row,
`mutex[i]` the Go mutex `m` of instance `i`; `pc`, `k`, `stock` are a handler's position, its place
in the basket and its local variable. Each database call is a step of its own, since other handlers run in between:
`SellLock` (`m.Lock`, `Begin`), `SellSelect` (`SELECT … FOR UPDATE`, which waits for the row
lock), `SellUpdate`, `SellCommit`, `SellReturn` (the deferred unlock); the failures
`SellNoRow`, `SellNotEnough` and `SellDenied` share `SellFail` (rollback and unlock).
`SetStockRead`/`SetStockSave` are the unlocked read-modify-write. `BackStock` is one step: it
reads into a nil pointer and never reaches its own transaction. A `Save` by `SetStock` waits for
a row a Sell holds; a plain read sees `committed`.

Faults are a constant: `crash` (an instance dies, the server rolls its transactions back),
`commit` (COMMIT fails, nothing is deducted), `timeout` (the wait of SetStock's Save for a row lock is given up).
`SellDenied` needs no fault: InnoDB gives a wait up as a deadlock victim or on its timeout.
Quantities are int32, wrapped at `MaxInt32`.

The ghosts `deducted`, `taken` and `sold` record which Sells committed and what they took.
`Stock` instantiates `StockAbs` with the mapping `absPhase`, `absAvail`, `absTook`;
`SellIsAtomic` is its specification.

### ShopCart

The table is a function from row ids to lines, with gorm's treatment of zero fields in `Matches`
(an unset account or product is left out of the WHERE) and MySQL's AUTO_INCREMENT. `AddRead`
and `AddSave` are the two halves of AddShopCartItem; `Save` of a struct with an id overwrites
that row or creates it. DeleteShopCart has no primary key and no Where, so gorm refuses it;
UpdateShopCartItem never saves; ShopCartItemList panics on the first line, which ends the process
(`Die`) with every other request on it. With the fault `db` a Save fails unnoticed and a failed
First is taken for a missing row, so that Add starts a second line. `num` is an int32 that wraps
(`IntLimit` in place of 2^31). Requests are numbered `1 .. MaxHandlers` and each is
handled once. The ghost `asked` counts what Adds asked for, by the product of the line they found
or started (a request without a product adds to whichever line of the account comes first).

### Order

One `o \in Orders` is one call of CreateOrder with its order number. `pc[o]` follows
ExecuteLocalTransaction through its RPCs and statements; `half[o]` is the broker's half message,
`verdict[o]` what the function returned, `status[o]` the listener's `Status` (initially 0,
which is `codes.OK`). The stock service appears as `StockAbs`: a Sell takes the whole basket or
nothing, which `SellRefinesAtomicStock` justifies (and `OrdersUseAtomicStock`: the Sells of `Order` are steps of
`StockAbs`). A cart line stands for one unit. Row ids are
not reused, so a line that was deleted does not come back.

The flow as committed stops at its first nil pointer: `orderItem` in ExecuteLocalTransaction
is nil and the receiver is nil too, so the error path itself panics (`PanicOnNil`). `Patched` are
the orders served by a build in which those pointers (order.go:35, 43 and 209) and the RPC
clients are set and the product service's answer carries product ids (as committed,
`ProductModel2Pb` never sets one, so every item would be id 0, quantity 0); the others run in
processes of the committed build, next to the patched ones, on the same broker, database and
stock. A process serves any group of calls: `Crash` and a panic (`Panic`) take one with them
(`Perish`), for a panic a group of unpatched calls. `Fixed` names two more slips taken as repaired:
`"account"` (the listener gets the request's AccountId) and `"timeout"` (the consumer is started,
and main.go:124 has something to read into). Everything else in the module is the committed
code's control.

`Order` instantiates `OrderAbs` with its units on hand, sold and placed orders, returns, expiries
and cart; `OrderIsBooked` is that specification. Its `SendBack` is the decision against an order;
`Misjudge` is a check-back that could not see how the order ends, `Expire` a timeout.

`TxFails` is any statement between `Begin` and the producer that fails (rollback, verdict
Commit); `SendTimeout` fails without a rollback, as the code does; `CommitOrder` ignores the
error of `tx.Commit`. `EndTransaction` is RocketMQ's one-way verdict, which may be lost, after
which the committed build reads `Status` through its nil listener.
`CheckLocalTransaction` may be answered by any producer of the group and, with the fault `slow`,
comes also during the local transaction. It looks at RowsAffected alone: a SELECT that fails
(`db`) is answered Commit like a missing row. The history variable `misjudged` holds the orders
for which a check-back answered Commit while the transaction ran or over a row that is there.

The timeout consumer is three steps: `TimeoutLookup` finds the order (or drops the message, when
there is no row or its SELECT fails), `TimeoutSend` sends the return (done, refused, or stored
with an error, and then asked for again), `TimeoutAck` is its ConsumeSuccess. A crash before that
(`crash`) leaves the message with the broker, and since the order is never marked closed, it is
found again; `tries` counts how often a message found its order.

Statements that wait for a lock either get it or fail
(`Locked` is the range of the `account_id` index that a deleting transaction holds).

### Catalog

`rows[t]` is a table, a sequence of rows in the order of their ids; a deleted row stays with
`live = FALSE` (gorm's soft delete). A handler `h` has its request, its place `pc[h]`, the row it
read (`copy[h]`) and, in DeleteCategory, the subcategories it has found and those left to delete.
Each of the 24 operations is an action that is a disjunction over its statements; `First`,
`Insert`, `SaveAll`, `SoftDelete` are gorm's calls, each of which may fail; so may the lists'
queries and the Preload of CategoryBrandList, whose error is ignored and whose nil associations
the next line dereferences. `missed[h]` are the rows that were deleted while `h` runs. Save of a row with an
id is MySQL's upsert of every column, which is how a deleted row comes back. A panic ends the
process (`Panic`, `down`) with every handler in it. The operations that dereference a nil pointer
in every call do so with `repaired = FALSE`; with `repaired = TRUE` the pointer, the wrong
sentinel comparison in the category operations, the names given to Preload and the ids of the
converters are what their context says they should be. `down` remembers which operation ended
the process; `deletes` remembers the DELETEs that succeeded, `failed` the DELETEs and Preloads
that failed.

`MyPaging` is `PageSize`, `PageNo`, `Offset` and `Listed`; `Wrapped` is the int32 product, with
`IntLimit` in place of 2^31.

### Jwt

A call belongs to a process and presents any token in circulation. `Errors` is the bit set that
jwt-go computes with the process's clock, `ParseToken` the switch over it, as committed
(`errors.As` never matches, every refusal is TokenInvalid) or repaired. RefreshToken is three
steps, since others run in between: it sets `TimeFunc` to the epoch (`RefreshClock`), parses
(`RefreshParse`), and signs the claims with a new expiry (`RefreshSign`). `minted` remembers
what GenerateToken was asked to sign. Keys differ between processes as the three copies'
configurations may; time passes between any two steps.

### Stream

The processes are those that meet in `finishFunc`: goroutines in Header, SendMsg or CloseSend
(`Caller`), the one in RecvMsg, the watcher of the context, the garbage collector's finalizer.
`Claim`, `Close`, `TagSpan`, `FinishSpan` are its statements; the compare-and-swap is `Claim`.
grpc-go is external: an RPC ends with a code, by the server, the network or the caller's
context, and whoever returns the end cancels the context first. The server's stream interceptor
is `Serve` and `Handled`.

### Gateway

gin runs each request in a goroutine; a request is at `pc[r]` of its `route[r]`. What differs
between the twelve handlers is a record (which client, whether it passes the gin context, what
happens on a bad parameter and on a failed RPC); what they share are the actions: the tracing
middleware (whose tracer is the request's own), the parameter checks, the two halves of the unary client interceptor (`TakeTracer`
assigns the shared variable, `StartSpan` uses it), the server interceptor, the answer, and the
tracer's closing. `answers` are the bodies written, in order. `fixed` switches two slips: `"conn"`
(initGrpcClient closes the connection it hands out) and `"closer"` (initJaeger closes the tracer
it returns).

### Wire, Rpc, Cluster

A message is the sequence of its numbered fields with their wire types (`WireFields`). `Wire` has
the messages of the servers' own files, `WireCopies` those of mic_part4's `product.pb.go` and
`stock.pb.go`, which `Rpc` instantiates as `Copies`. `Rpc` has, for each of the services, the paths
and stubs of each client's copy, the methods of the server interface, the handlers (what each
decodes into) and the ServiceDesc (which handler runs under which name); `Runs` is the dispatch and
`Calls` who is a client of what. None of it has state. `ASSUME FilesAgree` says of these constant
tables that every call of a client runs exactly one method, the one its stub names, with messages
that both sides read alike (`ReadsAlike`); TLC evaluates it on `cluster`. No property or theorem
rests on it.

`Cluster` has a process per server and web. `Start` picks a port that nobody listens on at that
moment, `RegisterServer`/`RegisterWeb` announce it, `Listen` binds it or, when someone else got
there first, ends the process. product_web registers under its server's name (`product_srv` in its
Nacos file), so callers of ProductService are sent to it too. `Crash` may come at any point; `Deregister` is cartorder_web's
shutdown. Consul reaps an entry whose health check fails, `Resolve` is a caller's resolver asking
again. `fixed` switches: the `consul://` resolver that no program links in, the name
cartorder_web dials (its own), the OrderService that cartorder_srv does not register, and its
product and stock clients that nobody makes.

## Runs

Every passing run but `cluster` checks deadlock freedom too; a `Terminating` step marks the
states where all requests are over. (In `cluster` the bound on starts ends every behaviour in
a state where all processes are down.)

| run | instance | shows |
|---|---|---|
| `stock_sells` | 3 Sells, 2 instances, crashes | locks are released, reads stay fresh under the lock, nothing lost or oversold, each Sell implements one atomic step of `StockAbs` |
| `stock_live` | 2 requests of every operation, 2 instances, every fault, an int32 overflow, fair | types, a Sell takes exactly its basket in one step, every request is answered or dies with its instance |
| `cart_all` | 3 requests of 2 accounts (and an unset one) for 2 products (and an unset one), chosen row ids, failing SELECTs and Saves, an int32 of -3 to 2, panics, fair | types, no quantity is invented, lines keep their owner while nobody chooses row ids, every request is answered or dies |
| `order_follow` | 2 orders of one account and one of another, 3 lines (one of the other account) added at any time, failing statements and producers | types, a settled order's stock is returned exactly when it was sold and not placed, a cart line only goes with an order of its owner |
| `order_faults` | 2 orders of one account in a repaired build and one in the committed build, 2 lines added at any time, every fault at once, early and failing check-backs included | CreateOrder implements `OrderAbs`: stock is reserved before the order is placed, each order is decided once, a commit takes lines that are still in the cart; a placed order's stock only goes back by a check-back that could not see it |
| `order_timeout` | 2 orders of 2 accounts and a working timeout consumer, failing statements and lookups, refused and doubted sends, lost verdicts, crashes of either process, fair | stock is returned once, and once more only for each further handling of the timeout message; what was sold is placed or comes back; every half message gets a verdict although processes die over it |
| `order_twice` | 2 orders of one account, no faults | *violation*: both buy the same line |
| `catalog` | a write with any operation at the same time, then one more list or delete; committed and repaired; statements, lookups and Preloads fail | references exist, a row is inserted over a deleted one only when the delete overlapped its request, a list only ends the process over a deleted reference or a failed Preload, DeleteCategory deletes all it found but for a failed DELETE, a deleted row only comes back by an update that overlapped, pages tile |
| `jwt` | 3 calls, 3 processes, 2 keys, 3 kinds of claims, 4 instants, committed and repaired | an expired token needs a refresh in its process, no identity is invented, only authentic tokens are called expired, a refreshed process locks dated tokens out |
| `stream` | 2 sending goroutines, a reader, watcher and finalizer, every option, fair | the span is finished once and not written to afterwards, a failed stream is marked failed, spans and watcher end |
| `gateway` | 3 requests for any of the 12 handlers, good or bad parameters, 4 combinations of repairs | a span is only lost to a tracer another request put into the shared variable and closed |
| `cluster` | 2 servers, 2 webs, 2 ephemeral ports, 3 starts, three builds, Consul's checks fair | a running server can be found; a caller never loses one it knows by asking Consul again, whatever stale addresses join it; the entries of dead webs are reaped; the tables of the generated code agree (`FilesAgree`) |

**Bounds.** *Stock, cart, order:* two rows and a product without a row are what lock-order
deadlocks, partial baskets and missing products need; three concurrent requests give one a
bystander in every conflict of two. `MaxInt32 = 7` keeps quantities small and still overflows (a
SetStock of 6 on 2). Row ids of the cart need no
bound: three requests create three rows at most. Two
orders and two lines are the smallest instance in which one order's lines can be deleted by
another; `order_follow` adds an order and a line of a second account, which the first must leave
alone. `Stock0` is enough for one order, or for both, as the property needs it. `MaxTries` is how
often a timeout message is handled, two being a message and its redelivery. `IntLimit = 3` of the
cart lets two Adds wrap. *Catalog:* one row of everything and one subcategory; the
requests are chosen so that each pair of writes that touches a common row, reference or parent
runs concurrently, and the third meets what they left. `IntLimit = 8` is small enough for
pages of up to `MaxPage` rows to wrap the offset. *Jwt:* an instant
before and one after every expiry, claims with and without dates, two processes that share a key
and one that does not. *Stream:* two callers race each other as well as the reader, the watcher
and the finalizer; more add nothing, each calls finishFunc once. *Gateway:* three requests of one
client: one between the two halves of the interceptor, one that overwrites the variable, one that
closes. *Cluster:* fewer ports than processes, so that a port one leaves is soon another's; three
starts let a process restart while another runs. Handlers and instances are symmetric in
`stock_sells`, calls in `jwt`, requests in `gateway`; no run with a liveness property uses
symmetry.

**Fairness.** Of `Stock` and `ShopCart` it is weak fairness of each handler's steps: goroutines
are scheduled, `sync.Mutex` is handed to a waiter, and MySQL grants a row lock or gives the
statement up after `innodb_lock_wait_timeout`. No request has to arrive and no fault has to happen
or stop. In `Order` it is the local transaction's steps, the same way, and the broker's
check-back, which RocketMQ repeats on an open half message. (It stops after
`transactionCheckMax` attempts; that all of them fail to reach a producer is not modelled.) In
`Stream` goroutines run, a server's handler returns, the program lets go of the stream and the
garbage collector runs its finalizer; nothing makes it read the stream to its end, or the RPC
end. In `Cluster` only Consul's check is fair (it runs every second); no process has to start or
to stay.

## Proofs

All theorems hold for any values of the constants; assumptions beyond the constants' types are
part of the theorem.

| theorem | says | assumes |
|---|---|---|
| `TypeCorrect` | `TypeOK` of Stock, int32 included | |
| `LocksReleased` | `LockDiscipline`: locks belong to Sells inside their loop | |
| `ReadsStayFresh` | `FreshUnderLock`: what was read for update is still so when it is written | non-negative quantities |
| `StockConserved`, `StockNeverOversold` | stock plus sales is constant; never below zero | non-negative quantities, no SetStock (it does lose sales, see Findings) |
| `NotFoundIsHonest` | with one instance ProductNotFound means that a row is missing | one instance (two refute it, see Findings) |
| `SellsAreExact` | `SellExact`: the committed table changes in a Sell's commit only, by exactly its basket | non-negative quantities |
| `SellRefinesAtomicStock` | Stock implements StockAbs | no SetStock, commits do not fail |
| `CartTypeCorrect`, `LinesKeepTheirOwner` | `TypeOK`, `LinesKeepOwner` of ShopCart, any number of requests | |
| `CartNeverInflated` | `NeverInflated`: the cart holds no more of a product than Adds asked for | no Add asks for a negative quantity (one of -1 that is not saved refutes it) |
| `OrderTypeCorrect` | `TypeOK` of Order | |
| `PlacedOrdersAreSold` | an order row has its stock | none: any faults, any repairs |
| `PlacedOrdersKeepStock` | `PlacedKeepsStock`: the half message of a placed order returns its stock only by a check-back that was early or could not read | none: any faults, any repairs |
| `StockReturnsOnce` | `ReturnedOnce`: one return, and one more for each further handling of the timeout message, unless a check-back misjudged the order | none: any faults, any repairs |
| `StockFollowsTheOrder` | returned exactly when sold and not placed | `Orderly`: statements (the check-back's too) and producers may fail, no answer is lost, nothing dies, all orders in the repaired build |
| `OrdersAreBooked` | Order implements `OrderAbs` | only that the listener reads the request's account (without which the first CreateOrder takes every account's lines); any faults |
| `OrdersUseAtomicStock` | the Sells of Order are steps of `StockAbs` | none: any faults, any repairs |
| `CartGoesWithTheOrder` | a cart line goes only in the step that commits an order, of its owner where the account is read | none: any faults, any repairs |
| `CatalogTypeCorrect`, `ReferencesExist`, `ReferencesAreFresh` | `TypeOK`, `RefsExist`, `RefsAreFresh` of Catalog | |
| `DeletesAreComplete`, `RevivalsOverlap`, `ListsEndOverMissingRows` | `DeleteIsComplete`, `RevivedByOverlap`, `ListsSurvive` | no row is deleted at first (`AllLive`) |
| `PagesTileBrands` | `PagesTile`: pages of one size tile the brands, for any number of rows and any `IntLimit` | none but the property's own: the offsets do not wrap |
| `TokensTypeCorrect`, `IdentitiesAreMinted`, `ExpiredTokensNeedARefresh` | `TypeOK`, `OneIdentity`, `ExpiredNeedsRefresh` of Jwt | |
| `ExpiredTokensAreAuthentic`, `RefreshesLockOut` | `ExpiredIsAuthentic`, `RefreshLocksOut` of Jwt | |
| `StreamTypeCorrect`, `SpanFinishedOnce`, `FailuresAreTagged` | `TypeOK`, `FinishedOnce`, `FailureIsTagged` of Stream, any number of callers | |
| `SpansAreLostToOthers` | `OwnSpanReported` of Gateway, any number of requests | |
| `RunningServersAreFindable`, `CallersKeepServers` | `Findable`, `NeverLost` of Cluster, any processes, ports and starts | |

**Stock.** `TypeInv` adds to the types where a handler's control and its request fit together
(`ControlOf`: an item or row the code is about to use exists). `LockInv` says that a row lock is
held only by a running Sell and the mutex by one Sell of its instance; with it the initial
states and each action keep `LedgerInv`: the row a handler read is the committed or its own dirty
row (`ReadFresh`), only the lock's holder has dirtied it (`DirtyByOwner`), and what a Sell has
taken so far is covered by the row (`TakenCovered`). It is needed because `FreshUnderLock` alone
does not say why no one else can commit in between. `SumInv` is then the conservation law and its
corollary that nothing is negative. For `SellExact`, `TakenInv` says that what a Sell has taken of
a row is what the part of its basket it is past orders of it (`OrderedBy`, a recursive function,
whose value after one more item is the lemma `OrderedNext`); at the commit that is all of the
basket (`CommitEffect`). The refinement adds that a handler's answer agrees with its
ghost (`ReplyInv`) and maps SellCommit to the abstract step and all else to acknowledging,
refusing or stuttering.

**Cart.** `OwnerRead`: while no Add names a row id, the line an Add is about to save has the
account and product of the row it read; rows are never taken away, so `Save` cannot move one.
`NeverInflated` compares a sum over the table with a sum over the past, and no invariant about
single rows gives it: two Adds may hold the same stale quantity, and each may still be saved or
lost. `Budget` says that there is some distribution `b` of what was asked for over row ids such
that every row, and every line read and not yet saved, stays within `b` of its row and product,
and that the distribution together with the lines about to be inserted (`Started`) adds up to no
more than was asked. `AddRead` raises the budget of the row it found, `AddSave` of a new line turns
its handler's share into the budget of the new row, and every other step keeps `b`. Summing `b`
over the rows is the property (`BudgetBounds`).

**Order.** `TypeInv` adds that a finished local transaction has a verdict. `SoldInv`: beyond Sell
the order is sold. No fault is excluded, so what a check-back may have done wrong is part of the
invariant: `HalfOf` says that an order in flight has an open half message unless it was misjudged
or is already placed, and that a placed order's own verdict is Rollback; `ReturnOf`, that a return
by the half message means it was committed, for an order that is not placed or was misjudged.
`ExpireOf` ties the timeout consumer's sends to how often the message found its order, with the one
it is about to send counted in advance. `CartInv`: an order that is not yet
committed is not placed, and what its open transaction deleted is its account's where the account
is read. `FollowOf` ties the verdict, and then the half message, to how far the order got; under
`Orderly` nobody is misjudged, since a check-back only comes for a message whose verdict is lost or
whose process died.

`BookInv` is what the refinement of
`OrderAbs` needs besides: an order is sold once, a transaction that is about to commit has deleted
lines, and the lines that open transactions deleted are all still in the cart and belong to one
transaction each (`Apart`), since a DELETE waits for the account's range of the index. Sell is then
`Reserve`, a commit that succeeds `Place`, a Commit verdict `SendBack`, a check-back that cannot see
`Misjudge`, a timeout's message `Expire`, and every other step a stutter (`BookRefine`). `BasketKept`: a basket is not read again once it was sold, so
the same invariant makes Sell the `Take` of `StockAbs`.

The step lemmas treat a label change, a verdict and a resolution once each (`GotoOne`, `ReturnOne`, and the frame lemmas for the other
orders) and then go through the actions.

**Catalog.** `HandlerInv` is what a handler has found out by the label it is at: the category and
brand it looked up were inserted (and rows are never taken away, `Grows`), the copy it will save
was live, the subcategories it no longer has to delete are deleted or failed. `DeadAreDeleted`
says that a row that is not live has a DELETE behind it. Since an operation is put together from
`First`, `Insert`, `SaveAll`, `SoftDelete` and the answers, each of these has a lemma that keeps
the invariant, and the 24 operations cite them. A list's panic comes from a failed Preload or from
a row whose category or brand is not live (`Crashes`), and with `DeadAreDeleted` there is a DELETE
behind that (`BrokenWasDeleted`). For `RefsAreFresh`, what a request looked up was live then, so it
is live still or in `missed` (`Referral`). For `PagesTile`
the live rows up to a row give it a place in the list (`PlaceType`); a page whose offset does not
wrap starts right behind its predecessors (`ExactOffset`), so the place lies in exactly one
(`OnePage`, by division with remainder).

**Jwt.** `CallInv` ties positions to operations, `PassedInv` says that a refresh about to sign has
parsed its token under its own key, and `Identities` is then kept by RefreshSign. `ClockInv` says
why a clock is at the epoch and why an expired token passed: some RefreshToken of that process
is past its first statement.

**Stream.** `OneWinner`: behind the compare-and-swap there is at most one process, and the span is
open as long as it is there. `Fresh`: before the stream is opened nothing has happened. `Reader`
and `Marks` follow an error from RecvMsg to the span: only the reader without an error and the
finalizer may finish it unmarked, and the finalizer runs when no reader is left.

**Gateway.** `Shared`: who is in a client's tracer variable was assigned there by a request of that
client. `OpenTracers`: a request's tracer is open until it is done. Together (`LostSpans`) they
leave only one way for a span to be lost.

**Cluster.** Registrations' ids are the numbers of their starts and belong to one process
(`IdInv`), so `Reap` and `Deregister` of others leave an entry alone; `Announced` says that a
server behind its registration has an entry without a check. `NeverLost` follows: when a
resolver asks again (`Addresses` is its type) that entry is still among those of the name it dials,
and Resolve takes over every address, not one of them.

Sums and orderings over data are recursive functions; the proofs about them take induction over
the naturals in the form of a set (`AllNaturals`: a set with 0 and every successor has them all,
from the library's `WFMin` and `NatLessThanWellFounded`), since the library's own theorem takes an
operator.

Only model-checked are the liveness properties `Answered` (of `Stock` and of `ShopCart`),
`SoldIsSettled`, `HalfIsResolved`, `Ends` and `Reaped`, which the prover cannot treat; and, being
violations, what `order_twice` shows. `FilesAgree` is an assumption about constants that TLC
evaluates.

## Findings

`order_twice` is a run whose counterexample TLC prints: the DELETE only asks that *some* line is
left, so two concurrent CreateOrders of one account both buy the same line when another was added
meanwhile (order.go:143).

The other disagreements met while modelling are part of the models' behaviour, or switched by a
`fixed`/`repaired`/`Patched` constant or variable where the code would stop there:

*Stock.* SetStock writes back a quantity read before a Sell committed and undoes it (stock.go:35);
its int32 sum wraps to a negative stock (stock.go:32).
A `SELECT … FOR UPDATE` given up by InnoDB is answered ProductNotFound (stock.go:54 against
`custom_error.go:5`). The error of COMMIT is dropped: OK for a sale that was rolled back
(stock.go:70). BackStock never returns anything.

*Cart.* Concurrent Adds lose quantity or make two lines (shopcart.go:47), and so does an Add whose
lookup fails (shopcart.go:41). An Add is answered OK when its Save failed (shopcart.go:47), its int32
sum wraps (shopcart.go:44), and one that chooses a row id overwrites whosever line that is
(shopcart.go:101). DeleteShopCart has no
primary key and deletes nothing; UpdateShopCartItem never saves; listing a non-empty cart panics.

*Order.* As committed every CreateOrder ends its process with a nil pointer, and the check-back
then returns stock that was never sold (order.go:36, 200). With the pointers repaired:

- a rolled back order is reported as created, since `Status` starts as `codes.OK` (order.go:246);
- a listener without an AccountId buys every account's lines (order.go:47);
- `productNumMap` keeps one quantity per product, though a cart may have two lines of it (order.go:60);
- a line checked after the cart was read is deleted unbought (order.go:143);
- a timeout message that cannot be sent leaves the transaction and its locks open (order.go:177);
- the stock of a Sell whose answer is lost is never returned (order.go:99; `StockFollowsOrder` is
  violated with the fault `rpc`);
- a check-back that comes before the commit, or whose SELECT fails, returns a placed order's stock:
  it looks at RowsAffected alone (order.go:196-201; these orders are `misjudged`, and without that
  exception `PlacedKeepsStock` is violated with `slow`, and with `db` and `lost` together);
- the timeout consumer never ends its transaction, so no order is ever closed (main.go:131), and a
  timeout message that is delivered again returns the stock again (main.go:136-145);
- a timeout message whose lookup fails is dropped as if there were no order (main.go:127);
- the committed product service answers without product ids, so that every line of an order would
  be product 0, quantity 0 (`ProductModel2Pb`, product.go:136; order.go:78).

*Product.* CreateBrand looks for a brand of the name with a condition in the place of the
destination, and would race if it did not: duplicate names (brand.go:64). Results of Save and
Create are not looked at: a row that was not stored is answered as created (brand.go:70).
UpdateProduct builds a row without an id and inserts a second product (product.go:118). A list
over pairs or products ends the process once a category or brand they refer to is deleted
(categoryBrand.go:25, product.go:66); the one over pairs does when its Preload fails
(categoryBrand.go:21). A deleted row comes back with an overlapping update
(category.go:123). DeleteCategory ignores the errors of its DELETEs (category.go:90). A page
number whose offset wraps below zero shows the first page again (db.go:63).

*JWT.* One RefreshToken makes its process accept expired tokens and refuse dated ones for good
(jwt.go:85). `errors.As` is given a value where jwt-go returns a pointer, so no token is ever
called expired (jwt.go:56), the case the middleware's comment would refresh. No web of the
repository mounts `JWTAuth`, and only that comment mentions a call of `RefreshToken`: the runs show
what the package does to a program that uses it.

*Tracing.* A stream that ended well may have its span marked as failed: the watcher finishes it
with the context's error, or SendMsg with io.EOF, before RecvMsg does (client.go:173, 206). The
tracer assigned to the interceptor's variable may be another request's by the time it starts
the span (client.go:53). The cart's handlers pass the gin context itself, in which the interceptor
does not find the tracer: their spans go to the noop tracer. The middleware's own span is never
finished, and initJaeger of cart_srv closes the tracer it returns.

*Gateways.* initGrpcClient closes its connection as it returns (cartHandler.go:41): every RPC
fails. Handlers without a `return` after an error answer twice. AddCart and UpdateCart call
`Error()` on a nil error for an Id below 1. The order's CreateHandler binds by value, product's
AddHandler binds to a nil pointer, product's UpdateHandler refuses every request. `product_web` as
committed does not compile (`C.JSON`).

*Processes.* No program links in a resolver for `consul://`. product_web announces itself under the
name of the product server, so a caller of ProductService is also sent to a web (the cached
`product.json` of Nacos). A call to a port that was announced may reach whoever listens there now. cartorder_web dials the name it
registers for itself; cartorder_srv never registers OrderService (main.go:96) nor makes its product and stock
clients. Servers have no health check, so what a dead one announced stays for ever. Outside debug
mode a web announces one random port and listens on another; the check of cartorder_web goes to
the gRPC server's port, so it is dropped while it runs.

## Not modelled

- OrderList, OrderDetail and ChangeOrderStatus (order.go:258-315): as committed each returns an
  error or panics before it changes anything. Their place in the gateways and on the wire is in
  `Gateway` and `Rpc`.
- The stock return consumer (`microservice_part3/main.go:68-120`): it is never started, drops every
  message at `json.Unmarshal` into a nil pointer, and with that repaired finds nothing, since no
  code writes the `StockItemDetail` rows it looks for. There is no behaviour to check; `Order`
  counts the messages delivered to its topic.
- AutoMigrate creates only the cart's table (`mic_part4/internal/db.go`); the others are taken to
  exist.
- In `Order`, the quantities of lines and the map `productNumMap`; the transaction that the
  timeout consumer leaks.
- In `Catalog`, the filters of ProductList other than the category, and columns that no property
  tells apart (logos, prices, texts).
- In `Gateway`, what an answer contains besides that it is one; in `Wire`, the encoding itself,
  getters and reflection.
- Reading the configuration from Nacos, opening the databases, logging: pure I/O at start.
- The demos of RocketMQ, Jaeger and Sentinel, and `RedisLock`, which nobody calls: state inside
  libraries.
