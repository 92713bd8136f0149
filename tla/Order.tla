------------------------------- MODULE Order -------------------------------
(***************************************************************************)
(* Placing an order (mic_part4/cartorder_srv): CreateOrder sends a half     *)
(* message "return the stock" to the broker and runs the local transaction  *)
(* of biz/order.go: read the checked cart lines, Sell at the stock service, *)
(* save the order, delete the cart lines, send the delayed timeout message. *)
(* The verdict on the half message says whether the stock goes back.  A     *)
(* half message without a verdict is checked back by the broker; the        *)
(* delayed message reaches the timeout consumer of main.go.                 *)
(*                                                                          *)
(* The stock service is StockAbs (Stock implements it): a Sell takes the    *)
(* whole basket at once or nothing.  A cart line stands for one unit.       *)
(*                                                                          *)
(* As committed the flow stops at its first nil pointer.  Patched are the   *)
(* calls served by a build where it does not, Fixed names the other         *)
(* slips taken as repaired, so that the control behind them can be checked  *)
(* too; Fixed = {} is the code as it is.                                    *)
(***************************************************************************)
EXTENDS Integers, FiniteSets

CONSTANTS
    Orders,       \* calls of CreateOrder, each with its own order number
    Line,         \* cart lines
    Account, acct, owner,   \* the account of each order and of each line
    Stock0,       \* units in stock
    MaxTries,     \* bound: how often a timeout message is handled
    Patched,      \* orders whose CreateOrder has its nil pointers repaired
    Fixed,        \* other repaired slips, see Slip
    Faults        \* which faults of the environment happen

\* In a patched call order.go:209 (listener), 35 (orderItem), 43 (cartList) and
\* the RPC clients point to something, and the products in the product service's
\* answer carry their ids (ProductModel2Pb sets none).  "account": the listener is given the
\* request's AccountId; "timeout": the consumer is started and main.go:124
\* (temp) points to something.
Slip == {"account", "timeout"}

\* "rpc": an RPC fails or its answer is lost; "db": a statement fails, be it of
\* the transaction or a lookup; "commit": a COMMIT fails; "mq": the broker cannot
\* be reached; "ack": it stores a message whose sender is told of a failure;
\* "lost": the one-way verdict is lost; "slow": it checks back during the local
\* transaction; "crash": a process dies, CreateOrder's or the consumer's.
Fault == {"rpc", "db", "commit", "mq", "ack", "lost", "slow", "crash"}

ASSUME FixedAssumption == Fixed \subseteq Slip /\ Patched \subseteq Orders
ASSUME FaultsAssumption == Faults \subseteq Fault
ASSUME CartAssumption ==
    /\ acct \in [Orders -> Account] /\ owner \in [Line -> Account]
    /\ Stock0 \in Nat /\ MaxTries \in Nat /\ IsFiniteSet(Line)

VARIABLES
    pc,           \* where each CreateOrder is
    cart,         \* checked lines in the cart table (committed)
    seen,         \* the lines ever put into a cart: row ids are not reused
    basket,       \* the lines an order read: cartList, stockItemList
    sold,         \* orders whose Sell took the stock
    onHand,       \* units in stock
    tx,           \* orders whose transaction is open
    deleted,      \* the lines an order's transaction deleted (row locks while open)
    placed,       \* committed order rows
    verdict,      \* what ExecuteLocalTransaction returned
    status,       \* the listener's Status
    half,         \* the broker's half message
    returns,      \* half messages delivered to Sad_BackStockTopic, per order
    misjudged,    \* history: orders of a check-back that could not see how they end
    delayed,      \* each order's message in Timeout_Order_Info
    tries,        \* how often its handler found the order
    expired,      \* "return the stock" messages the handler sent
    reply         \* what CreateOrder returned

local == <<basket, sold, onHand, tx, deleted, placed>>
broker == <<half, returns, misjudged>>
timer == <<delayed, tries, expired>>
vars == <<pc, cart, seen, basket, sold, onHand, tx, deleted, placed, verdict,
          status, half, returns, misjudged, delayed, tries, expired, reply>>

Init ==
    /\ pc = [o \in Orders |-> "idle"]
    /\ cart \in SUBSET Line
    /\ seen = cart
    /\ basket = [o \in Orders |-> {}]
    /\ sold = {}
    /\ onHand = Stock0
    /\ tx = {}
    /\ deleted = [o \in Orders |-> {}]
    /\ placed = {}
    /\ verdict = [o \in Orders |-> "Unknown"]
    /\ status = [o \in Orders |-> "OK"]      \* codes.Code's zero value
    /\ half = [o \in Orders |-> "none"]
    /\ returns = [o \in Orders |-> 0]
    /\ misjudged = {}
    /\ delayed = [o \in Orders |-> "none"]
    /\ tries = [o \in Orders |-> 0]
    /\ expired = [o \in Orders |-> 0]
    /\ reply = [o \in Orders |-> "none"]

-----------------------------------------------------------------------------
\* WHERE account_id=? AND checked=?; a listener that nobody gave an AccountId
\* has 0 there, which gorm leaves out.
Checked(o) ==
    {l \in cart : "account" \in Fixed => owner[l] = acct[o]}

\* An open transaction that deleted an account's lines keeps that range of the
\* account_id index locked (InnoDB, REPEATABLE READ): others wait there.
Locked == {l \in Line : \E o \in tx : \E k \in deleted[o] : owner[k] = owner[l]}

Goto(o, label) == pc' = [pc EXCEPT ![o] = label]

\* ExecuteLocalTransaction returns v.
Return(o, v) ==
    /\ verdict' = [verdict EXCEPT ![o] = v]
    /\ Goto(o, "end")

\* The process that serves the calls g dies: the server rolls their transactions
\* back.
InFlight(o) == pc[o] \notin {"idle", "done", "dead"}
Perish(g) ==
    /\ pc' = [o \in Orders |-> IF o \in g /\ InFlight(o) THEN "dead" ELSE pc[o]]
    /\ tx' = tx \ g
    /\ deleted' = [o \in Orders |-> IF o \in g \ placed THEN {} ELSE deleted[o]]
Die(g) ==
    /\ Perish(g)
    /\ UNCHANGED <<cart, seen, basket, sold, onHand, placed, verdict, status,
                   broker, timer, reply>>

\* A nil pointer in the committed build takes along the calls of its process.
Panic(o) == \E g \in SUBSET (Orders \ Patched) : o \in g /\ Perish(g)

\* A user puts a checked line into the cart (AddShopCartItem of ShopCart).
AddLine(l) ==
    /\ l \notin seen \cup Locked
    /\ cart' = cart \cup {l}
    /\ seen' = seen \cup {l}
    /\ UNCHANGED <<pc, local, verdict, status, broker, timer, reply>>

\* p.Start and p.SendMessageInTransaction's send of the half message: it fails
\* (stored or not), succeeds, or is stored with a flush-timeout status, for
\* which the client library answers Rollback without the local transaction.
SendHalf(o) ==
    /\ pc[o] = "idle"
    /\ \/ /\ \/ "mq" \in Faults /\ UNCHANGED half
             \/ "ack" \in Faults /\ half' = [half EXCEPT ![o] = "half"]
          /\ Goto(o, "done")
          /\ reply' = [reply EXCEPT ![o] = "error"]
          /\ UNCHANGED verdict
       \/ /\ half' = [half EXCEPT ![o] = "half"]
          /\ Goto(o, "local")
          /\ UNCHANGED <<verdict, reply>>
       \/ /\ "ack" \in Faults
          /\ half' = [half EXCEPT ![o] = "half"]
          /\ Return(o, "Rollback")
          /\ UNCHANGED reply
    /\ UNCHANGED <<cart, seen, local, status, returns, misjudged, timer>>

\* json.Unmarshal into a nil *OrderItem fails, and ol.Detail is then set
\* through a nil *OrderListener.
PanicOnNil(o) ==
    /\ o \notin Patched
    /\ pc[o] = "local"
    /\ Panic(o)
    /\ UNCHANGED <<cart, seen, basket, sold, onHand, placed, verdict, status,
                   broker, timer, reply>>

\* The checked lines of the cart, and the products behind them.
ReadCart(o) ==
    /\ o \in Patched
    /\ pc[o] = "local"
    /\ basket' = [basket EXCEPT ![o] = Checked(o)]
    /\ \/ /\ Checked(o) = {} \/ Faults \cap {"rpc", "db"} # {}
          /\ Return(o, "Rollback")
       \/ /\ Checked(o) # {}
          /\ Goto(o, "sell")
          /\ UNCHANGED verdict
    /\ UNCHANGED <<cart, seen, sold, onHand, tx, deleted, placed, status, broker,
                   timer, reply>>

\* Slips of Sell's caller: the answer is not looked at; the quantity is not.
MutSell(o) ==
    /\ pc[o] = "sell"
    /\ \/ /\ Cardinality(basket[o]) <= onHand
          /\ sold' = sold \cup {o}
          /\ onHand' = onHand - Cardinality(basket[o])
       \/ Cardinality(basket[o]) > onHand /\ UNCHANGED <<sold, onHand>>
    /\ Goto(o, "save")
    /\ UNCHANGED <<cart, seen, basket, tx, deleted, placed, verdict, status, broker,
                   timer, reply>>
MutSellUnchecked(o) ==
    /\ pc[o] = "sell"
    /\ sold' = sold \cup {o}
    /\ onHand' = onHand - Cardinality(basket[o])
    /\ Goto(o, "save")
    /\ UNCHANGED <<cart, seen, basket, tx, deleted, placed, verdict, status, broker,
                   timer, reply>>

\* internal.StockClient.Sell: an error, refusal and lost answer alike, rolls
\* the half message back.
Sell(o) ==
    /\ pc[o] = "sell"
    /\ \/ /\ Cardinality(basket[o]) <= onHand
          /\ sold' = sold \cup {o}
          /\ onHand' = onHand - Cardinality(basket[o])
          /\ \/ Goto(o, "save") /\ UNCHANGED verdict
             \/ "rpc" \in Faults /\ Return(o, "Rollback")
       \/ /\ Cardinality(basket[o]) > onHand \/ "rpc" \in Faults
          /\ Return(o, "Rollback")
          /\ UNCHANGED <<sold, onHand>>
    /\ UNCHANGED <<cart, seen, basket, tx, deleted, placed, status, broker,
                   timer, reply>>

\* A slip: the failed order keeps its stock.
MutTxFails(o) ==
    /\ pc[o] \in {"save", "delete"}
    /\ \/ "db" \in Faults
       \/ pc[o] = "delete" /\ (Checked(o) = {} \/ Checked(o) \cap Locked # {})
    /\ tx' = tx \ {o}
    /\ Return(o, "Rollback")
    /\ UNCHANGED <<cart, seen, basket, sold, onHand, deleted, placed, status, broker,
                   timer, reply>>

\* A statement of the transaction fails: tx.Rollback(), return the stock.
TxFails(o) ==
    /\ pc[o] \in {"save", "delete"}
    /\ \/ "db" \in Faults
       \/ pc[o] = "delete" /\ (Checked(o) = {} \/ Checked(o) \cap Locked # {})
    /\ tx' = tx \ {o}
    /\ Return(o, "Commit")
    /\ UNCHANGED <<cart, seen, basket, sold, onHand, deleted, placed, status, broker,
                   timer, reply>>

\* tx.Save(orderItem) and tx.CreateInBatches(orderProductList, 50)
SaveOrder(o) ==
    /\ pc[o] = "save"
    /\ tx' = tx \cup {o}
    /\ Goto(o, "delete")
    /\ UNCHANGED <<cart, seen, basket, sold, onHand, deleted, placed, verdict,
                   status, broker, timer, reply>>

\* A slip: internal.DB instead of tx.
MutDeleteCart(o) ==
    /\ pc[o] = "delete"
    /\ Checked(o) # {} /\ Checked(o) \cap Locked = {}
    /\ cart' = cart \ Checked(o)
    /\ deleted' = [deleted EXCEPT ![o] = Checked(o)]
    /\ Goto(o, "send")
    /\ UNCHANGED <<seen, basket, sold, onHand, tx, placed, verdict, status,
                   broker, timer, reply>>

\* The lines that are checked now are deleted, whichever were bought.
DeleteCart(o) ==
    /\ pc[o] = "delete"
    /\ Checked(o) # {} /\ Checked(o) \cap Locked = {}
    /\ deleted' = [deleted EXCEPT ![o] = Checked(o)]
    /\ Goto(o, "send")
    /\ UNCHANGED <<cart, seen, basket, sold, onHand, tx, placed, verdict, status,
                   broker, timer, reply>>

\* NewProducer, Start and SendSync of the delayed message.  A failure (after
\* which the message may still be there) leaves the transaction open for good.
SendTimeout(o) ==
    /\ pc[o] = "send"
    /\ \/ /\ delayed' = [delayed EXCEPT ![o] = "queued"]
          /\ Goto(o, "commit")
          /\ UNCHANGED <<verdict, status>>
       \/ /\ \/ "mq" \in Faults /\ UNCHANGED delayed
             \/ "ack" \in Faults /\ delayed' = [delayed EXCEPT ![o] = "queued"]
          /\ status' = [status EXCEPT ![o] = "Internal"]
          /\ Return(o, "Commit")
    /\ UNCHANGED <<cart, seen, local, broker, tries, expired, reply>>

\* tx.Commit(), whose error nobody looks at.
CommitOrder(o) ==
    /\ pc[o] = "commit"
    /\ tx' = tx \ {o}
    /\ \/ /\ placed' = placed \cup {o}
          /\ cart' = cart \ deleted[o]
          /\ UNCHANGED deleted
       \/ /\ "commit" \in Faults
          /\ deleted' = [deleted EXCEPT ![o] = {}]
          /\ UNCHANGED <<placed, cart>>
    /\ Return(o, "Rollback")
    /\ UNCHANGED <<seen, basket, sold, onHand, status, broker, timer, reply>>

\* The broker resolves half message o: committed, it is delivered.
Resolve(o, v) ==
    /\ half' = [half EXCEPT ![o] = v]
    /\ returns' = [returns EXCEPT ![o] = @ + IF v = "Commit" THEN 1 ELSE 0]

\* A slip: the transaction's own verdict is Commit whenever Status is OK.
MutEndTransaction(o) ==
    /\ pc[o] = "end" /\ o \in Patched
    /\ \/ /\ half[o] = "half"
          /\ Resolve(o, IF status[o] = "OK" THEN "Commit" ELSE "Rollback")
       \/ (half[o] # "half" \/ "lost" \in Faults) /\ UNCHANGED <<half, returns>>
    /\ reply' = [reply EXCEPT ![o] = IF status[o] = "OK" THEN "OK" ELSE "error"]
    /\ Goto(o, "done")
    /\ UNCHANGED <<cart, seen, local, verdict, status, misjudged, timer>>

\* endTransaction is one-way and may be lost, or come after a check-back
\* resolved the message; CreateOrder then looks at Status alone, through the
\* listener, which is nil in the committed build.
EndTransaction(o) ==
    /\ pc[o] = "end"
    /\ \/ half[o] = "half" /\ Resolve(o, verdict[o])
       \/ (half[o] # "half" \/ "lost" \in Faults) /\ UNCHANGED <<half, returns>>
    /\ \/ /\ o \in Patched
          /\ reply' = [reply EXCEPT ![o] = IF status[o] = "OK" THEN "OK" ELSE "error"]
          /\ Goto(o, "done")
          /\ UNCHANGED <<tx, deleted>>
       \/ /\ o \notin Patched
          /\ Panic(o)
          /\ UNCHANGED reply
    /\ UNCHANGED <<cart, seen, basket, sold, onHand, placed, verdict, status,
                   misjudged, timer>>

\* A slip: a missing row is answered with UnknowState.
MutCheck(o) ==
    /\ half[o] = "half"
    /\ InFlight(o) => "slow" \in Faults
    /\ o \in placed
    /\ Resolve(o, "Rollback")
    /\ UNCHANGED <<pc, cart, seen, local, verdict, status, misjudged, timer, reply>>

\* The broker asks about an old half message; any producer of the group
\* answers.  No row fetched means Commit, be it that there is none, that there
\* is none yet or that the SELECT failed.
CheckLocalTransaction(o) ==
    /\ half[o] = "half"
    /\ InFlight(o) => "slow" \in Faults
    /\ \/ /\ o \in placed
          /\ Resolve(o, "Rollback")
          /\ UNCHANGED misjudged
       \/ /\ o \notin placed \/ "db" \in Faults
          /\ Resolve(o, "Commit")
          /\ misjudged' = IF InFlight(o) \/ o \in placed THEN misjudged \cup {o}
                          ELSE misjudged
    /\ UNCHANGED <<pc, cart, seen, local, verdict, status, timer, reply>>

\* A slip: the consumer does not look the order up.
MutTimeoutLookup(o) ==
    /\ "timeout" \in Fixed
    /\ delayed[o] = "queued"
    /\ tries[o] < MaxTries
    /\ delayed' = [delayed EXCEPT ![o] = "found"]
    /\ tries' = [tries EXCEPT ![o] = @ + 1]
    /\ UNCHANGED <<pc, cart, seen, local, verdict, status, broker, expired, reply>>

\* The timeout message reaches the consumer: First(temp) fills in nothing while
\* temp is nil.  An order it does not find, or that its SELECT fails to fetch,
\* drops the message; the row is never paid.  The order decoded from the message
\* (ID 0) is saved in a transaction that is never committed.
TimeoutLookup(o) ==
    /\ "timeout" \in Fixed
    /\ delayed[o] = "queued"
    /\ \/ /\ o \in placed
          /\ tries[o] < MaxTries
          /\ delayed' = [delayed EXCEPT ![o] = "found"]
          /\ tries' = [tries EXCEPT ![o] = @ + 1]
       \/ /\ o \notin placed \/ "db" \in Faults
          /\ delayed' = [delayed EXCEPT ![o] = "gone"]
          /\ UNCHANGED tries
    /\ UNCHANGED <<pc, cart, seen, local, verdict, status, broker, expired, reply>>

\* SendSync of the "return the stock" message: sent, failed, or sent and reported
\* as failed; a failure asks for the message again (ConsumeRetryLater).
TimeoutSend(o) ==
    /\ delayed[o] = "found"
    /\ \/ /\ delayed' = [delayed EXCEPT ![o] = "sent"]
          /\ expired' = [expired EXCEPT ![o] = @ + 1]
       \/ /\ delayed' = [delayed EXCEPT ![o] = "queued"]
          /\ \/ "mq" \in Faults /\ UNCHANGED expired
             \/ "ack" \in Faults /\ expired' = [expired EXCEPT ![o] = @ + 1]
    /\ UNCHANGED <<pc, cart, seen, local, verdict, status, broker, tries, reply>>

\* ConsumeSuccess reaches the broker; a consumer that dies before that leaves
\* the message to be delivered once more.
TimeoutAck(o) ==
    /\ \/ /\ delayed[o] = "sent"
          /\ delayed' = [delayed EXCEPT ![o] = "gone"]
       \/ /\ "crash" \in Faults
          /\ delayed[o] \in {"found", "sent"}
          /\ delayed' = [delayed EXCEPT ![o] = "queued"]
    /\ UNCHANGED <<pc, cart, seen, local, verdict, status, broker, tries, expired,
                   reply>>

Crash ==
    /\ "crash" \in Faults
    /\ \E g \in SUBSET Orders : (\E o \in g : InFlight(o)) /\ Die(g)

-----------------------------------------------------------------------------
Step(o) ==
    \/ PanicOnNil(o) \/ ReadCart(o) \/ Sell(o) \/ TxFails(o) \/ SaveOrder(o)
    \/ DeleteCart(o) \/ SendTimeout(o) \/ CommitOrder(o) \/ EndTransaction(o)

\* The call is over and its half message has a verdict.
Settled(o) == pc[o] \in {"done", "dead"} /\ half[o] # "half"

\* All calls are over; the broker, the consumer and the users may still go on.
Terminating == (\A o \in Orders : pc[o] \in {"done", "dead"}) /\ UNCHANGED vars

Next ==
    \/ \E l \in Line : AddLine(l)
    \/ \E o \in Orders : \/ SendHalf(o) \/ Step(o) \/ CheckLocalTransaction(o)
                         \/ TimeoutLookup(o) \/ TimeoutSend(o) \/ TimeoutAck(o)
    \/ Crash
    \/ Terminating

Spec == Init /\ [][Next]_vars

\* The local transaction runs on, and the broker checks an open half message
\* back until it has a verdict.
FairSpec ==
    /\ Spec
    /\ \A o \in Orders : WF_vars(Step(o)) /\ WF_vars(CheckLocalTransaction(o))
-----------------------------------------------------------------------------
Label == {"idle", "local", "sell", "save", "delete", "send", "commit", "end",
          "done", "dead"}

TypeOK ==
    /\ pc \in [Orders -> Label]
    /\ cart \subseteq Line /\ seen \subseteq Line
    /\ basket \in [Orders -> SUBSET Line] /\ deleted \in [Orders -> SUBSET Line]
    /\ sold \subseteq Orders /\ tx \subseteq Orders /\ placed \subseteq Orders
    /\ misjudged \subseteq Orders
    /\ delayed \in [Orders -> {"none", "queued", "found", "sent", "gone"}]
    /\ tries \in [Orders -> Nat] /\ expired \in [Orders -> Nat]
    /\ onHand \in Nat
    /\ verdict \in [Orders -> {"Unknown", "Commit", "Rollback"}]
    /\ status \in [Orders -> {"OK", "Internal"}]
    /\ half \in [Orders -> {"none", "half", "Commit", "Rollback"}]
    /\ returns \in [Orders -> Nat]
    /\ reply \in [Orders -> {"none", "OK", "error"}]

\* Two-phase: the half message of a placed order never returns its stock, whoever
\* resolves it, unless a check-back came before the local transaction was over
\* or could not read the row: there is no other way to lose a placed order's stock.
PlacedKeepsStock == \A o \in placed \ misjudged : returns[o] = 0

\* CreateOrder refines the one decision of OrderAbs: over crashes, lost answers,
\* lost verdicts, failed commits and concurrent calls, stock is reserved before
\* the order is placed (order.go:99, 179), what is placed is not sent back, what
\* is sent back is not placed (but for a check-back that misjudged the order), and
\* the commit takes lines out of the cart that are still there and no other open
\* transaction deletes.
Booking == INSTANCE OrderAbs WITH
    avail <- onHand, reserved <- sold, returned <- returns,
    Expiring <- "timeout" \in Fixed
OrderIsBooked == Booking!AbsSpec

\* When an order is settled, its stock is returned exactly when it was sold and
\* the order was not placed: the half message follows the local transaction.
StockFollowsOrder ==
    \A o \in Orders : Settled(o) =>
        (returns[o] > 0 <=> o \in sold /\ o \notin placed)

\* A cart line disappears only in the step that makes an order of its owner
\* visible (order.go:143, 179), whatever fails or dies around the transaction.
CartGoesWithOrder ==
    [][\A l \in cart \ cart' : \E o \in placed' \ placed :
           "account" \in Fixed => owner[l] = acct[o]]_vars

\* Between the verdict, the check-back and the timeout consumer, an order's stock
\* is returned once, and once more only for every further time that the timeout
\* message is handled: that handler cannot tell what an earlier one sent.
ReturnedOnce ==
    \A o \in Orders \ misjudged :
        returns[o] + expired[o] <= IF tries[o] > 1 THEN tries[o] ELSE 1

\* Stock that was sold does not stay away for ever: the order is placed or its
\* stock comes back, even when the process dies or the verdict is lost.
SoldIsSettled ==
    \A o \in Orders : o \in sold ~> (o \in placed \/ returns[o] > 0)

\* Every half message gets its verdict, even if the process dies over it.
HalfIsResolved == \A o \in Orders : half[o] = "half" ~> half[o] # "half"

\* No cart line is bought by two placed orders: what was bought is deleted from
\* the cart (order.go:142), over concurrent CreateOrders and Adds.
BoughtOnce ==
    \A o, n \in placed : o # n => basket[o] \cap basket[n] = {}
=============================================================================
