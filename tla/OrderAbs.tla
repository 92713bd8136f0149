------------------------------ MODULE OrderAbs ------------------------------
(***************************************************************************)
(* What CreateOrder promises about an order: stock is reserved for it at    *)
(* most once, out of what there is; then there is at most one decision.     *)
(* Either it is placed, and in the same step lines of its own account       *)
(* leave the cart, or its stock is sent back and it never becomes an order. *)
(* Stock may be sent back for an order that reserved none, which then never *)
(* reserves any.                                                            *)
(*                                                                          *)
(* The decision is kept but for one exception: a judge who cannot see it    *)
(* sends the stock back, once, whatever was or will be decided.  An order   *)
(* that was placed expires, as often as it is found expired.                *)
(***************************************************************************)
EXTENDS Integers

CONSTANTS Orders, Line, acct, owner, Stock0,
          Expiring    \* whether unpaid orders are closed

VARIABLES
    avail,        \* units on hand
    reserved,     \* orders that have taken their units
    placed,       \* orders
    returned,     \* how often each order's stock was sent back
    misjudged,    \* orders whose stock was sent back blindly
    expired,      \* how often each order was found expired and sent back
    cart          \* checked lines

absVars == <<avail, reserved, placed, returned, misjudged, expired, cart>>

AbsInit ==
    /\ avail = Stock0
    /\ reserved = {}
    /\ placed = {}
    /\ returned = [o \in Orders |-> 0]
    /\ misjudged = {}
    /\ expired = [o \in Orders |-> 0]
    /\ cart \in SUBSET Line

Undecided(o) == o \notin placed /\ (returned[o] = 0 \/ o \in misjudged)

Fill ==
    /\ cart' \in SUBSET Line
    /\ cart \subseteq cart'
    /\ UNCHANGED <<avail, reserved, placed, returned, misjudged, expired>>

Reserve(o) ==
    /\ o \notin reserved /\ Undecided(o)
    /\ reserved' = reserved \cup {o}
    /\ avail' \in 0 .. avail - 1
    /\ UNCHANGED <<placed, returned, misjudged, expired, cart>>

Place(o) ==
    /\ o \in reserved /\ Undecided(o)
    /\ placed' = placed \cup {o}
    /\ cart' \subseteq cart /\ cart' # cart
    /\ \A l \in cart \ cart' : owner[l] = acct[o]
    /\ UNCHANGED <<avail, reserved, returned, misjudged, expired>>

SendBack(o) ==
    /\ Undecided(o)
    /\ returned[o] = 0
    /\ returned' = [returned EXCEPT ![o] = 1]
    /\ UNCHANGED <<avail, reserved, placed, misjudged, expired, cart>>

Misjudge(o) ==
    /\ returned[o] = 0
    /\ returned' = [returned EXCEPT ![o] = 1]
    /\ misjudged' = misjudged \cup {o}
    /\ UNCHANGED <<avail, reserved, placed, expired, cart>>

Expire(o) ==
    /\ Expiring /\ o \in placed
    /\ expired' = [expired EXCEPT ![o] = @ + 1]
    /\ UNCHANGED <<avail, reserved, placed, returned, misjudged, cart>>

AbsNext ==
    \/ Fill
    \/ \E o \in Orders : \/ Reserve(o) \/ Place(o) \/ SendBack(o)
                         \/ Misjudge(o) \/ Expire(o)

AbsSpec == AbsInit /\ [][AbsNext]_absVars
=============================================================================
