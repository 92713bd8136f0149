------------------------------ MODULE StockAbs ------------------------------
(***************************************************************************)
(* What the stock service promises its callers about Sell: there is one     *)
(* quantity per product; a Sell takes a whole basket that the quantities    *)
(* cover, in one step, or takes nothing; it is acknowledged only after it   *)
(* took its basket and refused only if it took nothing.                     *)
(***************************************************************************)
EXTENDS Integers

CONSTANTS Stocked, Handler, Num0

VARIABLES
    avail,        \* quantity on hand
    took,         \* what each Sell took
    phase         \* "open", then "taken" and "acknowledged", or "refused"

absVars == <<avail, took, phase>>

AbsNothing == [p \in Stocked |-> 0]

AbsInit ==
    /\ avail = Num0
    /\ took = [h \in Handler |-> AbsNothing]
    /\ phase = [h \in Handler |-> "open"]

\* took'[h] is any basket that the quantities cover
Take(h) ==
    /\ phase[h] = "open"
    /\ phase' = [phase EXCEPT ![h] = "taken"]
    /\ took' = [took EXCEPT ![h] = took'[h]]
    /\ \A p \in Stocked :
          /\ took'[h][p] \in Nat
          /\ took'[h][p] # 0 => took'[h][p] <= avail[p]
    /\ avail' = [p \in Stocked |-> avail[p] - took'[h][p]]

Acknowledge(h) ==
    /\ phase[h] = "taken"
    /\ phase' = [phase EXCEPT ![h] = "acknowledged"]
    /\ UNCHANGED <<avail, took>>

Refuse(h) ==
    /\ phase[h] = "open"
    /\ phase' = [phase EXCEPT ![h] = "refused"]
    /\ UNCHANGED <<avail, took>>

AbsNext == \E h \in Handler : Take(h) \/ Acknowledge(h) \/ Refuse(h)

AbsSpec == AbsInit /\ [][AbsNext]_absVars
=============================================================================
