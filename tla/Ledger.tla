------------------------------- MODULE Ledger -------------------------------
(***************************************************************************)
(* What PortfolioService promises of one account and one symbol: requests  *)
(* are booked one after the other, each as a whole, an operation once, and *)
(* no more is sold than is held.                                           *)
(***************************************************************************)
EXTENDS Integers

CONSTANTS
    Txns,       \* requests
    OperationId,\* the id a client gives to what it asks for, the same when it asks again
    Kind,       \* "buy", "sell" or "cash"
    Quantity    \* what is bought, sold or set

VARIABLES
    booked, \* operations booked, each with its request
    held,   \* quantity of the symbol
    money   \* cash of the account

ledgerVars == <<booked, held, money>>

LedgerInit == booked = {} /\ held = 0 /\ money = 0

Unbooked(t) == \A b \in booked : b[1] # OperationId[t]

Enter(t) == booked' = booked \cup {<<OperationId[t], <<Kind[t], Quantity[t]>>>>}

BookBuy(t) ==
    /\ Kind[t] = "buy"
    /\ held' = held + Quantity[t] /\ UNCHANGED money

BookSale(t) ==
    /\ Kind[t] = "sell" /\ Quantity[t] <= held
    /\ held' = held - Quantity[t] /\ UNCHANGED money

BookCash(t) ==
    /\ Kind[t] = "cash"
    /\ money' = Quantity[t] /\ UNCHANGED held

LedgerNext ==
    \E t \in Txns : Unbooked(t) /\ Enter(t) /\ (BookBuy(t) \/ BookSale(t) \/ BookCash(t))

LedgerSpec == LedgerInit /\ [][LedgerNext]_ledgerVars
=============================================================================
