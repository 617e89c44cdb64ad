------------------------------ MODULE Portfolio ------------------------------
(***************************************************************************)
(* The transactions of PortfolioService on one account and one symbol,     *)
(* statement by statement, in PostgreSQL's READ COMMITTED isolation: each  *)
(* statement sees what is committed by then, a row lock or the unique      *)
(* index of the receipts makes it wait, and everything a transaction wrote *)
(* appears at its commit.  A buy locks the account and updates the         *)
(* position it has read without a lock; a sale locks the position and then *)
(* the account.  The database ends a circular wait by aborting one side.   *)
(***************************************************************************)
EXTENDS Integers, FiniteSets, FiniteSetsExt, Functions

CONSTANTS
    Txns,       \* requests as the API receives them, each a transaction
    OperationId,\* the operation_id of a transaction: a repeated request has the same
    Kind,       \* "buy", "sell" or "cash"
    Quantity,   \* what it buys, sells or sets
    When,       \* executed_at
    Positions   \* bound: ids of positions, taken in order

ASSUME PortfolioAssumption ==
    /\ \A t \in Txns : /\ Kind[t] \in {"buy", "sell", "cash"}
                      /\ Quantity[t] \in Nat \ {0} /\ When[t] \in Nat
    /\ Positions \subseteq Nat \ {0}

VARIABLES
    step,      \* per transaction: its next statement, or its answer
    target,    \* the position a buy found or a sale was given, 0 for a new one
    seen,      \* the quantity it read
    account,   \* the transaction that holds the account's row lock
    locked,    \* per position, the holder of its row lock
    pfClaims,  \* the receipts inserted and not committed yet
    receipts,  \* the committed receipts: operation, request
    quantity, open, lots, trades, cash \* committed rows

pfVars == <<step, target, seen, account, locked, pfClaims, receipts, quantity, open, lots, trades, cash>>

QuantitySum(set) == MapThenSumSet(LAMBDA t : Quantity[t], set)
Request(t)  == <<Kind[t], Quantity[t]>>
Answers     == {"ok", "replayed", "conflict", "refused", "aborted"}

PfTypeOK ==
    /\ step \in [Txns -> Answers \cup {"new", "account", "read", "position", "write", "commit"}]
    /\ target \in [Txns -> Positions \cup {0}]
    /\ seen \in [Txns -> Nat]
    /\ account \subseteq Txns /\ Cardinality(account) <= 1
    /\ locked \in [Positions -> SUBSET Txns] /\ \A p \in Positions : Cardinality(locked[p]) <= 1
    /\ pfClaims \subseteq Txns
    /\ quantity \in [Positions -> Nat] /\ open \subseteq Positions
    /\ lots \subseteq [id : Nat, position : Positions, txn : Txns, left : Nat, role : {"CORE", "ADDON"}]
    /\ trades \subseteq Txns
    /\ cash \in Nat

PfInit ==
    /\ step = [t \in Txns |-> "new"]
    /\ target = [t \in Txns |-> 0]
    /\ seen = [t \in Txns |-> 0]
    /\ account = {} /\ locked = [p \in Positions |-> {}]
    /\ pfClaims = {} /\ receipts = {}
    /\ quantity = [p \in Positions |-> 0] /\ open = {} /\ lots = {} /\ trades = {} /\ cash = 0

pfRows == <<receipts, quantity, open, lots, trades, cash>>

To(t, from, next) == step[t] = from /\ step' = [step EXCEPT ![t] = next]

PfRelease(t) ==
    /\ account' = account \ {t}
    /\ locked' = [p \in Positions |-> locked[p] \ {t}]
    /\ pfClaims' = pfClaims \ {t}

InsertReceiptUnwaiting(t) ==
    /\ IF \E r \in receipts : r[1] = OperationId[t]
       THEN /\ To(t, "new", IF <<OperationId[t], Request(t)>> \in receipts THEN "replayed" ELSE "conflict")
            /\ UNCHANGED pfClaims
       ELSE /\ To(t, "new", IF Kind[t] = "sell" THEN "position" ELSE "account")
            /\ pfClaims' = pfClaims \cup {t}
    /\ UNCHANGED <<target, seen, account, locked, pfRows>>

(***************************************************************************)
(* run_idempotent_write: the insert waits for an uncommitted receipt of    *)
(* the same operation; a committed one is a replay or a conflict.          *)
(***************************************************************************)
InsertReceipt(t) ==
    /\ \A u \in pfClaims : OperationId[u] # OperationId[t]
    /\ IF \E r \in receipts : r[1] = OperationId[t]
       THEN /\ To(t, "new", IF <<OperationId[t], Request(t)>> \in receipts THEN "replayed" ELSE "conflict")
            /\ UNCHANGED pfClaims
       ELSE /\ To(t, "new", IF Kind[t] = "sell" THEN "position" ELSE "account")
            /\ pfClaims' = pfClaims \cup {t}
    /\ UNCHANGED <<target, seen, account, locked, pfRows>>

LockAccount(t) ==
    /\ To(t, "account", IF Kind[t] = "buy" THEN "read" ELSE "write")
    /\ account = {}
    /\ account' = {t}
    /\ UNCHANGED <<target, seen, locked, pfClaims, pfRows>>

(* get_open_position, without a lock.                                      *)
ReadPosition(t) ==
    /\ To(t, "read", "write")
    /\ IF open = {} THEN target' = [target EXCEPT ![t] = 0] /\ seen' = [seen EXCEPT ![t] = 0]
       ELSE \E p \in open : target' = [target EXCEPT ![t] = p] /\ seen' = [seen EXCEPT ![t] = quantity[p]]
    /\ UNCHANGED <<account, locked, pfClaims, pfRows>>

(* lock_position: the row as it is once the lock is granted.               *)
LockPosition(t, p) ==
    /\ p \in open \/ \E l \in lots : l.position = p
    /\ locked[p] = {}
    /\ IF p \in open /\ Quantity[t] <= quantity[p]
       THEN /\ To(t, "position", "account")
            /\ locked' = [locked EXCEPT ![p] = {t}]
            /\ target' = [target EXCEPT ![t] = p] /\ seen' = [seen EXCEPT ![t] = quantity[p]]
            /\ UNCHANGED <<account, pfClaims>>
       ELSE /\ To(t, "position", "refused")
            /\ PfRelease(t) /\ UNCHANGED <<target, seen>>
    /\ UNCHANGED pfRows

FlushUnlocked(t) ==
    /\ To(t, "write", "commit")
    /\ UNCHANGED <<target, seen, account, locked, pfClaims, pfRows>>

(* The flush of a position that exists needs its row lock.                 *)
Flush(t) ==
    /\ To(t, "write", "commit")
    /\ IF target[t] = 0 THEN UNCHANGED locked
       ELSE locked[target[t]] \subseteq {t} /\ locked' = [locked EXCEPT ![target[t]] = {t}]
    /\ UNCHANGED <<target, seen, account, pfClaims, pfRows>>

(* _sell_order: added lots before the first one, the latest first, and of  *)
(* two of one time the one with the greater id.                            *)
Before(l, k) ==
    \/ l.role = "ADDON" /\ k.role = "CORE"
    \/ l.role = k.role /\ When[l.txn] > When[k.txn]
    \/ l.role = k.role /\ When[l.txn] = When[k.txn] /\ l.id > k.id

Lots(p)     == {l \in lots : l.position = p}
LotSum(set) == MapThenSumSet(LAMBDA l : l.left, set)

SellFrom(p, qty) ==
    {LET ahead == LotSum({k \in Lots(p) : Before(k, l)})
         rest  == IF qty > ahead THEN qty - ahead ELSE 0
         take  == IF rest < l.left THEN rest ELSE l.left
     IN [l EXCEPT !.left = @ - take] : l \in Lots(p)}

Unused      == Positions \ {l.position : l \in lots}
NewPosition == Min(Unused)

Bought(t) ==
    LET p == IF target[t] = 0 THEN NewPosition ELSE target[t] IN
    /\ target[t] = 0 => Unused # {}
    /\ quantity' = [quantity EXCEPT ![p] = seen[t] + Quantity[t]]
    /\ open' = open \cup {p}
    /\ lots' = lots \cup {[id |-> Cardinality(lots) + 1, position |-> p, txn |-> t, left |-> Quantity[t],
                           role |-> IF seen[t] = 0 THEN "CORE" ELSE "ADDON"]}
    /\ UNCHANGED cash

Sold(t) ==
    LET p == target[t] IN
    /\ quantity' = [quantity EXCEPT ![p] = seen[t] - Quantity[t]]
    /\ open' = IF seen[t] = Quantity[t] THEN open \ {p} ELSE open
    /\ lots' = (lots \ Lots(p)) \cup SellFrom(p, Quantity[t])
    /\ UNCHANGED cash

(* Receipt and rows become visible together.                               *)
Commit(t) ==
    /\ To(t, "commit", "ok")
    /\ receipts' = receipts \cup {<<OperationId[t], Request(t)>>}
    /\ CASE Kind[t] = "buy"  -> Bought(t)
         [] Kind[t] = "sell" -> Sold(t)
         [] Kind[t] = "cash" -> cash' = Quantity[t] /\ UNCHANGED <<quantity, open, lots>>
    /\ trades' = IF Kind[t] = "cash" THEN trades ELSE trades \cup {t}
    /\ PfRelease(t)
    /\ UNCHANGED <<target, seen>>

(* The connection breaks before the commit, or the database aborts one     *)
(* side of a circular wait: nothing was written, and the API does not try  *)
(* again.                                                                  *)
Abort(t) ==
    /\ step[t] \notin Answers \cup {"new"}
    /\ step' = [step EXCEPT ![t] = "aborted"]
    /\ PfRelease(t)
    /\ UNCHANGED <<target, seen, pfRows>>

PfNext ==
    \E t \in Txns :
      \/ InsertReceipt(t) \/ LockAccount(t) \/ ReadPosition(t) \/ Flush(t) \/ Commit(t) \/ Abort(t)
      \/ \E p \in Positions : LockPosition(t, p)

PfSpec == PfInit /\ [][PfNext]_pfVars

(* The ledger: the quantity of the position that is open.                  *)
Held   == IF open = {} THEN 0 ELSE quantity[CHOOSE p \in open : TRUE]
Serial == INSTANCE Ledger WITH booked <- receipts, held <- Held, money <- cash

(***************************************************************************)
(* Properties                                                              *)
(***************************************************************************)
(* One symbol has one open position in an account, although nothing in the *)
(* database says so.                                                       *)
OneOpenPosition == Cardinality(open) <= 1

(* docs/holdings-portfolio-risk.md: a repeated request is not booked       *)
(* twice.  One operation has one trade, made once it was answered; the     *)
(* same id never stands for two different requests.                        *)
BookedOnce ==
    \A t, u \in Txns :
      OperationId[t] = OperationId[u] =>
        /\ t # u => ~(step[t] = "ok" /\ step[u] = "ok")
        /\ step[t] = "replayed" => \E v \in Txns : step[v] = "ok" /\ OperationId[v] = OperationId[t]
                                                   /\ Request(v) = Request(t)

(* However buys and sales interleave, no update of a position is lost: its *)
(* quantity is what its lots have left and what was bought less what was   *)
(* sold, it is open exactly while that is not zero, and no operation is in *)
(* it twice.                                                               *)
LedgerAgrees ==
    /\ \A p \in Positions : /\ quantity[p] = LotSum(Lots(p))
                            /\ p \in open <=> quantity[p] # 0
    /\ LotSum(lots) =
         QuantitySum({t \in trades : Kind[t] = "buy"}) - QuantitySum({t \in trades : Kind[t] = "sell"})
    /\ OneOpenPosition /\ BookedOnce

(* The transactions implement the ledger: whatever their statements        *)
(* interleave to, and wherever one is aborted, the committed rows are      *)
(* those of requests booked one by one.                                    *)
SerialLedger == Serial!LedgerSpec
=============================================================================
