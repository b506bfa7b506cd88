------------------------------ MODULE Inventory ------------------------------
(***************************************************************************)
(* The stock of one product at one site and one of its purchase orders,    *)
(* with one line (sensei-services/src/supply_chain/database.rs): the rows  *)
(* of inventory_items, the ledger stock_moves, the receipts of the order   *)
(* and the reversal of moves.                                              *)
(*                                                                         *)
(* A delta is an UPDATE of the rows of its location and lot and, if there  *)
(* is none, an INSERT.  Under READ COMMITTED other transactions commit     *)
(* between the two, so a transaction that found no row is held in tx       *)
(* until it inserts and commits (Finish) or is rolled back (RollBack), and *)
(* keeps the locks it has taken; the other ones take effect at once.       *)
(* Sites and authorization are left out.                                   *)
(***************************************************************************)
EXTENDS Integers, Sequences, FiniteSets, FiniteSetsExt, SequencesExt

CONSTANTS
    Clerks,       \* concurrent requests
    Locations, Receiving,   \* and the site's receiving location
    Lots, NoLot,
    Blank,        \* an empty or missing location
    NoTx,
    Quantities,
    Ordered,      \* quantity on the order's line
    MaxMoves      \* a bound on the ledger

ASSUME InventoryAssumption ==
    /\ Receiving \in Locations /\ Blank \notin Locations /\ NoLot \notin Lots
    /\ Quantities \subseteq Nat \ {0} /\ Ordered \in Nat \ {0} /\ MaxMoves \in Nat
    /\ "none" \notin Locations \union {Blank}

VARIABLES
    stock,    \* the rows in the order of their creation
    ledger,
    order,
    tx,      \* the transactions that are about to insert a row
    astray    \* ghost: locations where an UPDATE met several rows, or stock was deleted

inventoryVars == <<stock, ledger, order, tx, astray>>

Named == Locations \union {Blank}
Rows == [place : Named, lot : Lots \union {NoLot}, qty : Nat]
Moves == [type : {"receipt", "issue", "transfer", "adjustment"}, from : Named, to : Named,
          qty : Nat, lot : Lots \union {NoLot}, status : {"posted", "reversed"},
          ref : {"order", "manual", "move", "count", "reversal"}, of : Nat]
Orders == [status : {"draft", "partially_received", "received", "deleted"},
           ordered : Nat, received : Nat, edited : BOOLEAN]
\* credit, debit: where a transaction adds and takes, if it does.
Transactions == [move : Moves, credit : Named \union {"none"}, debit : Named \union {"none"}]

InventoryTypeOK ==
    /\ stock \in Seq(Rows) /\ ledger \in Seq(Moves) /\ order \in Orders
    /\ tx \in [Clerks -> Transactions \union {NoTx}]
    /\ astray \in SUBSET Named

InventoryInit ==
    /\ stock = <<>> /\ ledger = <<>> /\ astray = {}
    /\ order = [status |-> "draft", ordered |-> Ordered, received |-> 0, edited |-> FALSE]
    /\ tx = [x \in Clerks |-> NoTx]

-----------------------------------------------------------------------------
At(p) == {i \in DOMAIN stock : stock[i].place = p}
OfLot(p, l) == {i \in At(p) : stock[i].lot = l}

\* The rows a debit takes from.  (Mutation: of an insufficient row, too, what
\* there is.)
SufficientOrNot(p, l, q) == OfLot(p, l)
Sufficient(p, l, q) == {i \in OfLot(p, l) : stock[i].qty >= q}

\* apply_inventory_delta(), as a debit and, of the rows it found, as a credit.
Changed(t, i, found) ==
    LET q == t.move.qty
        less == IF i \in Sufficient(t.debit, t.move.lot, q) THEN Min({q, stock[i].qty}) ELSE 0
        more == IF i \in found THEN q ELSE 0
    IN [stock[i] EXCEPT !.qty = @ - less + more]
Created(t) == [place |-> t.credit, lot |-> t.move.lot, qty |-> t.move.qty]
Covered(t) == t.debit # "none" => Sufficient(t.debit, t.move.lot, t.move.qty) # {}
Several(t) ==
    {p \in {t.credit, t.debit} \ {"none"} : Cardinality(OfLot(p, t.move.lot)) > 1}

Receive(q) ==
    [order EXCEPT !.received = @ + q,
                  !.status = IF order.received + q >= order.ordered
                             THEN "received" ELSE "partially_received"]

Marked(m) ==
    IF m.of = 0 THEN ledger ELSE [ledger EXCEPT ![m.of].status = "reversed"]

\* The writes of the transaction t, which credits the rows it found, or a new one.
Commit(t, found, new) ==
    /\ Covered(t)
    /\ stock' = [i \in DOMAIN stock |-> Changed(t, i, found)] \o new
    /\ ledger' = Append(Marked(t.move), t.move)
    /\ order' = IF t.move.ref = "order" THEN Receive(t.move.qty) ELSE order
    /\ astray' = astray \union Several(t)

-----------------------------------------------------------------------------
Held == {tx[x] : x \in {y \in Clerks : tx[y] # NoTx}}

\* SELECT .. FOR UPDATE of the order.  (Mutation: a plain SELECT.)
OrderNeverLocked == FALSE
OrderLocked == \E t \in Held : t.move.ref = "order"

\* SELECT .. FOR UPDATE of the move to reverse.
MoveLocked(i) == \E t \in Held : t.move.of = i

\* A transfer has debited its source when it finds no row to credit.
RowsLocked(p, l) ==
    \E t \in Held : t.move.ref = "move" /\ t.debit = p /\ t.move.lot = l

\* One transaction: it commits, or it is held because there is no row to credit.
Submit(x, t) ==
    /\ tx[x] = NoTx
    /\ Len(ledger) + Cardinality(Held) < MaxMoves
    /\ Covered(t)
    /\ ~ RowsLocked(t.credit, t.move.lot) /\ ~ RowsLocked(t.debit, t.move.lot)
    /\ IF t.credit # "none" /\ OfLot(t.credit, t.move.lot) = {}
       THEN tx' = [tx EXCEPT ![x] = t] /\ UNCHANGED <<stock, ledger, order, astray>>
       ELSE Commit(t, OfLot(t.credit, t.move.lot), <<>>) /\ UNCHANGED tx

\* The INSERT: the unique index takes NULL lots for distinct.
Finish(x) ==
    LET t == tx[x] IN
    /\ t # NoTx
    /\ t.move.lot = NoLot \/ OfLot(t.credit, t.move.lot) = {}
    /\ Commit(t, {}, <<Created(t)>>)
    /\ tx' = [tx EXCEPT ![x] = NoTx]

\* The INSERT is refused, the debit is not covered, or the process dies.
RollBack(x) ==
    /\ tx[x] # NoTx
    /\ tx' = [tx EXCEPT ![x] = NoTx]
    /\ UNCHANGED <<stock, ledger, order, astray>>

Move(type, from, to, q, l, ref) ==
    [type |-> type, from |-> from, to |-> to, qty |-> q, lot |-> l,
     status |-> "posted", ref |-> ref, of |-> 0]

\* resolve_stock_location(): the place of the first row, or the site's own.
Resolved == IF stock = <<>> THEN Receiving ELSE stock[1].place

Deposit(p, q, l, ref) ==
    [move |-> Move("receipt", Blank, p, q, l, ref), credit |-> p, debit |-> "none"]

ReceiveStock(x, p, q, l) == Submit(x, Deposit(IF p = Blank THEN Resolved ELSE p, q, l, "manual"))

-----------------------------------------------------------------------------
\* receive_po_line() looks at the line, never at the status.
ReceiveLine(x, q) ==
    /\ order.status # "deleted" /\ ~ OrderLocked
    /\ q <= order.ordered - order.received
    /\ Submit(x, Deposit(Resolved, q, NoLot, "order"))

\* receive_full_po(): the rest of the line; an over-received one needs no move.
ReceiveFull(x) ==
    /\ order.status \notin {"received", "deleted"} /\ ~ OrderLocked
    /\ IF order.received < order.ordered
       THEN Submit(x, Deposit(Resolved, order.ordered - order.received, NoLot, "order"))
       ELSE /\ order' = [order EXCEPT !.status = "received"]
            /\ UNCHANGED <<stock, ledger, tx, astray>>

\* update_purchase_order() writes the line as the client read it, some receipts
\* ago; the status stays.
SaveOrder(r) ==
    /\ order.status # "deleted" /\ ~ OrderLocked
    /\ r <= order.received
    /\ order' = [order EXCEPT !.received = r, !.edited = TRUE]
    /\ UNCHANGED <<stock, ledger, tx, astray>>

DeleteOrder ==
    /\ order.status # "deleted" /\ ~ OrderLocked
    /\ order' = [order EXCEPT !.status = "deleted"]
    /\ UNCHANGED <<stock, ledger, tx, astray>>

-----------------------------------------------------------------------------
\* adjust_inventory_scoped(): every row of the location, whatever its lot, that
\* stays non-negative; the ledger gets the absolute value.
Adjust(p, d) ==
    LET met == {i \in At(p) : stock[i].qty + d >= 0} IN
    /\ met # {} /\ Len(ledger) + Cardinality(Held) < MaxMoves
    /\ \A i \in At(p) : ~ RowsLocked(p, stock[i].lot)
    /\ stock' = [i \in DOMAIN stock |->
                    IF i \in met THEN [stock[i] EXCEPT !.qty = @ + d] ELSE stock[i]]
    /\ ledger' = Append(ledger, Move("adjustment", p, p, Max({d, -d}), NoLot, "count"))
    /\ astray' = IF Cardinality(met) > 1 THEN astray \union {p} ELSE astray
    /\ UNCHANGED <<order, tx>>

\* create_stock_move_scoped(): the ledger gets the locations of the caller, the
\* effect goes to the first row's where the caller named none.  What nobody
\* reads (a receipt's source, an issue's destination beside its source) is blank.
Actual(p) == IF p = Blank THEN Resolved ELSE p

CreateMove(x, type, from, to, q) ==
    LET m == Move(type, from, to, q, NoLot, "move")
        own == IF from = Blank THEN to ELSE from
    IN /\ stock # <<>>
       /\ \/ /\ type = "receipt" /\ from = Blank /\ At(Actual(to)) # {}
             /\ Submit(x, [move |-> m, credit |-> Actual(to), debit |-> "none"])
          \/ /\ type = "issue" /\ (from # Blank => to = Blank)
             /\ Submit(x, [move |-> m, credit |-> "none", debit |-> Actual(from)])
          \/ /\ type = "transfer" /\ Blank \notin {from, to} /\ from # to /\ At(to) # {}
             /\ Submit(x, [move |-> m, credit |-> to, debit |-> from])
          \/ /\ type = "adjustment" /\ At(own) # {}
             /\ Submit(x, [move |-> m, credit |-> own, debit |-> "none"])

\* Where the move that undoes the issue m goes: a source that is missing is the
\* destination, one that is the empty string stays so.
Returns(m) == IF m.from = Blank THEN {m.to, Blank} ELSE {m.from}

\* The compensating move.  (Mutation: a transfer is not swapped.)
CompensationUnswapped(m, back) ==
    IF m.type = "issue"
    THEN [m EXCEPT !.type = "receipt", !.from = Blank, !.to = back]
    ELSE IF m.type = "transfer" THEN m
    ELSE [m EXCEPT !.type = "issue", !.from = m.to, !.to = Blank]
Compensation(m, back) ==
    IF m.type = "issue"
    THEN [m EXCEPT !.type = "receipt", !.from = Blank, !.to = back]
    ELSE IF m.type = "transfer" THEN [m EXCEPT !.from = m.to, !.to = m.from]
    ELSE [m EXCEPT !.type = "issue", !.from = m.to, !.to = Blank]

\* reverse_stock_move() applies what the compensating move says.
ReverseMove(x, i) ==
    /\ ledger[i].status = "posted" /\ ~ MoveLocked(i)
    /\ \E back \in Returns(ledger[i]) :
          LET c == Compensation(ledger[i], back) IN
          Submit(x, [move |-> [c EXCEPT !.ref = "reversal", !.of = i],
                     credit |-> IF c.type = "issue" THEN "none" ELSE c.to,
                     debit |-> IF c.type = "receipt" THEN "none" ELSE c.from])

DeleteRow(i) ==
    /\ ~ RowsLocked(stock[i].place, stock[i].lot)
    /\ stock' = RemoveAt(stock, i)
    /\ astray' = IF stock[i].qty > 0 THEN astray \union {stock[i].place} ELSE astray
    /\ UNCHANGED <<ledger, order, tx>>

-----------------------------------------------------------------------------
Transact(x) ==
    \/ \E p \in Named, q \in Quantities, l \in Lots \union {NoLot} : ReceiveStock(x, p, q, l)
    \/ \E q \in Quantities : ReceiveLine(x, q)
    \/ ReceiveFull(x)
    \/ \E type \in {"receipt", "issue", "transfer", "adjustment"}, from, to \in Named,
          q \in Quantities : CreateMove(x, type, from, to, q)
    \/ \E i \in DOMAIN ledger : ReverseMove(x, i)
    \/ Finish(x) \/ RollBack(x)

InventoryNext ==
    \/ \E x \in Clerks : Transact(x)
    \/ \E r \in 0..Ordered : SaveOrder(r)
    \/ DeleteOrder
    \/ \E p \in Named, q \in Quantities : Adjust(p, q) \/ Adjust(p, -q)
    \/ \E i \in DOMAIN stock : DeleteRow(i)

InventorySpec == InventoryInit /\ [][InventoryNext]_inventoryVars

-----------------------------------------------------------------------------
\* f[1] + ... + f[n]
SumTo(f, n) == LET s[k \in Nat] == IF k = 0 THEN 0 ELSE s[k - 1] + f[k] IN s[n]

OnHand(p) == SumTo([i \in Nat |-> IF i \in At(p) THEN stock[i].qty ELSE 0], Len(stock))

\* What a ledger row says happened at p.
Says(m, p) ==
    (IF m.type # "issue" /\ m.to = p THEN m.qty ELSE 0)
        - (IF m.type \in {"issue", "transfer"} /\ m.from = p THEN m.qty ELSE 0)

LedgerSum(p) ==
    SumTo([i \in Nat |-> IF i \in DOMAIN ledger THEN Says(ledger[i], p) ELSE 0], Len(ledger))

\* What the ledger says was received for the order.
Receipts ==
    SumTo([i \in Nat |-> IF i \in DOMAIN ledger /\ ledger[i].ref = "order"
                         THEN ledger[i].qty ELSE 0], Len(ledger))

\* The row tells where it acted, and in which direction.
Told(m) ==
    \/ m.of # 0
    \/ m.type = "transfer"
    \/ m.type = "receipt" /\ m.to # Blank
    \/ m.type = "issue" /\ m.from # Blank
    \/ m.type = "adjustment" /\ m.ref = "move" /\ m.from \in {Blank, m.to} /\ m.to # Blank

(* An order that nobody edited has received what the ledger says was received
   for it, never more than was ordered, however many requests receive it at
   the same time: receive_po_line() and receive_full_po(). *)
ReceiptsMatchOrder ==
    ~ order.edited =>
        /\ order.received = Receipts
        /\ order.received <= order.ordered
        /\ order.status = "received" => order.received = order.ordered

(* "the ledger always sums back to the physical balance" (migration 162), as
   long as every row of it tells what it did, at every location where a
   location and lot have one row and no stock was deleted. *)
LedgerSumsToBalance ==
    (\A i \in DOMAIN ledger : Told(ledger[i])) =>
        \A p \in Named \ astray : OnHand(p) = LedgerSum(p)

(* A reversed move has one compensating move, which undoes what it says; any other
   move has none, however many requests reverse it at the same time. *)
ReversedOnce ==
    \A i \in DOMAIN ledger :
        LET undone == {j \in DOMAIN ledger : ledger[j].of = i} IN
        IF ledger[i].status = "posted" THEN undone = {}
        ELSE /\ Cardinality(undone) = 1
             /\ Told(ledger[i]) => \A j \in undone, p \in Named :
                                       Says(ledger[j], p) = - Says(ledger[i], p)
=============================================================================
