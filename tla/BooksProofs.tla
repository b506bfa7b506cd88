----------------------------- MODULE BooksProofs -----------------------------
(***************************************************************************)
(* Proofs about the two sets of books: Finance, for any number of          *)
(* transactions whose statements interleave, and Inventory, for every      *)
(* number of requests, locations, lots, rows and moves.                    *)
(*                                                                         *)
(* Finance: a marking that no write overtook leaves an invoice that is     *)
(* covered and stays as it is.  Inventory: the ledger adds up to the       *)
(* receipts of the order and to the stock, and a move is undone once.  The *)
(* sums are over sequences of any length: what they are is proved by       *)
(* induction, which InductiveSet draws from the order of the numbers being *)
(* well-founded.                                                           *)
(***************************************************************************)
EXTENDS Finance, Inventory, FiniteSetTheorems, SequenceTheorems, WellFoundedInduction, TLAPS

-----------------------------------------------------------------------------
(* Invoices and payments: Finance. *)

(* The inductive invariant. *)

\* What a marking has read is still so, unless another write made it stale.
MarkingsFit ==
    \A c \in Callers :
        job[c] # NoJob /\ job[c].op = "mark" /\ ~ job[c].stale =>
            /\ job[c].at \in {"sum", "write"} => job[c].value = total
            /\ job[c].at = "write" =>
                   job[c].counts \subseteq there /\ Covers(SumPaid(job[c].counts), total)

\* An edit that read the invoice before it was paid has been overtaken.
EditsAreLate ==
    status = "paid" =>
        \A c \in Callers : job[c] # NoJob /\ job[c].op \in Edits => job[c].stale

\* Before there is an invoice there is nothing else.
NothingYet == status = "none" => there = {} /\ \A c \in Callers : job[c] = NoJob

FinanceInv ==
    TypeOK /\ MarkingsFit /\ EditsAreLate /\ NothingYet /\ PaidIsCovered

-----------------------------------------------------------------------------
LEMMA InitOK == Init => FinanceInv
BY FinanceAssumption
   DEF Init, FinanceInv, TypeOK, MarkingsFit, EditsAreLate, NothingYet,
       PaidIsCovered

LEMMA TypeStep == TypeOK /\ [Next]_vars => TypeOK'
<1> SUFFICES ASSUME TypeOK, [Next]_vars PROVE TypeOK'
  OBVIOUS
<1> USE FinanceAssumption DEF TypeOK, invoice, payments, ghosts
<1>1. ASSUME NEW t \in Totals, CreateInvoice(t) PROVE TypeOK'
  BY <1>1 DEF CreateInvoice
<1>2. ASSUME NEW p \in Payments, NEW a \in Amounts, RecordPayment(p, a) PROVE TypeOK'
  BY <1>2 DEF RecordPayment
<1>3. ASSUME NEW c \in Callers, NEW op \in PaymentEdits, NEW p \in Payments, NEW v \in Amounts,
             EditReads(c, op, p, v)
      PROVE TypeOK'
  BY <1>3 DEF EditReads, Begin, Jobs, JobsOf
<1>4. ASSUME NEW c \in Callers, NEW op \in InvoiceEdits, NEW t \in Totals,
             EditReads(c, op, NoPayment, t)
      PROVE TypeOK'
  BY <1>4 DEF EditReads, Begin, Jobs, JobsOf
<1>5. ASSUME NEW c \in Callers, NEW p \in Payments, MarkChecksPayment(c, p) PROVE TypeOK'
  BY <1>5 DEF MarkChecksPayment, Begin, Jobs, JobsOf
<1>6. ASSUME NEW c \in Callers, MarkReadsInvoice(c) PROVE TypeOK'
  <2>1. [job[c] EXCEPT !.at = "sum", !.value = total] \in Jobs
    BY <1>6 DEF MarkReadsInvoice, Reads, Jobs, JobsOf
  <2> QED  BY <1>6, <2>1 DEF MarkReadsInvoice, Reads
<1>7. ASSUME NEW c \in Callers, MarkSums(c) PROVE TypeOK'
  <2>1. [job[c] EXCEPT !.at = "write", !.counts = there] \in Jobs
    BY <1>7 DEF MarkSums, Reads, Jobs, JobsOf
  <2> QED  BY <1>7, <2>1 DEF MarkSums, Reads
<1>8. ASSUME NEW c \in Callers, Commits(c), job[c] # NoJob
      PROVE job' \in [Callers -> Jobs \union {NoJob}] /\ overtaken' \in BOOLEAN
  <2>1. \A x \in Callers : job[x] # NoJob => [job[x] EXCEPT !.stale = TRUE] \in Jobs
    BY DEF Jobs, JobsOf
  <2>2. job[c].stale \in BOOLEAN
    BY <1>8 DEF Jobs, JobsOf
  <2> QED  BY <1>8, <2>1, <2>2 DEF Commits
<1>9. ASSUME NEW c \in Callers, MarkWrites(c) PROVE TypeOK'
  <2>1. job[c].counts \subseteq Payments
    BY <1>9 DEF MarkWrites, Jobs, JobsOf
  <2> QED  BY <1>8, <1>9, <2>1 DEF MarkWrites
<1>10. ASSUME NEW c \in Callers, EditWrites(c) PROVE TypeOK'
  <2>1. /\ job[c].op \in PaymentEdits => job[c].value \in Amounts /\ job[c].payment \in Payments
        /\ job[c].op \in InvoiceEdits => job[c].value \in Totals
    <3>1. job[c] \in Jobs /\ job[c].op \in Edits
      BY <1>10 DEF EditWrites
    <3> QED  BY <3>1 DEF Jobs, JobsOf, PaymentEdits, InvoiceEdits, Edits
  <2>2. job' \in [Callers -> Jobs \union {NoJob}] /\ overtaken' \in BOOLEAN
    BY <1>8, <1>10 DEF EditWrites
  <2>3. /\ status' \in {"none", "draft", "paid", "removed"} /\ total' \in Totals \union {0}
        /\ there' \subseteq drawn' /\ drawn' \subseteq Payments
        /\ amount' \in [Payments -> Amounts \union {0}] /\ counted' \subseteq Payments
    BY <1>10, <2>1 DEF EditWrites, PaymentEdits, InvoiceEdits
  <2> QED  BY <2>2, <2>3
<1>11. ASSUME NEW c \in Callers, Abort(c) PROVE TypeOK'
  BY <1>11 DEF Abort
<1>12. CASE UNCHANGED vars
  BY <1>12 DEF vars
<1>13. ASSUME NEW c \in Callers, Request(c) PROVE TypeOK'
  BY <1>3, <1>4, <1>5, <1>6, <1>7, <1>9, <1>10, <1>11, <1>13 DEF Request
<1> QED
  BY <1>1, <1>2, <1>12, <1>13 DEF Next
-----------------------------------------------------------------------------
\* Two sums over the same payments with the same amounts are equal.
LEMMA SumsAgree ==
    ASSUME NEW ps, TypeOK, ps \subseteq Payments, \A p \in ps : amount'[p] = amount[p]
    PROVE  SumOf([p \in ps |-> amount'[p]]) = SumOf([p \in ps |-> amount[p]])
<1>1. [p \in ps |-> amount'[p]] = [p \in ps |-> amount[p]]
  OBVIOUS
<1> QED  BY <1>1

\* After a commit every other transaction is stale, and the writer's has ended.
LEMMA CommitLeavesStale ==
    ASSUME TypeOK, NEW c \in Callers, Commits(c), NEW x \in Callers, job'[x] # NoJob
    PROVE  job'[x].stale /\ job[x] # NoJob /\ job'[x].op = job[x].op
<1>1. x # c /\ job[x] # NoJob /\ job'[x] = [job[x] EXCEPT !.stale = TRUE]
  BY DEF Commits, TypeOK
<1> QED  BY <1>1 DEF TypeOK, Jobs, JobsOf

LEMMA MarkingsStep == FinanceInv /\ [Next]_vars => MarkingsFit'
<1> DEFINE Fits(c) ==
        /\ job[c].at \in {"sum", "write"} => job[c].value = total
        /\ job[c].at = "write" =>
               job[c].counts \subseteq there /\ Covers(SumPaid(job[c].counts), total)
<1> SUFFICES ASSUME FinanceInv, [Next]_vars,
                    NEW c \in Callers, job'[c] # NoJob, job'[c].op = "mark", ~ job'[c].stale
             PROVE  Fits(c)'
  BY DEF MarkingsFit
<1>a. TypeOK /\ MarkingsFit /\ NothingYet
  BY DEF FinanceInv
<1>0. job[c] # NoJob /\ job[c].op = "mark" /\ ~ job[c].stale =>
          Fits(c) /\ job[c].counts \subseteq Payments
  BY <1>a DEF MarkingsFit, TypeOK, Jobs, JobsOf
<1>1. ASSUME job'[c] = job[c], total' = total, there \subseteq there',
             \A p \in there : amount'[p] = amount[p]
      PROVE  Fits(c)'
  <2>1. Fits(c) /\ job[c].counts \subseteq Payments
    BY <1>0, <1>1
  <2>2. CASE job[c].at = "write"
    <3>1. \A p \in job[c].counts : amount'[p] = amount[p]
      BY <1>1, <2>1, <2>2
    <3>2. SumOf([p \in job[c].counts |-> amount'[p]]) = SumOf([p \in job[c].counts |-> amount[p]])
      BY <1>a, <2>1, <3>1, SumsAgree
    <3> QED  BY <1>1, <2>1, <2>2, <3>2 DEF SumPaid, Covers
  <2>3. CASE job[c].at # "write"
    BY <1>1, <2>1, <2>3
  <2> QED  BY <2>2, <2>3
<1>2. ASSUME NEW t \in Totals, CreateInvoice(t) PROVE Fits(c)'
  BY <1>2, <1>a DEF CreateInvoice, NothingYet
<1>3. ASSUME NEW p \in Payments, NEW a \in Amounts, RecordPayment(p, a) PROVE Fits(c)'
  BY <1>3, <1>a, <1>1 DEF RecordPayment, invoice, TypeOK
<1>4. ASSUME NEW x \in Callers, Request(x) PROVE Fits(c)'
  <2>1. ASSUME x # c, job' = [job EXCEPT ![x] = job'[x]], UNCHANGED <<invoice, payments>>
        PROVE  Fits(c)'
    BY <2>1, <1>a, <1>1 DEF invoice, payments, TypeOK
  <2>2. ASSUME NEW op \in Edits, NEW p, NEW v, EditReads(x, op, p, v) PROVE Fits(c)'
    BY <2>1, <2>2, <1>a DEF EditReads, Begin, TypeOK, Edits, PaymentEdits, InvoiceEdits
  <2>3. ASSUME NEW p \in Payments, MarkChecksPayment(x, p) PROVE Fits(c)'
    BY <2>1, <2>3, <1>a DEF MarkChecksPayment, Begin, TypeOK
  <2>4. CASE MarkReadsInvoice(x)
    BY <2>1, <2>4, <1>a DEF MarkReadsInvoice, Reads, TypeOK, Jobs, JobsOf, invoice
  <2>5. CASE MarkSums(x)
    <3>1. CASE x = c
      <4>1. /\ job'[c] = [job[c] EXCEPT !.at = "write", !.counts = there]
            /\ UNCHANGED <<total, there, amount>>
        BY <2>5, <3>1, <1>a DEF MarkSums, Reads, TypeOK, invoice, payments
      <4>2. /\ job[c].op = "mark" /\ ~ job[c].stale /\ job[c].at = "sum" /\ job[c] # NoJob
            /\ job'[c].at = "write" /\ job'[c].value = job[c].value /\ job'[c].counts = there
        BY <2>5, <3>1, <4>1, <1>a DEF MarkSums, TypeOK, Jobs, JobsOf
      <4>3. job[c].value = total /\ Covers(SumPaid(there), total)
        BY <1>0, <2>5, <3>1, <4>2 DEF MarkSums, Enough
      <4>4. SumPaid(job[c].counts)' = SumPaid(there)
        BY <4>1, <4>2 DEF SumPaid
      <4> QED  BY <4>1, <4>2, <4>3, <4>4 DEF Covers
    <3>2. CASE x # c
      BY <2>1, <2>5, <3>2, <1>a DEF MarkSums, Reads, TypeOK
    <3> QED  BY <3>1, <3>2
  <2>6. CASE MarkWrites(x) \/ EditWrites(x)
    BY <2>6, <1>a, CommitLeavesStale DEF MarkWrites, EditWrites
  <2>7. CASE Abort(x)
    BY <2>1, <2>7, <1>a DEF Abort, TypeOK
  <2> QED  BY <1>4, <2>2, <2>3, <2>4, <2>5, <2>6, <2>7 DEF Request, Edits
<1>5. CASE UNCHANGED vars
  BY <1>5, <1>1 DEF vars
<1> QED  BY <1>2, <1>3, <1>4, <1>5 DEF Next

LEMMA LateStep == FinanceInv /\ [Next]_vars => EditsAreLate'
<1> SUFFICES ASSUME FinanceInv, [Next]_vars, status' = "paid",
                    NEW c \in Callers, job'[c] # NoJob, job'[c].op \in Edits
             PROVE  job'[c].stale
  BY DEF EditsAreLate
<1>a. TypeOK /\ EditsAreLate
  BY DEF FinanceInv
<1>1. ASSUME status = "paid", job'[c] = job[c] PROVE job'[c].stale
  BY <1>1, <1>a DEF EditsAreLate
<1>2. ASSUME NEW t \in Totals, CreateInvoice(t) PROVE job'[c].stale
  BY <1>2 DEF CreateInvoice
<1>3. ASSUME NEW p \in Payments, NEW a \in Amounts, RecordPayment(p, a) PROVE job'[c].stale
  BY <1>1, <1>3 DEF RecordPayment, invoice
<1>4. ASSUME NEW x \in Callers, Request(x) PROVE job'[c].stale
  <2>1. ASSUME NEW op \in Edits, NEW p, NEW v, EditReads(x, op, p, v) PROVE FALSE
    BY <2>1 DEF EditReads, Editable, Begin, invoice
  <2>2. ASSUME NEW p \in Payments, MarkChecksPayment(x, p) PROVE job'[c].stale
    <3>1. c # x
      BY <2>2, <1>a DEF MarkChecksPayment, Begin, TypeOK, Edits, PaymentEdits, InvoiceEdits
    <3> QED  BY <2>2, <3>1, <1>1, <1>a DEF MarkChecksPayment, Begin, TypeOK, invoice
  <2>3. CASE MarkReadsInvoice(x)
    BY <2>3 DEF MarkReadsInvoice, Reads, invoice
  <2>4. CASE MarkSums(x)
    <3>1. CASE c = x
      BY <2>4, <3>1, <1>a
         DEF MarkSums, Reads, TypeOK, Jobs, JobsOf, Edits, PaymentEdits, InvoiceEdits
    <3>2. CASE c # x
      BY <2>4, <3>2, <1>1, <1>a DEF MarkSums, Reads, TypeOK, invoice
    <3> QED  BY <3>1, <3>2
  <2>5. CASE MarkWrites(x) \/ EditWrites(x)
    BY <2>5, <1>a, CommitLeavesStale DEF MarkWrites, EditWrites
  <2>6. CASE Abort(x)
    BY <2>6, <1>1, <1>a DEF Abort, TypeOK, invoice
  <2> QED  BY <1>4, <2>1, <2>2, <2>3, <2>4, <2>5, <2>6 DEF Request, Edits
<1>5. CASE UNCHANGED vars
  BY <1>1, <1>5 DEF vars
<1> QED  BY <1>2, <1>3, <1>4, <1>5 DEF Next

LEMMA NothingStep == FinanceInv /\ [Next]_vars => NothingYet'
<1> SUFFICES ASSUME FinanceInv, [Next]_vars, status' = "none"
             PROVE  there' = {} /\ \A c \in Callers : job'[c] = NoJob
  BY DEF NothingYet
<1>a. TypeOK /\ NothingYet
  BY DEF FinanceInv
<1>1. status = "none" /\ UNCHANGED <<there, job>>
  <2>1. ASSUME NEW x \in Callers, Request(x) PROVE FALSE
    BY <2>1, <1>a
       DEF Request, EditReads, MarkChecksPayment, MarkReadsInvoice, MarkSums, MarkWrites,
           EditWrites, Abort, Reads, Begin, invoice, payments, NothingYet
  <2> QED  BY <2>1 DEF Next, CreateInvoice, RecordPayment, vars, invoice
<1> QED  BY <1>1, <1>a DEF NothingYet
\* Once the invoice is paid, a step that no write overtook changes neither it nor
\* a payment that is there.
LEMMA PaidStep ==
    FinanceInv /\ [Next]_vars /\ status = "paid" /\ ~ overtaken' =>
        /\ UNCHANGED <<invoice, counted>> /\ ~ overtaken
        /\ there \subseteq there' /\ \A p \in there : amount'[p] = amount[p]
<1> SUFFICES ASSUME FinanceInv, [Next]_vars, status = "paid", ~ overtaken'
             PROVE  /\ UNCHANGED <<invoice, counted>> /\ ~ overtaken
                    /\ there \subseteq there' /\ \A p \in there : amount'[p] = amount[p]
  OBVIOUS
<1>a. TypeOK /\ EditsAreLate
  BY DEF FinanceInv
<1>1. ASSUME NEW p \in Payments, NEW a \in Amounts, RecordPayment(p, a)
      PROVE  /\ UNCHANGED <<invoice, counted>> /\ ~ overtaken
             /\ there \subseteq there' /\ \A q \in there : amount'[q] = amount[q]
  BY <1>1, <1>a DEF RecordPayment, invoice, ghosts, TypeOK
<1>2. ASSUME NEW x \in Callers, Request(x)
      PROVE  UNCHANGED <<invoice, payments, counted>> /\ ~ overtaken
  <2>1. ~ EditWrites(x)
    BY <1>a DEF EditWrites, Commits, EditsAreLate
  <2>2. ~ MarkWrites(x)
    BY DEF MarkWrites
  <2> QED
    BY <1>2, <2>1, <2>2
       DEF Request, EditReads, MarkChecksPayment, MarkReadsInvoice, MarkSums, Abort, Reads,
           Begin, ghosts
<1> QED
  BY <1>1, <1>2 DEF Next, CreateInvoice, vars, invoice, payments

LEMMA CoveredStep == FinanceInv /\ [Next]_vars => PaidIsCovered'
<1> SUFFICES ASSUME FinanceInv, [Next]_vars, status' = "paid", ~ overtaken'
             PROVE  counted' \subseteq there' /\ Covers(SumPaid(counted), total)'
  BY DEF PaidIsCovered
<1>a. TypeOK /\ MarkingsFit /\ PaidIsCovered
  BY DEF FinanceInv
<1>1. CASE status = "paid"
  <2>1. /\ UNCHANGED <<invoice, counted>> /\ ~ overtaken
        /\ there \subseteq there' /\ \A p \in there : amount'[p] = amount[p]
    BY <1>1, PaidStep
  <2>2. counted \subseteq there /\ Covers(SumPaid(counted), total)
    BY <1>1, <1>a, <2>1 DEF PaidIsCovered
  <2>3. SumOf([p \in counted |-> amount'[p]]) = SumOf([p \in counted |-> amount[p]])
    <3>1. counted \subseteq Payments /\ \A p \in counted : amount'[p] = amount[p]
      BY <1>a, <2>1, <2>2 DEF TypeOK
    <3> QED  BY <1>a, <3>1, SumsAgree
  <2> QED  BY <2>1, <2>2, <2>3 DEF SumPaid, Covers, invoice
<1>2. CASE status # "paid"
  <2>1. PICK c \in Callers : MarkWrites(c)
    BY <1>2 DEF Next, Request, CreateInvoice, RecordPayment, EditReads, MarkChecksPayment,
                MarkReadsInvoice, MarkSums, Abort, Reads, Begin, EditWrites, invoice, vars
  <2>2. /\ ~ job[c].stale /\ job[c] # NoJob /\ job[c].op = "mark" /\ job[c].at = "write"
        /\ counted' = job[c].counts /\ UNCHANGED <<total, there, amount>>
    BY <2>1 DEF MarkWrites, Commits, payments
  <2>3. job[c].counts \subseteq there /\ Covers(SumPaid(job[c].counts), total)
    BY <1>a, <2>2 DEF MarkingsFit
  <2> QED  BY <2>2, <2>3 DEF SumPaid, Covers
<1> QED  BY <1>1, <1>2

-----------------------------------------------------------------------------
(* FinanceInv is an invariant. *)
THEOREM FinanceInvHolds == Spec => []FinanceInv
<1>1. FinanceInv /\ [Next]_vars => FinanceInv'
  BY TypeStep, MarkingsStep, LateStep, NothingStep, CoveredStep DEF FinanceInv
<1> QED  BY InitOK, <1>1, PTL DEF Spec

(* A paid invoice is covered by the payments that were counted, which are all
   still there, unless a write overtook the reads of another transaction:
   mark_invoice_paid(). *)
THEOREM PaidIsCoveredHolds == Spec => []PaidIsCovered
<1>1. FinanceInv => PaidIsCovered
  BY DEF FinanceInv
<1> QED  BY <1>1, FinanceInvHolds, PTL

(* A paid invoice and its payments are immutable, with the same exception:
   update_invoice(), delete_invoice(), update_payment(), delete_payment(). *)
THEOREM PaidIsImmutableHolds == Spec => PaidIsImmutable
<1>1. FinanceInv /\ [Next]_vars =>
          [status = "paid" /\ ~overtaken' =>
               /\ UNCHANGED invoice
               /\ there \subseteq there' /\ \A p \in there : amount'[p] = amount[p]]_vars
  BY PaidStep
<1> QED  BY <1>1, FinanceInvHolds, PTL DEF Spec, PaidIsImmutable

-----------------------------------------------------------------------------
(* The stock and its ledger: Inventory. *)

(* Sums. *)

\* Induction over a set of numbers, without an operator parameter.
LEMMA InductiveSet ==
    ASSUME NEW S, 0 \in S, \A n \in Nat : n \in S => n + 1 \in S
    PROVE  Nat \subseteq S
<1> SUFFICES ASSUME ~ (Nat \subseteq S) PROVE FALSE
  OBVIOUS
<1> DEFINE T == Nat \ S
           R == {ss \in Nat \X Nat : ss[1] < ss[2]}
<1>1. IsWellFoundedOn(R, Nat)
  BY NatLessThanWellFounded DEF OpToRel
<1>2. T \subseteq Nat /\ T # {}
  OBVIOUS
<1>3. PICK x \in T : \A y \in T : ~ (<<y, x>> \in R)
  <2> HIDE DEF R, T
  <2> QED BY <1>1, <1>2, WFMin
<1>4. x \in Nat /\ x \notin S /\ x # 0
  OBVIOUS
<1>5. x - 1 \in Nat /\ <<x - 1, x>> \in R
  BY <1>4
<1>6. x - 1 \in S
  BY <1>3, <1>5
<1>7. (x - 1) + 1 \in S
  BY <1>5, <1>6
<1> QED  BY <1>4, <1>7

Prefix(f, n, g) == g = [k \in 0..n |-> IF k = 0 THEN 0 ELSE g[k - 1] + f[k]]

LEMMA PrefixExists ==
    ASSUME NEW f \in [Nat -> Int]
    PROVE  \A n \in Nat : \E g \in [0..n -> Int] : Prefix(f, n, g)
<1> DEFINE S == {n \in Nat : \E g \in [0..n -> Int] : Prefix(f, n, g)}
<1>1. 0 \in S
  <2> DEFINE g == [k \in 0..0 |-> 0]
  <2>1. g \in [0..0 -> Int] /\ Prefix(f, 0, g)
    BY DEF Prefix
  <2> QED  BY <2>1
<1>2. ASSUME NEW n \in Nat, n \in S PROVE n + 1 \in S
  <2>1. PICK g \in [0..n -> Int] : Prefix(f, n, g)
    BY <1>2
  <2> DEFINE h == [k \in 0..(n + 1) |-> IF k = n + 1 THEN g[n] + f[n + 1] ELSE g[k]]
  <2>2. h \in [0..(n + 1) -> Int]
    BY <2>1
  <2>3. ASSUME NEW k \in 0..(n + 1) PROVE h[k] = IF k = 0 THEN 0 ELSE h[k - 1] + f[k]
    <3>1. CASE k = n + 1
      BY <3>1, <2>1
    <3>2. CASE k # n + 1
      <4>1. k \in 0..n /\ h[k] = g[k] /\ (k # 0 => h[k - 1] = g[k - 1])
        BY <3>2
      <4>2. g[k] = IF k = 0 THEN 0 ELSE g[k - 1] + f[k]
        BY <4>1, <2>1 DEF Prefix
      <4> QED BY <4>1, <4>2
    <3> QED BY <3>1, <3>2
  <2>4. Prefix(f, n + 1, h)
    BY <2>3 DEF Prefix
  <2> HIDE DEF h
  <2> QED  BY <2>2, <2>4
<1> HIDE DEF S
<1>3. Nat \subseteq S
  BY <1>1, <1>2, InductiveSet
<1> USE DEF S
<1> QED  BY <1>3

LEMMA PrefixesAgree ==
    ASSUME NEW f \in [Nat -> Int], NEW n \in Nat, NEW m \in Nat,
           NEW g \in [0..n -> Int], NEW h \in [0..m -> Int], Prefix(f, n, g), Prefix(f, m, h)
    PROVE  \A k \in Nat : k <= n /\ k <= m => g[k] = h[k]
<1> DEFINE S == {k \in Nat : k <= n /\ k <= m => g[k] = h[k]}
<1>1. 0 \in S
  BY DEF Prefix
<1>2. ASSUME NEW k \in Nat, k \in S PROVE k + 1 \in S
  <2> SUFFICES ASSUME k + 1 <= n, k + 1 <= m PROVE g[k + 1] = h[k + 1]
    OBVIOUS
  <2>1. g[k] = h[k] /\ k + 1 \in 0..n /\ k + 1 \in 0..m /\ k + 1 # 0 /\ (k + 1) - 1 = k
    BY <1>2
  <2>2. g[k + 1] = g[k] + f[k + 1] /\ h[k + 1] = h[k] + f[k + 1]
    BY <2>1 DEF Prefix
  <2> QED  BY <2>1, <2>2
<1> HIDE DEF S
<1>3. Nat \subseteq S
  BY <1>1, <1>2, InductiveSet
<1> USE DEF S
<1> QED  BY <1>3

LEMMA SumToDef ==
    ASSUME NEW f \in [Nat -> Int]
    PROVE  /\ SumTo(f, 0) = 0
           /\ \A n \in Nat : SumTo(f, n) \in Int /\ SumTo(f, n + 1) = SumTo(f, n) + f[n + 1]
<1> DEFINE P(n) == CHOOSE g : g \in [0..n -> Int] /\ Prefix(f, n, g)
           s == [n \in Nat |-> P(n)[n]]
           Rec(t) == t = [k \in Nat |-> IF k = 0 THEN 0 ELSE t[k - 1] + f[k]]
           r == CHOOSE t : Rec(t)
<1>1. \A n \in Nat : P(n) \in [0..n -> Int] /\ Prefix(f, n, P(n))
  BY PrefixExists
<1> HIDE DEF P
<1>2. s \in [Nat -> Int]
  BY <1>1
<1>3. ASSUME NEW k \in Nat PROVE s[k] = IF k = 0 THEN 0 ELSE s[k - 1] + f[k]
  <2>1. CASE k = 0
    BY <1>1, <2>1 DEF Prefix
  <2>2. CASE k # 0
    <3>1. k - 1 \in Nat /\ k - 1 \in 0..k /\ k \in 0..k
      BY <2>2
    <3>2. P(k)[k - 1] = P(k - 1)[k - 1]
      <4>1. /\ P(k) \in [0..k -> Int] /\ Prefix(f, k, P(k))
            /\ P(k - 1) \in [0..(k - 1) -> Int] /\ Prefix(f, k - 1, P(k - 1))
        BY <1>1, <3>1
      <4>2. \A i \in Nat : i <= k /\ i <= k - 1 => P(k)[i] = P(k - 1)[i]
        <5> HIDE DEF Prefix
        <5> QED  BY ONLY <3>1, <4>1, PrefixesAgree, f \in [Nat -> Int], k \in Nat
      <4> QED  BY <3>1, <4>2
    <3>3. P(k)[k] = P(k)[k - 1] + f[k]
      BY <1>1, <2>2, <3>1 DEF Prefix
    <3> QED  BY <2>2, <3>1, <3>2, <3>3
  <2> QED  BY <2>1, <2>2
<1>4. Rec(s)
  BY <1>3
<1> HIDE DEF s
<1>5. Rec(r)
  <2> HIDE DEF Rec
  <2> QED BY <1>4
<1>6. \A n \in Nat : SumTo(f, n) = r[n]
  BY DEF SumTo
<1> HIDE DEF r
<1>7. r[0] = 0 /\ \A n \in Nat : r[n + 1] = r[n] + f[n + 1]
  BY <1>5
<1>8. \A n \in Nat : r[n] \in Int
  <2> DEFINE S == {n \in Nat : r[n] \in Int}
  <2>1. 0 \in S /\ \A n \in Nat : n \in S => n + 1 \in S
    BY <1>7
  <2> HIDE DEF S
  <2>2. Nat \subseteq S
    BY <2>1, InductiveSet
  <2> USE DEF S
  <2> QED  BY <2>2
<1> QED  BY <1>6, <1>7, <1>8

\* Of the first n values, g differs from f by d at S, a place or none.
DifferAt(f, g, n, S, d) ==
    /\ f \in [Nat -> Int] /\ g \in [Nat -> Int] /\ n \in Nat /\ d \in Int
    /\ S \subseteq 1..n /\ \A i, j \in S : i = j
    /\ \A i \in 1..n : g[i] = f[i] + (IF i \in S THEN d ELSE 0)

LEMMA SumDiffers ==
    ASSUME NEW f, NEW g, NEW n, NEW S, NEW d, DifferAt(f, g, n, S, d)
    PROVE  SumTo(g, n) = SumTo(f, n) + (IF S = {} THEN 0 ELSE d)
<1>0. /\ f \in [Nat -> Int] /\ g \in [Nat -> Int] /\ n \in Nat /\ d \in Int
      /\ S \subseteq 1..n /\ \A i, j \in S : i = j
      /\ \A i \in 1..n : g[i] = f[i] + (IF i \in S THEN d ELSE 0)
  BY DEF DifferAt
<1> DEFINE Met(k) == \E i \in S : i <= k
           T == {k \in Nat : k <= n => SumTo(g, k) = SumTo(f, k) + (IF Met(k) THEN d ELSE 0)}
<1>10. \A i \in S : i \in Nat /\ 1 <= i /\ i <= n
  BY <1>0
<1>1. 0 \in T
  <2>1. SumTo(f, 0) = 0 /\ SumTo(g, 0) = 0
    BY <1>0, SumToDef
  <2>2. ~ Met(0)
    BY <1>10
  <2> QED  BY <2>1, <2>2
<1>2. ASSUME NEW k \in Nat, k \in T PROVE k + 1 \in T
  <2> SUFFICES ASSUME k + 1 <= n
               PROVE  SumTo(g, k + 1) = SumTo(f, k + 1) + (IF Met(k + 1) THEN d ELSE 0)
    BY <1>0
  <2>1. /\ SumTo(g, k) = SumTo(f, k) + (IF Met(k) THEN d ELSE 0)
        /\ k + 1 \in 1..n
    BY <1>0, <1>2
  <2>2. /\ SumTo(g, k + 1) = SumTo(g, k) + g[k + 1] /\ SumTo(g, k) \in Int
        /\ SumTo(f, k + 1) = SumTo(f, k) + f[k + 1] /\ SumTo(f, k) \in Int
        /\ f[k + 1] \in Int
    BY <1>0, SumToDef
  <2>3. CASE k + 1 \in S
    <3>1. ~ Met(k)
      BY <1>0, <1>10, <2>3
    <3>2. Met(k + 1)
      BY <2>3
    <3> HIDE DEF Met
    <3> QED  BY <1>0, <2>1, <2>2, <2>3, <3>1, <3>2
  <2>4. CASE k + 1 \notin S
    <3>1. Met(k + 1) <=> Met(k)
      BY <1>0, <1>10, <2>4
    <3> HIDE DEF Met
    <3> QED  BY <1>0, <2>1, <2>2, <2>4, <3>1
  <2> QED  BY <2>3, <2>4
<1> HIDE DEF T
<1>3. Nat \subseteq T
  BY <1>1, <1>2, InductiveSet
<1>4. Met(n) <=> S # {}
  BY <1>0, <1>10
<1>5. SumTo(g, n) = SumTo(f, n) + (IF Met(n) THEN d ELSE 0)
  <2> HIDE DEF Met
  <2> USE DEF T
  <2> QED  BY <1>0, <1>3
<1> HIDE DEF Met
<1> QED  BY <1>4, <1>5

LEMMA SumCongruent ==
    ASSUME NEW f \in [Nat -> Int], NEW g \in [Nat -> Int], NEW n \in Nat,
           \A i \in 1..n : g[i] = f[i]
    PROVE  SumTo(g, n) = SumTo(f, n)
<1>1. DifferAt(f, g, n, {}, 0)
  BY DEF DifferAt
<1>2. SumTo(g, n) = SumTo(f, n) + 0 /\ SumTo(f, n) \in Int
  BY <1>1, SumDiffers, SumToDef
<1> QED  BY <1>2

\* The k-th summand is taken out and the later ones move up.
LEMMA SumWithout ==
    ASSUME NEW f \in [Nat -> Int], NEW g \in [Nat -> Int], NEW n \in Nat, NEW k \in 1..n,
           \A i \in 1..(k - 1) : g[i] = f[i], \A i \in k..(n - 1) : g[i] = f[i + 1]
    PROVE  SumTo(g, n - 1) = SumTo(f, n) - f[k]
<1> DEFINE T == {m \in Nat : k + m <= n => SumTo(g, k + m - 1) = SumTo(f, k + m) - f[k]}
<1>1. 0 \in T
  <2>1. k - 1 \in Nat /\ (k - 1) + 1 = k
    OBVIOUS
  <2>2. SumTo(g, k - 1) = SumTo(f, k - 1)
    BY <2>1, SumCongruent
  <2>3. SumTo(f, k) = SumTo(f, k - 1) + f[k] /\ SumTo(f, k - 1) \in Int /\ f[k] \in Int
    BY <2>1, SumToDef
  <2> QED  BY <2>2, <2>3
<1>2. ASSUME NEW m \in Nat, m \in T PROVE m + 1 \in T
  <2> SUFFICES ASSUME k + (m + 1) <= n
               PROVE  SumTo(g, k + (m + 1) - 1) = SumTo(f, k + (m + 1)) - f[k]
    OBVIOUS
  <2> DEFINE a == k + m - 1
  <2>1. a \in Nat /\ a + 1 \in Nat /\ a + 1 \in k..(n - 1)
    OBVIOUS
  <2>2. k + (m + 1) - 1 = a + 1 /\ k + (m + 1) = (a + 1) + 1 /\ k + m = a + 1
    OBVIOUS
  <2>3. SumTo(g, a) = SumTo(f, a + 1) - f[k]
    BY <1>2, <2>2
  <2>4. g[a + 1] = f[(a + 1) + 1]
    BY <2>1
  <2> HIDE DEF a
  <2>5. SumTo(g, a + 1) = SumTo(g, a) + g[a + 1] /\ SumTo(g, a) \in Int
    BY <2>1, SumToDef
  <2>6. SumTo(f, (a + 1) + 1) = SumTo(f, a + 1) + f[(a + 1) + 1] /\ SumTo(f, a + 1) \in Int
    BY <2>1, SumToDef
  <2>7. f[k] \in Int /\ f[(a + 1) + 1] \in Int
    BY <2>1
  <2>8. SumTo(g, a + 1) = SumTo(f, (a + 1) + 1) - f[k]
    BY <2>3, <2>4, <2>5, <2>6, <2>7
  <2> QED  BY <2>2, <2>8
<1> HIDE DEF T
<1>3. Nat \subseteq T
  BY <1>1, <1>2, InductiveSet
<1>4. n - k \in T /\ k + (n - k) = n
  BY <1>3
<1> QED  BY <1>4 DEF T

-----------------------------------------------------------------------------
(* The invariant. *)

\* Two transactions that do not hold the same lock.
Apart(s, t) ==
    /\ ~ (s.move.ref = "order" /\ t.move.ref = "order")
    /\ s.move.of # 0 => s.move.of # t.move.of

\* The move a transaction undoes is posted, and what it says is the opposite.
Undoes(t) ==
    LET k == t.move.of IN
    /\ k \in DOMAIN ledger /\ ledger[k].status = "posted"
    /\ Told(ledger[k]) => \A p \in Named : Says(t.move, p) = - Says(ledger[k], p)

\* A row that tells what happened says what the transaction does to the stock.
Tells(t) ==
    Told(t.move) => \A p \in Named :
        Says(t.move, p) = (IF t.credit = p THEN t.move.qty ELSE 0)
                              - (IF t.debit = p THEN t.move.qty ELSE 0)

\* The move that undoes an issue goes back where the issue took from.
Shaped(m) == m.of # 0 /\ m.type = "issue" => m.to = Blank

Fit(t) ==
    /\ t.move.status = "posted"
    /\ t.move.ref = "order" => /\ t.move.of = 0
                               /\ ~ order.edited => t.move.qty <= order.ordered - order.received
    /\ t.move.of # 0 => Undoes(t)
    /\ Tells(t)
    /\ Shaped(t.move)

TxFit == \A x \in Clerks : tx[x] # NoTx => Fit(tx[x]) /\ tx[x].credit # "none"

Exclusive ==
    \A x, y \in Clerks : x # y /\ tx[x] # NoTx /\ tx[y] # NoTx => Apart(tx[x], tx[y])

LedgerFits == \A j \in DOMAIN ledger : ledger[j].of <= Len(ledger) /\ Shaped(ledger[j])

InventoryInv ==
    /\ InventoryTypeOK /\ TxFit /\ Exclusive /\ LedgerFits
    /\ ReversedOnce /\ ReceiptsMatchOrder /\ LedgerSumsToBalance

-----------------------------------------------------------------------------
(* Rows of the ledger, and what they sum to. *)

\* The rows agree in all but their status.
Alike(m, n) ==
    /\ n.type = m.type /\ n.from = m.from /\ n.to = m.to
    /\ n.qty = m.qty /\ n.ref = m.ref /\ n.of = m.of

LedgerSumOf(s, p) ==
    SumTo([i \in Nat |-> IF i \in DOMAIN s THEN Says(s[i], p) ELSE 0], Len(s))
ReceiptsOf(s) ==
    SumTo([i \in Nat |-> IF i \in DOMAIN s /\ s[i].ref = "order" THEN s[i].qty ELSE 0], Len(s))
OnHandOf(s, p) ==
    SumTo([i \in Nat |-> IF i \in DOMAIN s /\ s[i].place = p THEN s[i].qty ELSE 0], Len(s))

LEMMA AlikeSay ==
    ASSUME NEW m, NEW n, Alike(m, n)
    PROVE  /\ Told(n) <=> Told(m)
           /\ \A p : Says(n, p) = Says(m, p)
           /\ Shaped(n) <=> Shaped(m)
BY DEF Alike, Told, Says, Shaped

LEMMA SaysType == ASSUME NEW m \in Moves, NEW p PROVE Says(m, p) \in Int
BY DEF Says, Moves

\* One row more, the others with, perhaps, another status.
LEMMA LedgerGrows ==
    ASSUME NEW s \in Seq(Moves), NEW r \in Seq(Moves), Len(r) = Len(s) + 1,
           \A i \in DOMAIN s : Alike(s[i], r[i])
    PROVE  /\ \A p : LedgerSumOf(s, p) \in Int
           /\ \A p : LedgerSumOf(r, p) = LedgerSumOf(s, p) + Says(r[Len(r)], p)
           /\ ReceiptsOf(s) \in Int
           /\ ReceiptsOf(r) = ReceiptsOf(s) + (IF r[Len(r)].ref = "order" THEN r[Len(r)].qty ELSE 0)
<1> DEFINE n == Len(s)
<1>1. /\ n \in Nat /\ DOMAIN s = 1..n /\ DOMAIN r = 1..(n + 1) /\ Len(r) = n + 1
      /\ \A i \in 1..n : s[i] \in Moves /\ i \in DOMAIN r
      /\ \A i \in 1..(n + 1) : r[i] \in Moves
      /\ n + 1 \in 1..(n + 1)
  OBVIOUS
<1> HIDE DEF n
<1>2. ASSUME NEW p
      PROVE  /\ LedgerSumOf(s, p) \in Int
             /\ LedgerSumOf(r, p) = LedgerSumOf(s, p) + Says(r[Len(r)], p)
  <2> DEFINE f == [i \in Nat |-> IF i \in DOMAIN s THEN Says(s[i], p) ELSE 0]
             g == [i \in Nat |-> IF i \in DOMAIN r THEN Says(r[i], p) ELSE 0]
  <2>1. f \in [Nat -> Int] /\ g \in [Nat -> Int]
    BY <1>1, SaysType
  <2>2. ASSUME NEW i \in 1..n PROVE g[i] = f[i]
    <3>1. i \in Nat /\ i \in DOMAIN s /\ i \in DOMAIN r /\ Alike(s[i], r[i])
      BY <1>1
    <3>2. Says(r[i], p) = Says(s[i], p)
      BY <3>1, AlikeSay
    <3> QED  BY <3>1, <3>2
  <2>3. g[n + 1] = Says(r[n + 1], p)
    BY <1>1
  <2>4. LedgerSumOf(s, p) = SumTo(f, n) /\ LedgerSumOf(r, p) = SumTo(g, n + 1)
    BY <1>1 DEF LedgerSumOf, n
  <2> HIDE DEF f, g
  <2>5. SumTo(g, n) = SumTo(f, n)
    BY <1>1, <2>1, <2>2, SumCongruent
  <2>6. SumTo(g, n + 1) = SumTo(g, n) + g[n + 1] /\ SumTo(f, n) \in Int
    BY <1>1, <2>1, SumToDef
  <2> QED  BY <1>1, <2>3, <2>4, <2>5, <2>6
<1>3. /\ ReceiptsOf(s) \in Int
      /\ ReceiptsOf(r) = ReceiptsOf(s) + (IF r[Len(r)].ref = "order" THEN r[Len(r)].qty ELSE 0)
  <2> DEFINE f == [i \in Nat |-> IF i \in DOMAIN s /\ s[i].ref = "order" THEN s[i].qty ELSE 0]
             g == [i \in Nat |-> IF i \in DOMAIN r /\ r[i].ref = "order" THEN r[i].qty ELSE 0]
  <2>1. f \in [Nat -> Int] /\ g \in [Nat -> Int]
    BY <1>1 DEF Moves
  <2>2. \A i \in 1..n : g[i] = f[i]
    BY <1>1 DEF Alike
  <2>3. g[n + 1] = IF r[n + 1].ref = "order" THEN r[n + 1].qty ELSE 0
    BY <1>1
  <2>4. ReceiptsOf(s) = SumTo(f, n) /\ ReceiptsOf(r) = SumTo(g, n + 1)
    BY <1>1 DEF ReceiptsOf, n
  <2> HIDE DEF f, g
  <2>5. SumTo(g, n) = SumTo(f, n)
    BY <1>1, <2>1, <2>2, SumCongruent
  <2>6. SumTo(g, n + 1) = SumTo(g, n) + g[n + 1] /\ SumTo(f, n) \in Int
    BY <1>1, <2>1, SumToDef
  <2> QED  BY <1>1, <2>3, <2>4, <2>5, <2>6
<1> QED  BY <1>2, <1>3

\* A transaction marks the move it undoes and appends its own.
LEMMA LedgerAfter ==
    ASSUME InventoryTypeOK, NEW m \in Moves, m.of # 0 => m.of \in DOMAIN ledger
    PROVE  LET r == Append(Marked(m), m) IN
           /\ r \in Seq(Moves) /\ Len(r) = Len(ledger) + 1 /\ r[Len(r)] = m
           /\ DOMAIN r = 1..(Len(ledger) + 1) /\ DOMAIN ledger = 1..Len(ledger)
           /\ \A i \in DOMAIN ledger :
                /\ Alike(ledger[i], r[i])
                /\ r[i].status = IF i = m.of THEN "reversed" ELSE ledger[i].status
<1> DEFINE l == Marked(m)
           r == Append(l, m)
<1>1. ledger \in Seq(Moves) /\ Len(ledger) \in Nat /\ DOMAIN ledger = 1..Len(ledger)
  BY DEF InventoryTypeOK
<1>2. /\ l \in Seq(Moves) /\ Len(l) = Len(ledger)
      /\ \A i \in DOMAIN ledger : /\ Alike(ledger[i], l[i])
                                  /\ l[i].status = IF i = m.of THEN "reversed" ELSE ledger[i].status
  <2>0. \A i \in DOMAIN ledger : ledger[i] \in Moves
    BY <1>1
  <2>1. CASE m.of = 0
    BY <1>1, <2>0, <2>1 DEF Marked, Alike
  <2>2. CASE m.of # 0
    <3>1. l = [ledger EXCEPT ![m.of].status = "reversed"]
      BY <2>2 DEF Marked
    <3>2. m.of \in DOMAIN ledger
      BY <2>2
    <3> HIDE DEF l
    <3>3. ASSUME NEW i \in DOMAIN ledger
          PROVE  /\ l[i] \in Moves /\ Alike(ledger[i], l[i])
                 /\ l[i].status = IF i = m.of THEN "reversed" ELSE ledger[i].status
      BY <2>0, <3>1, <3>2 DEF Moves, Alike
    <3>4. DOMAIN l = 1..Len(ledger)
      BY <1>1, <3>1
    <3>5. l \in [1..Len(ledger) -> Moves]
      BY <1>1, <3>1, <3>3, <3>4
    <3>6. l \in Seq(Moves) /\ Len(l) = Len(ledger)
      BY <1>1, <3>5
    <3> QED  BY <3>3, <3>6
  <2> QED  BY <2>1, <2>2
<1> HIDE DEF l
<1>3. r \in Seq(Moves) /\ Len(r) = Len(ledger) + 1 /\ r[Len(r)] = m
  BY <1>1, <1>2
<1>4. \A i \in DOMAIN ledger : r[i] = l[i]
  BY <1>1, <1>2
<1> QED  BY <1>1, <1>2, <1>3, <1>4 DEF l

-----------------------------------------------------------------------------
(* The rows of the stock. *)

LEMMA AtMostOne ==
    ASSUME NEW S, IsFiniteSet(S), Cardinality(S) <= 1
    PROVE  \A i, j \in S : i = j
<1> SUFFICES ASSUME NEW i \in S, NEW j \in S, i # j PROVE FALSE
  OBVIOUS
<1>1. Cardinality({i}) = 1 /\ IsFiniteSet({i})
  BY FS_Singleton
<1>2. Cardinality({i} \union {j}) = 2
  BY <1>1, FS_AddElement
<1>3. Cardinality({i} \union {j}) <= Cardinality(S)
  BY FS_Subset
<1>4. Cardinality(S) \in Nat
  BY FS_CardinalityType
<1> QED  BY <1>2, <1>3, <1>4

LEMMA MinOf ==
    ASSUME NEW a \in Int, NEW b \in Int
    PROVE  Min({a, b}) = IF a <= b THEN a ELSE b
BY DEF Min

LEMMA MaxOf ==
    ASSUME NEW a \in Int, NEW b \in Int
    PROVE  Max({a, b}) = IF a <= b THEN b ELSE a
BY DEF Max

LEMMA OnHandIs ==
    /\ \A p : OnHand(p) = OnHandOf(stock, p)
    /\ \A p : LedgerSum(p) = LedgerSumOf(ledger, p)
    /\ Receipts = ReceiptsOf(ledger)
BY DEF OnHand, OnHandOf, At, LedgerSum, LedgerSumOf, Receipts, ReceiptsOf

LEMMA OnHandIsNext ==
    /\ \A p : OnHand(p)' = OnHandOf(stock', p)
    /\ \A p : LedgerSum(p)' = LedgerSumOf(ledger', p)
    /\ Receipts' = ReceiptsOf(ledger')
BY DEF OnHand, OnHandOf, At, LedgerSum, LedgerSumOf, Receipts, ReceiptsOf

\* A transaction credits the rows it found, or a new one, or none.
Credits(t, found, new) ==
    \/ /\ found = OfLot(t.credit, t.move.lot) /\ new = <<>>
       /\ t.credit = "none" \/ found # {}
    \/ found = {} /\ t.credit # "none" /\ new = <<Created(t)>>

LEMMA ChangedRow ==
    ASSUME InventoryTypeOK, NEW t \in Transactions, NEW found, NEW i \in DOMAIN stock
    PROVE  LET less == IF i \in Sufficient(t.debit, t.move.lot, t.move.qty) THEN t.move.qty ELSE 0
               more == IF i \in found THEN t.move.qty ELSE 0
               r == Changed(t, i, found)
           IN r \in Rows /\ r.place = stock[i].place /\ r.qty = stock[i].qty - less + more
<1>1. stock[i] \in Rows /\ t.move.qty \in Nat
  BY DEF InventoryTypeOK, Transactions, Moves
<1>2. stock[i].qty \in Nat
  BY <1>1 DEF Rows
<1>3. i \in Sufficient(t.debit, t.move.lot, t.move.qty) =>
          t.move.qty <= stock[i].qty /\ Min({t.move.qty, stock[i].qty}) = t.move.qty
  BY <1>1, <1>2, MinOf DEF Sufficient
<1> QED  BY <1>1, <1>2, <1>3 DEF Changed, Rows

LEMMA StockTyped ==
    ASSUME InventoryAssumption, InventoryTypeOK, NEW t \in Transactions,
           NEW found, NEW new, Credits(t, found, new)
    PROVE  LET c == [i \in DOMAIN stock |-> Changed(t, i, found)] IN
           /\ c \in Seq(Rows) /\ Len(c) = Len(stock) /\ new \in Seq(Rows) /\ c \o new \in Seq(Rows)
           /\ Len(stock) \in Nat /\ DOMAIN stock = 1..Len(stock)
<1> DEFINE c == [i \in DOMAIN stock |-> Changed(t, i, found)]
<1>1. stock \in Seq(Rows) /\ Len(stock) \in Nat /\ DOMAIN stock = 1..Len(stock)
  BY DEF InventoryTypeOK
<1>2. c \in [1..Len(stock) -> Rows]
  BY <1>1, ChangedRow
<1> HIDE DEF c
<1>3. c \in Seq(Rows) /\ Len(c) = Len(stock)
  BY <1>1, <1>2
<1>4. new \in Seq(Rows)
  <2>1. CASE new = <<>>
    BY <2>1
  <2>2. CASE new = <<Created(t)>> /\ t.credit # "none"
    <3>1. Created(t) \in Rows
      BY <2>2 DEF Created, Rows, Transactions, Moves, Named
    <3> QED  BY <2>2, <3>1
  <2> QED  BY <2>1, <2>2 DEF Credits
<1>5. c \o new \in Seq(Rows)
  BY <1>3, <1>4
<1> QED  BY <1>1, <1>3, <1>4, <1>5 DEF c

LEMMA OnHandAfter ==
    ASSUME InventoryAssumption, InventoryTypeOK, NEW t \in Transactions, NEW found, NEW new,
           Credits(t, found, new), Covered(t), NEW p \in Named, p \notin Several(t)
    PROVE  LET r == [i \in DOMAIN stock |-> Changed(t, i, found)] \o new IN
           OnHandOf(r, p) = OnHandOf(stock, p) + (IF t.credit = p THEN t.move.qty ELSE 0)
                                - (IF t.debit = p THEN t.move.qty ELSE 0)
<1> DEFINE c == [i \in DOMAIN stock |-> Changed(t, i, found)]
           r == c \o new
           n == Len(stock)
           q == t.move.qty
           D == Sufficient(t.debit, t.move.lot, q)
           S1 == IF t.debit = p THEN D ELSE {}
           S2 == IF t.credit = p THEN found ELSE {}
           f == [i \in Nat |-> IF i \in DOMAIN stock /\ stock[i].place = p THEN stock[i].qty ELSE 0]
           f1 == [i \in Nat |-> f[i] + (IF i \in S1 THEN -q ELSE 0)]
           f2 == [i \in Nat |-> f1[i] + (IF i \in S2 THEN q ELSE 0)]
           g == [i \in Nat |-> IF i \in DOMAIN r /\ r[i].place = p THEN r[i].qty ELSE 0]
<1>1. /\ n \in Nat /\ DOMAIN stock = 1..n /\ q \in Nat /\ p # "none"
      /\ \A i \in 1..n : stock[i] \in Rows
      /\ c \in Seq(Rows) /\ Len(c) = n /\ new \in Seq(Rows) /\ r \in Seq(Rows)
  <2>1. /\ c \in Seq(Rows) /\ Len(c) = Len(stock) /\ new \in Seq(Rows) /\ r \in Seq(Rows)
        /\ Len(stock) \in Nat /\ DOMAIN stock = 1..Len(stock)
    BY StockTyped
  <2>2. stock \in Seq(Rows) /\ q \in Nat
    BY DEF InventoryTypeOK, Transactions, Moves
  <2>3. p # "none"
    BY DEF InventoryAssumption, Named
  <2> QED  BY <2>1, <2>2, <2>3
<1>2. \A i \in 1..n : c[i].place = stock[i].place /\
          c[i].qty = stock[i].qty - (IF i \in D THEN q ELSE 0) + (IF i \in found THEN q ELSE 0)
  BY <1>1, ChangedRow
<1>3. /\ D \subseteq 1..n /\ \A i \in D : stock[i].place = t.debit
      /\ found \subseteq 1..n /\ \A i \in found : stock[i].place = t.credit
      /\ D \subseteq OfLot(t.debit, t.move.lot)
      /\ found \subseteq OfLot(t.credit, t.move.lot)
  BY <1>1 DEF Sufficient, OfLot, At, Credits
<1>4. \A z : IsFiniteSet(OfLot(z, t.move.lot))
  <2>1. \A z : OfLot(z, t.move.lot) \in SUBSET (1..n)
    BY <1>1 DEF OfLot, At
  <2>2. IsFiniteSet(1..n)
    <3>1. 1 \in Int /\ n \in Int
      BY <1>1
    <3> HIDE DEF n
    <3> QED  BY <3>1, FS_Interval
  <2> QED  BY <2>1, <2>2, FS_Subset
<1>5. p \in {t.credit, t.debit} => \A i, j \in OfLot(p, t.move.lot) : i = j
  <2>1. Cardinality(OfLot(p, t.move.lot)) \in Nat
    BY <1>4, FS_CardinalityType
  <2>2. p \in {t.credit, t.debit} => Cardinality(OfLot(p, t.move.lot)) <= 1
    BY <1>1, <2>1 DEF Several
  <2> QED  BY <1>4, <2>2, AtMostOne
<1>6. /\ S1 \in SUBSET (1..n) /\ \A i, j \in S1 : i = j
      /\ S2 \in SUBSET (1..n) /\ \A i, j \in S2 : i = j
      /\ S1 = {} <=> t.debit # p
  <2>1. t.debit = p => D # {}
    BY <1>1 DEF Covered
  <2>2. t.debit = p => D \subseteq OfLot(p, t.move.lot)
    BY <1>3
  <2>3. t.credit = p => found \subseteq OfLot(p, t.move.lot)
    BY <1>3
  <2> HIDE DEF D, n
  <2>4. S1 \in SUBSET (1..n) /\ S2 \in SUBSET (1..n)
    BY <1>3
  <2>5. \A i, j \in S1 : i = j
    BY <1>5, <2>2
  <2>6. \A i, j \in S2 : i = j
    BY <1>5, <2>3
  <2>7. S1 = {} <=> t.debit # p
    BY <2>1
  <2> QED  BY <2>4, <2>5, <2>6, <2>7
<1>7. f \in [Nat -> Int] /\ f1 \in [Nat -> Int] /\ f2 \in [Nat -> Int]
  <2>1. f \in [Nat -> Int]
    BY <1>1 DEF Rows
  <2>2. \A i \in Nat : f[i] \in Int
    BY <2>1
  <2>3. q \in Int /\ -q \in Int
    BY <1>1
  <2> HIDE DEF f, S1, S2, q
  <2>4. \A i \in Nat : f[i] + (IF i \in S1 THEN -q ELSE 0) \in Int
    BY <2>2, <2>3
  <2>5. f1 \in [Nat -> Int] /\ \A i \in Nat : f1[i] \in Int
    BY <2>4
  <2> HIDE DEF f1
  <2>6. \A i \in Nat : f1[i] + (IF i \in S2 THEN q ELSE 0) \in Int
    BY <2>3, <2>5
  <2>7. f2 \in [Nat -> Int]
    BY <2>6
  <2> QED  BY <2>1, <2>5, <2>7
<1>8. g \in [Nat -> Int]
  <2>1. \A i \in DOMAIN r : r[i] \in Rows
    BY <1>1
  <2> HIDE DEF r
  <2> QED  BY <2>1 DEF Rows
<1>9. \A i \in 1..n : g[i] = f2[i]
  <2> SUFFICES ASSUME NEW i \in 1..n PROVE g[i] = f2[i]
    OBVIOUS
  <2>1. i \in DOMAIN r /\ r[i] = c[i]
    <3> HIDE DEF c
    <3> QED  BY <1>1
  <2> HIDE DEF r, c, D
  <2>2. stock[i].qty \in Nat
    BY <1>1 DEF Rows
  <2>3. i \in S1 <=> i \in D /\ stock[i].place = p
    BY <1>3
  <2>4. i \in S2 <=> i \in found /\ stock[i].place = p
    BY <1>3
  <2>5. f2[i] = f[i] + (IF i \in S1 THEN -q ELSE 0) + (IF i \in S2 THEN q ELSE 0)
    BY <1>1
  <2> HIDE DEF S1, S2, f2, f1
  <2>6. /\ f[i] = IF stock[i].place = p THEN stock[i].qty ELSE 0
        /\ g[i] = IF c[i].place = p THEN c[i].qty ELSE 0
    BY <1>1, <2>1
  <2>7. /\ c[i].place = stock[i].place
        /\ c[i].qty = stock[i].qty - (IF i \in D THEN q ELSE 0) + (IF i \in found THEN q ELSE 0)
    BY <1>2
  <2>8. q \in Nat
    BY <1>1
  <2> HIDE DEF f, g, q, n
  <2>9. CASE stock[i].place = p
    BY <2>2, <2>3, <2>4, <2>5, <2>6, <2>7, <2>8, <2>9
  <2>10. CASE stock[i].place # p
    BY <2>3, <2>4, <2>5, <2>6, <2>7, <2>8, <2>10
  <2> QED  BY <2>9, <2>10
<1> DEFINE more == IF S2 = {} THEN 0 ELSE q
           less == IF S1 = {} THEN 0 ELSE -q
<1>10. SumTo(f1, n) = SumTo(f, n) + less
  <2> HIDE DEF f, S1, n
  <2>1. \A i \in 1..n : f1[i] = f[i] + (IF i \in S1 THEN -q ELSE 0)
    BY <1>1
  <2>2. -q \in Int
    BY <1>1
  <2> HIDE DEF f1, q
  <2>3. DifferAt(f, f1, n, S1, -q)
    BY <1>1, <1>6, <1>7, <2>1, <2>2 DEF DifferAt
  <2> QED  BY <2>3, SumDiffers
<1>11. SumTo(f2, n) = SumTo(f1, n) + more
  <2> HIDE DEF f1, S2, n
  <2>1. \A i \in 1..n : f2[i] = f1[i] + (IF i \in S2 THEN q ELSE 0)
    BY <1>1
  <2>2. q \in Int
    BY <1>1
  <2> HIDE DEF f2, q
  <2>3. DifferAt(f1, f2, n, S2, q)
    BY <1>1, <1>6, <1>7, <2>1, <2>2 DEF DifferAt
  <2> QED  BY <2>3, SumDiffers
<1>12. SumTo(g, n) = SumTo(f2, n) /\ SumTo(f, n) \in Int
  <2>1. n \in Nat
    BY <1>1
  <2> HIDE DEF f, f2, g, n
  <2>2. SumTo(g, n) = SumTo(f2, n)
    BY ONLY <2>1, <1>7, <1>8, <1>9, SumCongruent
  <2> QED  BY <2>1, <2>2, <1>7, SumToDef
<1>13. SumTo(g, Len(r)) = SumTo(g, n) + (IF t.credit = p /\ found = {} THEN q ELSE 0)
  <2>1. CASE new = <<>> /\ (t.credit = "none" \/ found # {})
    <3>1. Len(r) = n
      <4> HIDE DEF c
      <4> QED  BY <1>1, <2>1
    <3>2. SumTo(g, n) \in Int
      <4> HIDE DEF g
      <4> QED  BY <1>1, <1>8, SumToDef
    <3> HIDE DEF g, r
    <3> QED  BY <1>1, <2>1, <3>1, <3>2
  <2>2. CASE found = {} /\ t.credit # "none" /\ new = <<Created(t)>>
    <3>1. Len(r) = n + 1 /\ r[n + 1] = Created(t) /\ n + 1 \in DOMAIN r
      <4> HIDE DEF c
      <4> QED  BY <1>1, <2>2
    <3>2. g[n + 1] = IF t.credit = p THEN q ELSE 0
      <4> HIDE DEF r
      <4> QED  BY <1>1, <3>1 DEF Created
    <3>3. SumTo(g, n + 1) = SumTo(g, n) + g[n + 1]
      <4> HIDE DEF g
      <4> QED  BY <1>1, <1>8, SumToDef
    <3> HIDE DEF g, r
    <3> QED  BY <2>2, <3>1, <3>2, <3>3
  <2> QED  BY <2>1, <2>2 DEF Credits
<1>14. OnHandOf(stock, p) = SumTo(f, n) /\ OnHandOf(r, p) = SumTo(g, Len(r))
  <2> HIDE DEF r
  <2> QED  BY DEF OnHandOf
<1>15. less = (IF t.debit = p THEN -q ELSE 0)
  <2> HIDE DEF S1
  <2> QED  BY <1>6
<1>16. more + (IF t.credit = p /\ found = {} THEN q ELSE 0) = IF t.credit = p THEN q ELSE 0
  BY <1>1
<1> HIDE DEF more, less, f, f1, f2, g, r, n, c, S1, S2, q, D
<1>17. more \in Int
  BY <1>1 DEF more
<1>18. OnHandOf(r, p) = OnHandOf(stock, p) + (IF t.credit = p THEN q ELSE 0)
                                - (IF t.debit = p THEN q ELSE 0)
  <2>1. less \in Int /\ q \in Nat
    BY <1>1, <1>15
  <2>2. SumTo(g, Len(r)) = SumTo(f, n) + less + more + (IF t.credit = p /\ found = {} THEN q ELSE 0)
    BY <2>1, <1>10, <1>11, <1>12, <1>13, <1>17
  <2>3. SumTo(g, Len(r)) = SumTo(f, n) + less + (IF t.credit = p THEN q ELSE 0)
    BY <2>1, <2>2, <1>12, <1>16, <1>17
  <2>4. less = - (IF t.debit = p THEN q ELSE 0)
    BY <2>1, <1>15
  <2> QED  BY <2>1, <2>3, <2>4, <1>12, <1>14
<1> QED  BY <1>18 DEF r, c, q

-----------------------------------------------------------------------------
(* A transaction that commits keeps the invariant. *)

\* What a transaction writes besides the stock.
Logs(t) ==
    /\ ledger' = Append(Marked(t.move), t.move)
    /\ order' = IF t.move.ref = "order" THEN Receive(t.move.qty) ELSE order

LEMMA CommitLedger ==
    ASSUME InventoryTypeOK, NEW t \in Transactions, Fit(t), Logs(t)
    PROVE  /\ ledger' \in Seq(Moves) /\ Len(ledger') = Len(ledger) + 1 /\ Len(ledger) \in Nat
           /\ ledger'[Len(ledger')] = t.move
           /\ DOMAIN ledger' = 1..(Len(ledger) + 1) /\ DOMAIN ledger = 1..Len(ledger)
           /\ \A i \in DOMAIN ledger :
                /\ Alike(ledger[i], ledger'[i])
                /\ ledger'[i].status = IF i = t.move.of THEN "reversed" ELSE ledger[i].status
<1>1. ledger' = Append(Marked(t.move), t.move)
  BY DEF Logs
<1>2. t.move \in Moves /\ (t.move.of # 0 => t.move.of \in DOMAIN ledger)
  BY DEF Transactions, Fit, Undoes
<1>3. Len(ledger) \in Nat
  BY DEF InventoryTypeOK
<1> QED  BY <1>1, <1>2, <1>3, LedgerAfter

LEMMA CommitTyped ==
    ASSUME InventoryTypeOK, NEW t \in Transactions, Fit(t), Logs(t), stock' \in Seq(Rows),
           astray' \in SUBSET Named, tx' \in [Clerks -> Transactions \union {NoTx}]
    PROVE  InventoryTypeOK'
<1>1. ledger' \in Seq(Moves)
  BY CommitLedger
<1>2. order' \in Orders
  <2>1. t.move.qty \in Nat
    BY DEF Transactions, Moves
  <2>2. order \in Orders /\ order.received + t.move.qty \in Nat
    BY <2>1 DEF InventoryTypeOK, Orders
  <2>3. Receive(t.move.qty) \in Orders
    BY <2>2 DEF Orders, Receive
  <2> QED  BY <2>2, <2>3 DEF Logs
<1> QED  BY <1>1, <1>2 DEF InventoryTypeOK

LEMMA CommitReversals ==
    ASSUME InventoryTypeOK, LedgerFits, ReversedOnce,
           NEW t \in Transactions, Fit(t), Logs(t)
    PROVE  LedgerFits' /\ ReversedOnce'
<1> DEFINE n == Len(ledger)
           Undone(l, i) == {j \in DOMAIN l : l[j].of = i}
<1>1. /\ n \in Nat /\ DOMAIN ledger' = 1..(n + 1) /\ DOMAIN ledger = 1..n
      /\ Len(ledger') = n + 1 /\ ledger'[n + 1] = t.move
      /\ \A i \in 1..n :
           /\ Alike(ledger[i], ledger'[i])
           /\ ledger'[i].status = IF i = t.move.of THEN "reversed" ELSE ledger[i].status
  BY CommitLedger
<1>2. /\ \A j \in 1..n : /\ ledger[j] \in Moves /\ ledger[j].of \in 0..n
                          /\ ledger'[j].of = ledger[j].of
      /\ t.move.of \in 0..n /\ t.move.status = "posted" /\ Shaped(t.move)
  <2>1. \A j \in 1..n : ledger[j] \in Moves
    BY <1>1 DEF InventoryTypeOK
  <2>2. \A j \in 1..n : ledger[j].of \in Nat /\ ledger[j].of <= n
    BY <1>1, <2>1 DEF LedgerFits, Moves
  <2>3. \A j \in 1..n : ledger'[j].of = ledger[j].of
    BY <1>1 DEF Alike
  <2>4. t.move.of # 0 => t.move.of \in 1..n
    BY <1>1 DEF Fit, Undoes
  <2>5. t.move.status = "posted" /\ Shaped(t.move)
    BY DEF Fit
  <2> HIDE DEF n
  <2> QED  BY <1>1, <2>1, <2>2, <2>3, <2>4, <2>5
<1>3. LedgerFits'
  <2> SUFFICES ASSUME NEW j \in 1..(n + 1)
               PROVE  ledger'[j].of <= Len(ledger') /\ Shaped(ledger'[j])
    BY <1>1 DEF LedgerFits, Shaped
  <2> HIDE DEF n
  <2>1. CASE j = n + 1
    BY <1>1, <1>2, <2>1
  <2>2. CASE j # n + 1
    BY <1>1, <1>2, <2>2, AlikeSay DEF LedgerFits
  <2> QED  BY <2>1, <2>2
<1>4. ReversedOnce'
  <2> SUFFICES ASSUME NEW i \in 1..(n + 1)
               PROVE  IF ledger'[i].status = "posted" THEN Undone(ledger', i) = {}
                      ELSE /\ Cardinality(Undone(ledger', i)) = 1
                           /\ Told(ledger'[i]) => \A j \in Undone(ledger', i), p \in Named :
                                         Says(ledger'[j], p) = - Says(ledger'[i], p)
    BY <1>1 DEF ReversedOnce, Told, Says
  <2> HIDE DEF n
  <2>0. \A j \in 1..(n + 1) : j # n + 1 => j \in 1..n
    BY <1>1
  <2>1. CASE i = n + 1
    BY <1>1, <1>2, <2>0, <2>1
  <2>2. CASE i # n + 1 /\ i = t.move.of
    <3>1. i \in 1..n /\ i # 0
      BY <2>0, <2>2, <1>1
    <3>2. Undoes(t)
      BY <2>2, <3>1 DEF Fit
    <3>3. ledger[i].status = "posted" /\ ledger'[i].status = "reversed"
      BY <1>1, <2>2, <3>1, <3>2 DEF Undoes
    <3>4. \A j \in 1..n : ledger[j].of # i
      BY <1>1, <3>1, <3>3 DEF ReversedOnce
    <3>5. Undone(ledger', i) = {n + 1}
      BY <1>1, <1>2, <2>0, <2>2, <3>4
    <3>6. Cardinality({n + 1}) = 1
      BY FS_Singleton
    <3>7. ASSUME Told(ledger'[i]), NEW p \in Named
          PROVE  Says(ledger'[n + 1], p) = - Says(ledger'[i], p)
      <4>1. Told(ledger[i]) /\ Says(ledger'[i], p) = Says(ledger[i], p)
        BY <1>1, <3>1, <3>7, AlikeSay
      <4>2. Says(t.move, p) = - Says(ledger[i], p)
        BY <2>2, <3>2, <4>1 DEF Undoes
      <4> QED  BY <1>1, <4>1, <4>2
    <3> HIDE DEF Undone
    <3> QED  BY <3>3, <3>5, <3>6, <3>7
  <2>3. CASE i # n + 1 /\ i # t.move.of
    <3>1. i \in 1..n
      BY <2>0, <2>3
    <3>2. Undone(ledger', i) = Undone(ledger, i) /\ Undone(ledger, i) \subseteq 1..n
      BY <1>1, <1>2, <2>0, <2>3
    <3>3. ledger'[i].status = ledger[i].status
      BY <1>1, <2>3, <3>1
    <3>4. IF ledger[i].status = "posted" THEN Undone(ledger, i) = {}
          ELSE /\ Cardinality(Undone(ledger, i)) = 1
               /\ Told(ledger[i]) => \A j \in Undone(ledger, i), p \in Named :
                                         Says(ledger[j], p) = - Says(ledger[i], p)
      BY <1>1, <3>1 DEF ReversedOnce
    <3>5. /\ Told(ledger'[i]) <=> Told(ledger[i])
          /\ \A j \in 1..n, p \in Named : Says(ledger'[j], p) = Says(ledger[j], p)
      BY <1>1, <3>1, AlikeSay
    <3> HIDE DEF Undone
    <3> QED  BY <3>1, <3>2, <3>3, <3>4, <3>5
  <2> QED  BY <2>1, <2>2, <2>3
<1> QED  BY <1>3, <1>4

LEMMA CommitLedgerSums ==
    ASSUME InventoryTypeOK, NEW t \in Transactions, Fit(t), Logs(t)
    PROVE  /\ \A p : LedgerSum(p) \in Int
           /\ \A p : LedgerSum(p)' = LedgerSum(p) + Says(t.move, p)
           /\ Receipts \in Int
           /\ Receipts' = Receipts + (IF t.move.ref = "order" THEN t.move.qty ELSE 0)
<1>1. /\ ledger \in Seq(Moves) /\ ledger' \in Seq(Moves) /\ Len(ledger') = Len(ledger) + 1
      /\ ledger'[Len(ledger')] = t.move
      /\ \A i \in DOMAIN ledger : Alike(ledger[i], ledger'[i])
  BY CommitLedger DEF InventoryTypeOK
<1>2. /\ \A p : LedgerSumOf(ledger, p) \in Int
      /\ \A p : LedgerSumOf(ledger', p) = LedgerSumOf(ledger, p) + Says(t.move, p)
      /\ ReceiptsOf(ledger) \in Int
      /\ ReceiptsOf(ledger') = ReceiptsOf(ledger)
                                  + (IF t.move.ref = "order" THEN t.move.qty ELSE 0)
  BY <1>1, LedgerGrows
<1> QED  BY <1>2, OnHandIs, OnHandIsNext

LEMMA CommitReceipts ==
    ASSUME InventoryTypeOK, ReceiptsMatchOrder, NEW t \in Transactions, Fit(t), Logs(t)
    PROVE  ReceiptsMatchOrder'
<1>1. Receipts' = Receipts + (IF t.move.ref = "order" THEN t.move.qty ELSE 0) /\ Receipts \in Int
  BY CommitLedgerSums
<1>2. t.move.qty \in Nat /\ order \in Orders
  BY DEF InventoryTypeOK, Transactions, Moves
<1>3. order.received \in Nat /\ order.ordered \in Nat
  BY <1>2 DEF Orders
<1>4. CASE t.move.ref = "order"
  <2>1. order' = Receive(t.move.qty)
    BY <1>4 DEF Logs
  <2>2. /\ order'.edited = order.edited /\ order'.ordered = order.ordered
        /\ order'.received = order.received + t.move.qty
        /\ order'.status = "received" => order.received + t.move.qty >= order.ordered
    BY <1>2, <2>1 DEF Receive, Orders
  <2>3. ~ order.edited => t.move.qty <= order.ordered - order.received
    BY <1>4 DEF Fit
  <2> QED  BY <1>1, <1>2, <1>3, <1>4, <2>2, <2>3 DEF ReceiptsMatchOrder
<1>5. CASE t.move.ref # "order"
  <2>1. order' = order /\ Receipts' = Receipts
    BY <1>1, <1>5 DEF Logs
  <2> QED  BY <2>1 DEF ReceiptsMatchOrder
<1> QED  BY <1>4, <1>5

LEMMA CommitBalance ==
    ASSUME InventoryAssumption, InventoryTypeOK, LedgerSumsToBalance,
           NEW t \in Transactions, Fit(t), NEW found, NEW new, Credits(t, found, new),
           Commit(t, found, new)
    PROVE  LedgerSumsToBalance'
<1> SUFFICES ASSUME \A i \in DOMAIN ledger' : Told(ledger'[i]), NEW p \in Named, p \notin astray'
             PROVE  OnHand(p)' = LedgerSum(p)'
  BY DEF LedgerSumsToBalance, Told
<1>1. Logs(t)
  BY DEF Commit, Logs
<1>2. /\ \A i \in DOMAIN ledger : i \in DOMAIN ledger' /\ Alike(ledger[i], ledger'[i])
      /\ t.move = ledger'[Len(ledger')] /\ Len(ledger') \in DOMAIN ledger'
  BY <1>1, CommitLedger
<1>3. Told(t.move) /\ \A i \in DOMAIN ledger : Told(ledger[i])
  BY <1>2, AlikeSay
<1>4. p \notin astray /\ p \notin Several(t) /\ Covered(t)
  BY DEF Commit
<1>5. OnHandOf(stock, p) = LedgerSum(p)
  BY <1>3, <1>4, OnHandIs DEF LedgerSumsToBalance
<1>6. OnHandOf(stock', p) = OnHandOf(stock, p) + (IF t.credit = p THEN t.move.qty ELSE 0)
                                - (IF t.debit = p THEN t.move.qty ELSE 0)
  BY <1>4, OnHandAfter DEF Commit
<1>7. Says(t.move, p) = (IF t.credit = p THEN t.move.qty ELSE 0)
                            - (IF t.debit = p THEN t.move.qty ELSE 0)
  BY <1>3 DEF Fit, Tells
<1>8. t.move.qty \in Int
  BY DEF Transactions, Moves
<1>9. LedgerSum(p) \in Int /\ LedgerSum(p)' = LedgerSum(p) + Says(t.move, p)
  BY <1>1, CommitLedgerSums
<1> QED  BY <1>5, <1>6, <1>7, <1>8, <1>9, OnHandIsNext

LEMMA CommitOthers ==
    ASSUME InventoryTypeOK, TxFit, NEW t \in Transactions, Fit(t), Logs(t),
           NEW y \in Clerks, tx'[y] # NoTx, tx'[y] = tx[y], Apart(tx[y], t)
    PROVE  Fit(tx[y])' /\ tx'[y].credit # "none"
<1> DEFINE s == tx[y]
           k == s.move.of
<1>1. Fit(s) /\ s.credit # "none"
  BY DEF TxFit
<1>2. s.move.ref = "order" => t.move.ref # "order" /\ order' = order
  BY DEF Apart, Logs
<1>3. k # 0 => Undoes(s)'
  <2> SUFFICES ASSUME k # 0 PROVE Undoes(s)'
    OBVIOUS
  <2>1. Undoes(s) /\ k # t.move.of
    BY <1>1 DEF Fit, Apart
  <2>2. k \in DOMAIN ledger' /\ ledger'[k].status = "posted" /\ Alike(ledger[k], ledger'[k])
    BY <2>1, CommitLedger DEF Undoes
  <2>3. /\ Told(ledger'[k]) <=> Told(ledger[k])
        /\ \A p : Says(ledger'[k], p) = Says(ledger[k], p)
    BY <2>2, AlikeSay
  <2>4. Told(ledger'[k]) => \A p \in Named : Says(s.move, p) = - Says(ledger'[k], p)
    BY <2>1, <2>3 DEF Undoes
  <2>5. s' = s
    OBVIOUS
  <2> HIDE DEF s
  <2> QED  BY <2>2, <2>4, <2>5 DEF Undoes, Told, Says
<1>4. s' = s
  OBVIOUS
<1>5. Tells(s)' /\ Shaped(s.move)'
  <2> HIDE DEF s
  <2> QED  BY <1>1, <1>4 DEF Fit, Tells, Told, Says, Shaped
<1> HIDE DEF s
<1>6. Fit(s)'
  BY <1>1, <1>2, <1>3, <1>4, <1>5 DEF Fit
<1> QED  BY <1>1, <1>4, <1>6 DEF s

\* The other transactions hold other locks.
Others(t) == \A y \in Clerks : tx'[y] # NoTx => tx'[y] = tx[y] /\ Apart(tx[y], t)

LEMMA LogsKeep ==
    ASSUME InventoryInv, NEW t \in Transactions, Fit(t), Logs(t), Others(t), stock' \in Seq(Rows),
           astray' \in SUBSET Named, tx' \in [Clerks -> Transactions \union {NoTx}],
           LedgerSumsToBalance'
    PROVE  InventoryInv'
<1>1. InventoryTypeOK /\ TxFit /\ Exclusive /\ LedgerFits /\ ReversedOnce /\ ReceiptsMatchOrder
  BY DEF InventoryInv
<1>2. InventoryTypeOK'
  BY <1>1, CommitTyped
<1>3. TxFit'
  BY <1>1, CommitOthers DEF TxFit, Others
<1>4. Exclusive'
  <2> SUFFICES ASSUME NEW x \in Clerks, NEW y \in Clerks, x # y,
                      tx'[x] # NoTx, tx'[y] # NoTx
               PROVE  Apart(tx'[x], tx'[y])
    BY DEF Exclusive, Apart
  <2> QED  BY <1>1 DEF Exclusive, Others
<1>5. LedgerFits' /\ ReversedOnce'
  BY <1>1, CommitReversals
<1>6. ReceiptsMatchOrder'
  BY <1>1, CommitReceipts
<1> QED  BY <1>2, <1>3, <1>4, <1>5, <1>6 DEF InventoryInv

LEMMA CommitKeeps ==
    ASSUME InventoryAssumption, InventoryInv, NEW t \in Transactions, Fit(t), Others(t),
           NEW found, NEW new, Credits(t, found, new), Commit(t, found, new),
           tx' \in [Clerks -> Transactions \union {NoTx}]
    PROVE  InventoryInv'
<1>1. InventoryTypeOK /\ LedgerSumsToBalance
  BY DEF InventoryInv
<1>2. stock' \in Seq(Rows)
  BY <1>1, StockTyped DEF Commit
<1>3. astray' \in SUBSET Named
  BY <1>1 DEF InventoryTypeOK, Commit, Several, Transactions
<1>4. Logs(t)
  BY DEF Logs, Commit
<1>5. LedgerSumsToBalance'
  BY <1>1, CommitBalance
<1> QED  BY <1>2, <1>3, <1>4, <1>5, LogsKeep

-----------------------------------------------------------------------------
(* The transactions are fit when they are submitted. *)

LEMMA ResolvedNamed ==
    ASSUME InventoryAssumption, InventoryTypeOK, NEW p \in Named
    PROVE  Resolved \in Named /\ Actual(p) \in Named
<1>1. stock # <<>> => stock[1] \in Rows
  BY DEF InventoryTypeOK
<1>2. Resolved \in Named
  BY <1>1 DEF InventoryAssumption, Named, Resolved, Rows
<1> QED  BY <1>2 DEF Actual

LEMMA MoveTyped ==
    ASSUME NEW type \in {"receipt", "issue", "transfer", "adjustment"}, NEW from \in Named,
           NEW to \in Named, NEW q \in Nat, NEW l \in Lots \union {NoLot},
           NEW ref \in {"order", "manual", "move", "count", "reversal"}
    PROVE  LET m == Move(type, from, to, q, l, ref) IN
           /\ m \in Moves /\ m.type = type /\ m.from = from /\ m.to = to /\ m.qty = q /\ m.lot = l
           /\ m.status = "posted" /\ m.ref = ref /\ m.of = 0
BY DEF Move, Moves

LEMMA DepositFit ==
    ASSUME InventoryAssumption, NEW p \in Named, NEW q \in Nat, NEW l \in Lots \union {NoLot},
           NEW ref \in {"order", "manual"},
           ref = "order" => q <= order.ordered - order.received
    PROVE  LET t == Deposit(p, q, l, ref) IN
           t \in Transactions /\ Fit(t) /\ t.move.ref = ref /\ t.move.of = 0
<1> DEFINE m == Move("receipt", Blank, p, q, l, ref)
           t == Deposit(p, q, l, ref)
<1>1. /\ m \in Moves /\ m.type = "receipt" /\ m.from = Blank /\ m.to = p /\ m.qty = q
      /\ m.status = "posted" /\ m.ref = ref /\ m.of = 0
  BY DEF Move, Moves, Named
<1> HIDE DEF m
<1>2. t.move = m /\ t.credit = p /\ t.debit = "none" /\ t \in Transactions
  BY <1>1 DEF Deposit, Transactions, m
<1> HIDE DEF t
<1>3. Tells(t)
  <2>1. "none" \notin Named
    BY DEF InventoryAssumption, Named
  <2> QED  BY <1>1, <1>2, <2>1 DEF Tells, Says
<1>4. Fit(t)
  BY <1>1, <1>2, <1>3 DEF Fit, Shaped
<1> QED  BY <1>1, <1>2, <1>4 DEF t

\* Where the caller of create_stock_move_scoped() told what to do, it does that.
Obeys(m, credit, debit) ==
    Told(m) => /\ credit = (IF m.type = "issue" THEN "none" ELSE m.to)
               /\ debit = (IF m.type \in {"issue", "transfer"} THEN m.from ELSE "none")

LEMMA MoveFit ==
    ASSUME InventoryAssumption,
           NEW type \in {"receipt", "issue", "transfer", "adjustment"}, NEW from \in Named,
           NEW to \in Named, NEW q \in Nat,
           NEW credit \in Named \union {"none"}, NEW debit \in Named \union {"none"},
           Obeys(Move(type, from, to, q, NoLot, "move"), credit, debit)
    PROVE  LET t == [move |-> Move(type, from, to, q, NoLot, "move"),
                     credit |-> credit, debit |-> debit]
           IN t \in Transactions /\ Fit(t) /\ t.move.ref = "move" /\ t.move.of = 0
<1> DEFINE m == Move(type, from, to, q, NoLot, "move")
           t == [move |-> m, credit |-> credit, debit |-> debit]
<1>1. /\ m \in Moves /\ m.type = type /\ m.from = from /\ m.to = to /\ m.qty = q
      /\ m.status = "posted" /\ m.ref = "move" /\ m.of = 0
  BY MoveTyped
<1> HIDE DEF m
<1>2. t.move = m /\ t.credit = credit /\ t.debit = debit /\ t \in Transactions
  BY <1>1 DEF Transactions
<1> HIDE DEF t
<1>3. Tells(t)
  <2>1. "none" \notin Named
    BY DEF InventoryAssumption, Named
  <2> SUFFICES ASSUME Told(m), NEW p \in Named
               PROVE  Says(m, p) = (IF credit = p THEN q ELSE 0) - (IF debit = p THEN q ELSE 0)
    BY <1>1, <1>2 DEF Tells
  <2>2. /\ credit = (IF type = "issue" THEN "none" ELSE to)
        /\ debit = (IF type \in {"issue", "transfer"} THEN from ELSE "none")
    BY <1>1 DEF Obeys, m
  <2> QED  BY <1>1, <2>1, <2>2 DEF Says
<1>4. Fit(t)
  BY <1>1, <1>2, <1>3 DEF Fit, Shaped
<1> QED  BY <1>1, <1>2, <1>4 DEF t, m

LEMMA CompensationIs ==
    ASSUME NEW m \in Moves, NEW back \in Returns(m)
    PROVE  LET c == Compensation(m, back) IN
           /\ c \in Moves /\ c.qty = m.qty /\ c.lot = m.lot /\ c.status = m.status
           /\ m.type = "issue" => /\ c.type = "receipt" /\ c.from = Blank
                                  /\ c.to \in Returns(m)
           /\ m.type = "transfer" => c.type = "transfer" /\ c.from = m.to /\ c.to = m.from
           /\ m.type \notin {"issue", "transfer"} =>
                  c.type = "issue" /\ c.from = m.to /\ c.to = Blank
<1>1. /\ m.type \in {"receipt", "issue", "transfer", "adjustment"}
      /\ m.from \in Named /\ m.to \in Named /\ Blank \in Named /\ back \in Named
  BY DEF Moves, Named, Returns
<1>2. CASE m.type = "issue"
  BY <1>1, <1>2 DEF Compensation, Moves
<1>3. CASE m.type = "transfer"
  BY <1>1, <1>3 DEF Compensation, Moves
<1>4. CASE m.type \notin {"issue", "transfer"}
  BY <1>1, <1>4 DEF Compensation, Moves
<1> QED  BY <1>2, <1>3, <1>4

Reversal(i, back) ==
    LET c == Compensation(ledger[i], back) IN
    [move |-> [c EXCEPT !.ref = "reversal", !.of = i],
     credit |-> IF c.type = "issue" THEN "none" ELSE c.to,
     debit |-> IF c.type = "receipt" THEN "none" ELSE c.from]

LEMMA ReversalFit ==
    ASSUME InventoryAssumption, InventoryTypeOK, LedgerFits,
           NEW i \in DOMAIN ledger, ledger[i].status = "posted", NEW back \in Returns(ledger[i])
    PROVE  LET t == Reversal(i, back) IN
           t \in Transactions /\ Fit(t) /\ t.move.ref = "reversal" /\ t.move.of = i
<1> DEFINE m == ledger[i]
           c == Compensation(m, back)
           t == Reversal(i, back)
<1>1. m \in Moves /\ i \in Nat /\ i # 0 /\ back \in Returns(m)
  BY DEF InventoryTypeOK
<1>2. Shaped(m) /\ m.status = "posted"
  BY DEF LedgerFits
<1> HIDE DEF m
<1>3. /\ c \in Moves /\ c.qty = m.qty /\ c.status = "posted"
      /\ m.type = "issue" => /\ c.type = "receipt" /\ c.from = Blank
                             /\ c.to \in Returns(m)
      /\ m.type = "transfer" => c.type = "transfer" /\ c.from = m.to /\ c.to = m.from
      /\ m.type \notin {"issue", "transfer"} =>
             c.type = "issue" /\ c.from = m.to /\ c.to = Blank
  BY <1>1, <1>2, CompensationIs
<1>4. t = [move |-> [c EXCEPT !.ref = "reversal", !.of = i],
           credit |-> IF c.type = "issue" THEN "none" ELSE c.to,
           debit |-> IF c.type = "receipt" THEN "none" ELSE c.from]
  BY DEF Reversal, m
<1> HIDE DEF c, t
<1>5. c.from \in Named /\ c.to \in Named /\ m.qty \in Nat
  BY <1>1, <1>3 DEF Moves
<1>6. /\ t.move \in Moves /\ t.move.type = c.type /\ t.move.from = c.from /\ t.move.to = c.to
      /\ t.move.qty = m.qty /\ t.move.status = "posted"
      /\ t.move.ref = "reversal" /\ t.move.of = i
  <2>1. t.move = [c EXCEPT !.ref = "reversal", !.of = i]
    BY <1>4
  <2> QED  BY <1>1, <1>3, <2>1 DEF Moves
<1>7. /\ t.credit = IF c.type = "issue" THEN "none" ELSE c.to
      /\ t.debit = IF c.type = "receipt" THEN "none" ELSE c.from
      /\ t \in Transactions
  <2>1. t.move = [c EXCEPT !.ref = "reversal", !.of = i]
    BY <1>4
  <2> QED  BY <1>4, <1>5, <1>6, <2>1 DEF Transactions
<1>8. m.type \in {"receipt", "issue", "transfer", "adjustment"}
  BY <1>1 DEF Moves
<1>9. Undoes(t)
  <2> SUFFICES ASSUME Told(m), NEW p \in Named PROVE Says(t.move, p) = - Says(m, p)
    BY <1>2, <1>6 DEF Undoes, m
  <2>1. CASE m.type = "issue"
    <3>1. m.from = Blank => m.to = Blank
      BY <1>2, <2>1 DEF Told, Shaped
    <3>2. c.to = m.from /\ c.type = "receipt"
      BY <1>3, <2>1, <3>1 DEF Returns
    <3> QED  BY <1>5, <1>6, <2>1, <3>2 DEF Says
  <2>2. CASE m.type = "transfer"
    BY <1>3, <1>5, <1>6, <2>2 DEF Says
  <2>3. CASE m.type \notin {"issue", "transfer"}
    BY <1>3, <1>5, <1>6, <1>8, <2>3 DEF Says
  <2> QED  BY <2>1, <2>2, <2>3
<1>10. Tells(t)
  <2>1. "none" \notin Named
    BY DEF InventoryAssumption, Named
  <2>2. c.type \in {"receipt", "issue", "transfer"}
    BY <1>3, <1>8
  <2> QED  BY <1>5, <1>6, <1>7, <2>1, <2>2 DEF Tells, Says
<1>11. Shaped(t.move)
  BY <1>3, <1>6, <1>8 DEF Shaped
<1>12. Fit(t)
  BY <1>6, <1>9, <1>10, <1>11 DEF Fit
<1> QED  BY <1>6, <1>7, <1>12 DEF t

-----------------------------------------------------------------------------
(* Every step keeps the invariant. *)

LEMMA HeldApart ==
    ASSUME InventoryTypeOK, NEW t \in Transactions,
           t.move.ref = "order" => ~ OrderLocked, t.move.of # 0 => ~ MoveLocked(t.move.of)
    PROVE  \A y \in Clerks : tx[y] # NoTx => Apart(tx[y], t) /\ Apart(t, tx[y])
<1>1. \A y \in Clerks : tx[y] # NoTx => tx[y] \in Held
  BY DEF Held
<1> QED  BY <1>1 DEF Apart, OrderLocked, MoveLocked

ReversedOnceOf(l) ==
    \A i \in DOMAIN l :
        LET undone == {j \in DOMAIN l : l[j].of = i} IN
        IF l[i].status = "posted" THEN undone = {}
        ELSE /\ Cardinality(undone) = 1
             /\ Told(l[i]) => \A j \in undone, p \in Named : Says(l[j], p) = - Says(l[i], p)

\* A step that writes no move leaves the reversals as they are.
LEMMA SameLedger ==
    ASSUME LedgerFits, ReversedOnce, UNCHANGED ledger
    PROVE  LedgerFits' /\ ReversedOnce'
<1>1. ReversedOnceOf(ledger)
  BY DEF ReversedOnceOf, ReversedOnce
<1>2. ReversedOnceOf(ledger')
  BY <1>1
<1>3. ReversedOnce'
  BY <1>2 DEF ReversedOnceOf, ReversedOnce, Told, Says
<1> QED  BY <1>3 DEF LedgerFits, Shaped

LEMMA SameOrder ==
    ASSUME ReceiptsMatchOrder, UNCHANGED <<ledger, order>>
    PROVE  ReceiptsMatchOrder'
<1>1. Receipts' = Receipts
  BY OnHandIs, OnHandIsNext
<1> QED  BY <1>1 DEF ReceiptsMatchOrder

LEMMA SameStock ==
    ASSUME LedgerSumsToBalance, UNCHANGED <<stock, ledger, astray>>
    PROVE  LedgerSumsToBalance'
<1>1. \A p : OnHand(p)' = OnHand(p) /\ LedgerSum(p)' = LedgerSum(p)
  BY OnHandIs, OnHandIsNext
<1> QED  BY <1>1 DEF LedgerSumsToBalance, Told

LEMMA SubmitKeeps ==
    ASSUME InventoryAssumption, InventoryInv, NEW x \in Clerks, NEW t \in Transactions, Fit(t),
           t.move.ref = "order" => ~ OrderLocked, t.move.of # 0 => ~ MoveLocked(t.move.of),
           Submit(x, t)
    PROVE  InventoryInv'
<1>1. InventoryTypeOK /\ TxFit /\ Exclusive
  BY DEF InventoryInv
<1>2. \A y \in Clerks : tx[y] # NoTx => Apart(tx[y], t) /\ Apart(t, tx[y])
  BY <1>1, HeldApart
<1>3. tx \in [Clerks -> Transactions \union {NoTx}]
  BY <1>1 DEF InventoryTypeOK
<1>4. CASE t.credit # "none" /\ OfLot(t.credit, t.move.lot) = {}
  <2>1. tx' = [tx EXCEPT ![x] = t] /\ UNCHANGED <<stock, ledger, order, astray>>
    BY <1>4 DEF Submit
  <2>2. tx' \in [Clerks -> Transactions \union {NoTx}]
    BY <1>3, <2>1
  <2>3. InventoryTypeOK'
    BY <1>1, <2>1, <2>2 DEF InventoryTypeOK
  <2>4. TxFit'
    <3> SUFFICES ASSUME NEW y \in Clerks, tx'[y] # NoTx
                 PROVE  Fit(tx[y])' /\ tx'[y].credit # "none"
      BY DEF TxFit
    <3>1. Fit(tx'[y]) /\ tx'[y].credit # "none"
      BY <1>1, <1>3, <1>4, <2>1 DEF TxFit
    <3> QED  BY <2>1, <3>1 DEF Fit, Undoes, Tells, Told, Says, Shaped
  <2>5. Exclusive'
    <3> SUFFICES ASSUME NEW y \in Clerks, NEW z \in Clerks, y # z,
                        tx'[y] # NoTx, tx'[z] # NoTx
                 PROVE  Apart(tx'[y], tx'[z])
      BY DEF Exclusive, Apart
    <3>1. CASE y = x
      BY <1>2, <1>3, <2>1, <3>1
    <3>2. CASE z = x
      BY <1>2, <1>3, <2>1, <3>2
    <3>3. CASE y # x /\ z # x
      BY <1>1, <1>3, <2>1, <3>3 DEF Exclusive
    <3> QED  BY <3>1, <3>2, <3>3
  <2>6. LedgerFits' /\ ReversedOnce' /\ ReceiptsMatchOrder' /\ LedgerSumsToBalance'
    BY <2>1, SameLedger, SameOrder, SameStock DEF InventoryInv
  <2> QED  BY <2>3, <2>4, <2>5, <2>6 DEF InventoryInv
<1>5. CASE ~ (t.credit # "none" /\ OfLot(t.credit, t.move.lot) = {})
  <2>1. Commit(t, OfLot(t.credit, t.move.lot), <<>>) /\ UNCHANGED tx
    BY <1>5 DEF Submit
  <2>2. Credits(t, OfLot(t.credit, t.move.lot), <<>>)
    BY <1>5 DEF Credits
  <2>3. Others(t)
    BY <1>2, <2>1 DEF Others
  <2> QED  BY <1>3, <2>1, <2>2, <2>3, CommitKeeps
<1> QED  BY <1>4, <1>5

LEMMA FinishKeeps ==
    ASSUME InventoryAssumption, InventoryInv, NEW x \in Clerks, Finish(x)
    PROVE  InventoryInv'
<1> DEFINE t == tx[x]
<1>1. InventoryTypeOK /\ TxFit /\ Exclusive
  BY DEF InventoryInv
<1>2. tx \in [Clerks -> Transactions \union {NoTx}]
  BY <1>1 DEF InventoryTypeOK
<1>3. t # NoTx /\ t \in Transactions /\ Fit(t) /\ t.credit # "none"
  BY <1>1, <1>2 DEF Finish, TxFit
<1>4. Commit(t, {}, <<Created(t)>>) /\ tx' = [tx EXCEPT ![x] = NoTx]
  BY DEF Finish
<1>5. Credits(t, {}, <<Created(t)>>)
  BY <1>3 DEF Credits
<1>6. Others(t)
  BY <1>1, <1>2, <1>3, <1>4 DEF Others, Exclusive
<1>7. tx' \in [Clerks -> Transactions \union {NoTx}]
  BY <1>2, <1>4
<1> HIDE DEF t
<1> QED  BY <1>3, <1>4, <1>5, <1>6, <1>7, CommitKeeps

LEMMA RollBackKeeps ==
    ASSUME InventoryInv, NEW x \in Clerks, RollBack(x)
    PROVE  InventoryInv'
<1>1. InventoryTypeOK /\ TxFit /\ Exclusive
  BY DEF InventoryInv
<1>2. tx' = [tx EXCEPT ![x] = NoTx] /\ UNCHANGED <<stock, ledger, order, astray>>
  BY DEF RollBack
<1>3. \A y \in Clerks : tx'[y] # NoTx => tx'[y] = tx[y]
  BY <1>1, <1>2 DEF InventoryTypeOK
<1>4. InventoryTypeOK'
  BY <1>1, <1>2 DEF InventoryTypeOK
<1>5. TxFit'
  <2> SUFFICES ASSUME NEW y \in Clerks, tx'[y] # NoTx
               PROVE  Fit(tx[y])' /\ tx'[y].credit # "none"
    BY DEF TxFit
  <2>1. Fit(tx'[y]) /\ tx'[y].credit # "none"
    BY <1>1, <1>3 DEF TxFit
  <2> QED  BY <1>2, <2>1 DEF Fit, Undoes, Tells, Told, Says, Shaped
<1>6. Exclusive'
  BY <1>1, <1>3 DEF Exclusive, Apart
<1>7. LedgerFits' /\ ReversedOnce' /\ ReceiptsMatchOrder' /\ LedgerSumsToBalance'
  BY <1>2, SameLedger, SameOrder, SameStock DEF InventoryInv
<1> QED  BY <1>4, <1>5, <1>6, <1>7 DEF InventoryInv

\* The order is written by no transaction while it is not locked.
LEMMA OrderKeeps ==
    ASSUME InventoryInv, ~ OrderLocked, UNCHANGED <<stock, ledger, tx, astray>>,
           order' \in Orders, ReceiptsMatchOrder'
    PROVE  InventoryInv'
<1>1. InventoryTypeOK /\ TxFit /\ Exclusive
  BY DEF InventoryInv
<1>2. InventoryTypeOK'
  BY <1>1 DEF InventoryTypeOK
<1>3. TxFit'
  <2> SUFFICES ASSUME NEW y \in Clerks, tx'[y] # NoTx
               PROVE  Fit(tx[y])' /\ tx'[y].credit # "none"
    BY DEF TxFit
  <2>1. Fit(tx'[y]) /\ tx'[y].credit # "none"
    BY <1>1 DEF TxFit
  <2>2. tx'[y] \in Held
    BY DEF Held
  <2>3. tx'[y].move.ref # "order"
    BY <2>2 DEF OrderLocked
  <2> QED  BY <2>1, <2>3 DEF Fit, Undoes, Tells, Told, Says, Shaped
<1>4. Exclusive'
  BY <1>1 DEF Exclusive, Apart
<1>5. LedgerFits' /\ ReversedOnce' /\ LedgerSumsToBalance'
  BY SameLedger, SameStock DEF InventoryInv
<1> QED  BY <1>2, <1>3, <1>4, <1>5 DEF InventoryInv

LEMMA AdjustKeeps ==
    ASSUME InventoryAssumption, InventoryInv, NEW p \in Named, NEW d \in Int, Adjust(p, d)
    PROVE  InventoryInv'
<1> DEFINE m == Move("adjustment", p, p, Max({d, -d}), NoLot, "count")
           t == [move |-> m, credit |-> "none", debit |-> "none"]
           met == {i \in At(p) : stock[i].qty + d >= 0}
<1>1. InventoryTypeOK /\ TxFit /\ Exclusive
  BY DEF InventoryInv
<1>2. Max({d, -d}) \in Nat
  BY MaxOf
<1>3. /\ m \in Moves /\ m.type = "adjustment" /\ m.status = "posted"
      /\ m.ref = "count" /\ m.of = 0
  <2> HIDE DEF m
  <2> QED  BY <1>2, MoveTyped DEF m
<1>4. ledger' = Append(ledger, m) /\ order' = order /\ tx' = tx
  BY DEF Adjust
<1> HIDE DEF m
<1>5. t \in Transactions /\ t.move = m
  BY <1>3 DEF Transactions
<1> HIDE DEF t
<1>6. Fit(t)
  BY <1>3, <1>5 DEF Fit, Tells, Told, Shaped
<1>7. Logs(t)
  BY <1>3, <1>4, <1>5 DEF Logs, Marked
<1>8. stock' \in Seq(Rows)
  <2>1. stock \in Seq(Rows) /\ Len(stock) \in Nat /\ DOMAIN stock = 1..Len(stock)
    BY <1>1 DEF InventoryTypeOK
  <2>2. stock' = [i \in DOMAIN stock |->
                    IF i \in met THEN [stock[i] EXCEPT !.qty = @ + d] ELSE stock[i]]
    BY DEF Adjust
  <2>3. ASSUME NEW i \in 1..Len(stock) PROVE stock'[i] \in Rows
    <3>1. stock[i] \in Rows
      BY <2>1
    <3>2. i \in met => stock[i].qty + d \in Nat
      BY <3>1 DEF Rows
    <3> HIDE DEF met
    <3> QED  BY <2>1, <2>2, <3>1, <3>2 DEF Rows
  <2> HIDE DEF met
  <2>4. stock' \in [1..Len(stock) -> Rows]
    BY <2>1, <2>2, <2>3
  <2> QED  BY <2>1, <2>4
<1>9. astray' \in SUBSET Named
  BY <1>1 DEF InventoryTypeOK, Adjust
<1>10. Others(t)
  BY <1>3, <1>4, <1>5 DEF Others, Apart
<1>11. tx' \in [Clerks -> Transactions \union {NoTx}]
  BY <1>1, <1>4 DEF InventoryTypeOK
<1>12. LedgerSumsToBalance'
  <2>1. ledger'[Len(ledger')] = m /\ Len(ledger') \in DOMAIN ledger'
    BY <1>1, <1>5, <1>6, <1>7, CommitLedger
  <2>2. ~ Told(ledger'[Len(ledger')])
    BY <1>3, <2>1 DEF Told
  <2> QED  BY <2>1, <2>2 DEF LedgerSumsToBalance, Told
<1> QED  BY <1>5, <1>6, <1>7, <1>8, <1>9, <1>10, <1>11, <1>12, LogsKeep

LEMMA RemoveAtIs ==
    ASSUME NEW S, NEW s \in Seq(S), NEW k \in 1..Len(s)
    PROVE  LET r == RemoveAt(s, k) IN
           /\ r \in Seq(S) /\ Len(r) = Len(s) - 1
           /\ \A i \in 1..(k - 1) : r[i] = s[i]
           /\ \A i \in k..(Len(s) - 1) : r[i] = s[i + 1]
<1> DEFINE a == SubSeq(s, 1, k - 1)
           b == SubSeq(s, k + 1, Len(s))
<1>1. Len(s) \in Nat
  OBVIOUS
<1>2. /\ a \in Seq(S) /\ Len(a) = k - 1 /\ \A i \in 1..(k - 1) : a[i] = s[i]
  <2>1. \A i \in 1..(k - 1) : s[i] \in S
    BY <1>1
  <2> QED  BY <1>1, <2>1, SubSeqProperties
<1>3. /\ b \in Seq(S) /\ Len(b) = Len(s) - k /\ \A i \in 1..(Len(s) - k) : b[i] = s[k + i]
  BY <1>1, SubSeqProperties
<1> HIDE DEF a, b
<1>4. /\ a \o b \in Seq(S) /\ Len(a \o b) = Len(s) - 1
      /\ \A i \in 1..(k - 1) : (a \o b)[i] = a[i]
      /\ \A i \in k..(Len(s) - 1) : (a \o b)[i] = b[i - (k - 1)]
  <2>1. /\ a \o b \in Seq(S) /\ Len(a \o b) = Len(a) + Len(b)
        /\ \A i \in 1..(Len(a) + Len(b)) :
              (a \o b)[i] = IF i <= Len(a) THEN a[i] ELSE b[i - Len(a)]
    BY <1>2, <1>3, ConcatProperties
  <2> QED  BY <1>1, <1>2, <1>3, <2>1
<1>5. \A i \in k..(Len(s) - 1) : (a \o b)[i] = s[i + 1]
  BY <1>1, <1>3, <1>4
<1> QED  BY <1>2, <1>4, <1>5 DEF a, b, RemoveAt

LEMMA DeleteRowKeeps ==
    ASSUME InventoryInv, NEW k \in DOMAIN stock, DeleteRow(k)
    PROVE  InventoryInv'
<1>1. InventoryTypeOK /\ TxFit /\ Exclusive /\ LedgerSumsToBalance
  BY DEF InventoryInv
<1>2. UNCHANGED <<ledger, order, tx>> /\ stock' = RemoveAt(stock, k)
  BY DEF DeleteRow
<1>3. /\ stock \in Seq(Rows) /\ DOMAIN stock = 1..Len(stock) /\ Len(stock) \in Nat
      /\ k \in 1..Len(stock)
      /\ \A i \in 1..Len(stock) : stock[i] \in Rows
  BY <1>1 DEF InventoryTypeOK
<1>4. /\ stock' \in Seq(Rows) /\ Len(stock') = Len(stock) - 1
      /\ \A i \in 1..(k - 1) : stock'[i] = stock[i]
      /\ \A i \in k..(Len(stock) - 1) : stock'[i] = stock[i + 1]
  BY <1>2, <1>3, RemoveAtIs
<1>5. InventoryTypeOK'
  <2>1. stock[k].place \in Named
    BY <1>3 DEF Rows
  <2>2. astray' \in SUBSET Named
    BY <1>1, <2>1 DEF InventoryTypeOK, DeleteRow
  <2> QED  BY <1>1, <1>2, <1>4, <2>2 DEF InventoryTypeOK
<1>6. TxFit' /\ Exclusive'
  BY <1>1, <1>2 DEF TxFit, Exclusive, Fit, Undoes, Tells, Told, Says, Shaped, Apart
<1>7. LedgerFits' /\ ReversedOnce' /\ ReceiptsMatchOrder'
  BY <1>2, SameLedger, SameOrder DEF InventoryInv
<1>8. LedgerSumsToBalance'
  <2> SUFFICES ASSUME \A i \in DOMAIN ledger : Told(ledger[i]), NEW p \in Named, p \notin astray'
               PROVE  OnHandOf(stock', p) = OnHandOf(stock, p)
    <3>1. \A p : LedgerSumOf(ledger', p) = LedgerSumOf(ledger, p)
      BY <1>2
    <3> QED  BY <1>1, <1>2, OnHandIs, OnHandIsNext DEF LedgerSumsToBalance, Told, DeleteRow
  <2> DEFINE f == [i \in Nat |-> IF i \in DOMAIN stock /\ stock[i].place = p
                                  THEN stock[i].qty ELSE 0]
             g == [i \in Nat |-> IF i \in DOMAIN (stock') /\ stock'[i].place = p
                                  THEN stock'[i].qty ELSE 0]
             n == Len(stock)
  <2>1. f \in [Nat -> Int] /\ g \in [Nat -> Int]
    <3>1. \A i \in DOMAIN (stock') : stock'[i] \in Rows
      BY <1>4
    <3> QED  BY <1>3, <3>1 DEF Rows
  <2>2. f[k] = 0
    <3>1. stock[k].qty > 0 => stock[k].place \in astray'
      BY DEF DeleteRow
    <3>2. stock[k].qty \in Nat
      BY <1>3 DEF Rows
    <3> QED  BY <1>3, <3>1, <3>2
  <2>3. DOMAIN stock' = 1..(n - 1)
    BY <1>3, <1>4
  <2>4. \A i \in 1..(k - 1) : g[i] = f[i]
    BY <1>3, <1>4, <2>3
  <2>5. \A i \in k..(n - 1) : g[i] = f[i + 1]
    BY <1>3, <1>4, <2>3
  <2>6. OnHandOf(stock', p) = SumTo(g, n - 1) /\ OnHandOf(stock, p) = SumTo(f, n)
    BY <1>4 DEF OnHandOf
  <2>7. n \in Nat /\ k \in 1..n
    BY <1>3
  <2> HIDE DEF f, g, n
  <2>8. SumTo(g, n - 1) = SumTo(f, n) - f[k]
    BY ONLY <2>1, <2>4, <2>5, <2>7, SumWithout
  <2>9. SumTo(f, n) \in Int
    BY <2>1, <2>7, SumToDef
  <2> QED  BY <2>2, <2>6, <2>8, <2>9
<1> QED  BY <1>5, <1>6, <1>7, <1>8 DEF InventoryInv

LEMMA SumOfNone ==
    ASSUME NEW f \in [Nat -> Int] PROVE SumTo(f, 0) = 0
BY SumToDef

LEMMA InventoryInvInit ==
    ASSUME InventoryAssumption, InventoryInit
    PROVE  InventoryInv
<1>1. stock = <<>> /\ ledger = <<>> /\ DOMAIN ledger = {} /\ Len(ledger) = 0 /\ Len(stock) = 0
  BY DEF InventoryInit
<1>2. InventoryTypeOK
  BY DEF InventoryInit, InventoryTypeOK, InventoryAssumption, Orders
<1>3. TxFit /\ Exclusive /\ LedgerFits /\ ReversedOnce
  BY <1>1 DEF InventoryInit, TxFit, Exclusive, LedgerFits, ReversedOnce
<1>4. Receipts = 0
  <2> DEFINE f == [i \in Nat |-> IF i \in DOMAIN ledger /\ ledger[i].ref = "order"
                                 THEN ledger[i].qty ELSE 0]
  <2>1. f \in [Nat -> Int] /\ Receipts = SumTo(f, 0)
    BY <1>1 DEF Receipts
  <2> HIDE DEF f
  <2> QED  BY <2>1, SumOfNone
<1>5. ReceiptsMatchOrder
  BY <1>4 DEF InventoryInit, ReceiptsMatchOrder, InventoryAssumption
<1>6. ASSUME NEW p PROVE OnHand(p) = LedgerSum(p)
  <2> DEFINE f == [i \in Nat |-> IF i \in At(p) THEN stock[i].qty ELSE 0]
             g == [i \in Nat |-> IF i \in DOMAIN ledger THEN Says(ledger[i], p) ELSE 0]
  <2>1. At(p) = {}
    BY <1>1 DEF At
  <2>2. f \in [Nat -> Int] /\ g \in [Nat -> Int]
    BY <1>1, <2>1
  <2>3. OnHand(p) = SumTo(f, 0) /\ LedgerSum(p) = SumTo(g, 0)
    BY <1>1 DEF OnHand, LedgerSum
  <2> HIDE DEF f, g
  <2> QED  BY <2>2, <2>3, SumOfNone
<1>7. LedgerSumsToBalance
  BY <1>6 DEF LedgerSumsToBalance
<1> QED  BY <1>2, <1>3, <1>5, <1>7 DEF InventoryInv

LEMMA TransactKeeps ==
    ASSUME InventoryAssumption, InventoryInv, NEW x \in Clerks, Transact(x)
    PROVE  InventoryInv'
<1>1. InventoryTypeOK /\ LedgerFits /\ ReceiptsMatchOrder
  BY DEF InventoryInv
<1>2. Quantities \subseteq Nat /\ NoLot \in Lots \union {NoLot}
  BY DEF InventoryAssumption
<1>3. order \in Orders /\ order.received \in Nat /\ order.ordered \in Nat
  BY <1>1 DEF InventoryTypeOK, Orders
<1>4. ASSUME NEW p \in Named, NEW q \in Quantities, NEW l \in Lots \union {NoLot},
             ReceiveStock(x, p, q, l)
      PROVE  InventoryInv'
  <2> DEFINE z == IF p = Blank THEN Resolved ELSE p
  <2>1. z \in Named /\ q \in Nat
    BY <1>1, <1>2, ResolvedNamed
  <2>2. Submit(x, Deposit(z, q, l, "manual"))
    BY <1>4 DEF ReceiveStock
  <2> HIDE DEF z
  <2>3. LET t == Deposit(z, q, l, "manual") IN
        t \in Transactions /\ Fit(t) /\ t.move.ref = "manual" /\ t.move.of = 0
    BY <2>1, DepositFit
  <2> QED  BY <2>2, <2>3, SubmitKeeps
<1>5. ASSUME NEW q \in Nat, ~ OrderLocked, q <= order.ordered - order.received,
             Submit(x, Deposit(Resolved, q, NoLot, "order"))
      PROVE  InventoryInv'
  <2>1. Resolved \in Named
    BY <1>1, ResolvedNamed DEF Named
  <2>2. LET t == Deposit(Resolved, q, NoLot, "order") IN
        t \in Transactions /\ Fit(t) /\ t.move.ref = "order" /\ t.move.of = 0
    BY <1>2, <1>5, <2>1, DepositFit
  <2> QED  BY <1>5, <2>2, SubmitKeeps
<1>6. ASSUME NEW q \in Quantities, ReceiveLine(x, q) PROVE InventoryInv'
  BY <1>2, <1>5, <1>6 DEF ReceiveLine
<1>7. ASSUME ReceiveFull(x) PROVE InventoryInv'
  <2>1. CASE order.received < order.ordered
    <3>1. order.ordered - order.received \in Nat
      BY <1>3, <2>1
    <3> QED  BY <1>3, <1>5, <1>7, <2>1, <3>1 DEF ReceiveFull
  <2>2. CASE ~ (order.received < order.ordered)
    <3>1. /\ ~ OrderLocked /\ UNCHANGED <<stock, ledger, tx, astray>>
          /\ order' = [order EXCEPT !.status = "received"]
      BY <1>7, <2>2 DEF ReceiveFull
    <3>2. /\ order' \in Orders /\ order'.edited = order.edited
          /\ order'.received = order.received /\ order'.ordered = order.ordered
      BY <1>3, <3>1 DEF Orders
    <3>3. Receipts' = Receipts
      BY <3>1, OnHandIs, OnHandIsNext
    <3>4. ReceiptsMatchOrder'
      BY <1>1, <1>3, <2>2, <3>2, <3>3 DEF ReceiptsMatchOrder
    <3> QED  BY <3>1, <3>2, <3>4, OrderKeeps
  <2> QED  BY <2>1, <2>2
<1>8. ASSUME NEW type \in {"receipt", "issue", "transfer", "adjustment"},
             NEW from \in Named, NEW to \in Named, NEW q \in Quantities,
             CreateMove(x, type, from, to, q)
      PROVE  InventoryInv'
  <2> DEFINE m == Move(type, from, to, q, NoLot, "move")
             own == IF from = Blank THEN to ELSE from
  <2>1. q \in Nat /\ Actual(from) \in Named /\ Actual(to) \in Named /\ own \in Named
    BY <1>1, <1>2, ResolvedNamed
  <2>2. m.type = type /\ m.from = from /\ m.to = to /\ m.of = 0 /\ m.ref = "move"
    BY <2>1 DEF Move
  <2>3. ASSUME NEW credit \in Named \union {"none"}, NEW debit \in Named \union {"none"},
               Obeys(m, credit, debit),
               Submit(x, [move |-> m, credit |-> credit, debit |-> debit])
        PROVE  InventoryInv'
    <3> DEFINE t == [move |-> m, credit |-> credit, debit |-> debit]
    <3>1. t \in Transactions /\ Fit(t) /\ t.move.ref = "move" /\ t.move.of = 0
      BY <2>1, <2>3, MoveFit
    <3> HIDE DEF t
    <3>2. Submit(x, t)
      BY <2>3 DEF t
    <3> QED  BY <3>1, <3>2, SubmitKeeps
  <2> HIDE DEF m
  <2>4. CASE /\ type = "receipt" /\ Submit(x, [move |-> m, credit |-> Actual(to), debit |-> "none"])
    <3>1. Told(m) => Actual(to) = to
      BY <2>2, <2>4 DEF Told, Actual
    <3> QED  BY <2>1, <2>2, <2>3, <2>4, <3>1 DEF Obeys
  <2>5. CASE /\ type = "issue" /\ Submit(x, [move |-> m, credit |-> "none", debit |-> Actual(from)])
    <3>1. Told(m) => Actual(from) = from
      BY <2>2, <2>5 DEF Told, Actual
    <3> QED  BY <2>1, <2>2, <2>3, <2>5, <3>1 DEF Obeys
  <2>6. CASE /\ type = "transfer" /\ Submit(x, [move |-> m, credit |-> to, debit |-> from])
    BY <2>2, <2>3, <2>6 DEF Obeys
  <2>7. CASE /\ type = "adjustment" /\ Submit(x, [move |-> m, credit |-> own, debit |-> "none"])
    <3>1. Told(m) => own = to
      BY <2>2, <2>7 DEF Told
    <3> HIDE DEF own
    <3> QED  BY <2>1, <2>2, <2>3, <2>7, <3>1 DEF Obeys
  <2> QED  BY <1>8, <2>4, <2>5, <2>6, <2>7 DEF CreateMove, m
<1>9. ASSUME NEW i \in DOMAIN ledger, ReverseMove(x, i) PROVE InventoryInv'
  <2>1. PICK back \in Returns(ledger[i]) :
           ledger[i].status = "posted" /\ ~ MoveLocked(i) /\ Submit(x, Reversal(i, back))
    BY <1>9 DEF ReverseMove, Reversal
  <2>2. LET t == Reversal(i, back) IN
        t \in Transactions /\ Fit(t) /\ t.move.ref = "reversal" /\ t.move.of = i
    BY <1>1, <2>1, ReversalFit
  <2> QED  BY <2>1, <2>2, SubmitKeeps
<1> QED  BY <1>4, <1>6, <1>7, <1>8, <1>9, FinishKeeps, RollBackKeeps DEF Transact

LEMMA InventoryInvStep ==
    ASSUME InventoryAssumption, InventoryInv, [InventoryNext]_inventoryVars
    PROVE  InventoryInv'
<1>1. InventoryTypeOK /\ LedgerFits /\ ReceiptsMatchOrder
  BY DEF InventoryInv
<1>2. order \in Orders
  BY <1>1 DEF InventoryTypeOK
<1>3. ASSUME NEW x \in Clerks, Transact(x) PROVE InventoryInv'
  BY <1>3, TransactKeeps
<1>4. ASSUME NEW r \in 0..Ordered, SaveOrder(r) PROVE InventoryInv'
  <2>1. /\ ~ OrderLocked /\ UNCHANGED <<stock, ledger, tx, astray>>
        /\ order' = [order EXCEPT !.received = r, !.edited = TRUE]
    BY <1>4 DEF SaveOrder
  <2>2. order' \in Orders /\ order'.edited
    <3>1. r \in Nat
      BY DEF InventoryAssumption
    <3> QED  BY <1>2, <2>1, <3>1 DEF Orders
  <2>3. ReceiptsMatchOrder'
    BY <2>2 DEF ReceiptsMatchOrder
  <2> QED  BY <2>1, <2>2, <2>3, OrderKeeps
<1>5. ASSUME DeleteOrder PROVE InventoryInv'
  <2>1. /\ ~ OrderLocked /\ UNCHANGED <<stock, ledger, tx, astray>>
        /\ order' = [order EXCEPT !.status = "deleted"]
    BY <1>5 DEF DeleteOrder
  <2>2. /\ order' \in Orders /\ order'.edited = order.edited /\ order'.status = "deleted"
        /\ order'.received = order.received /\ order'.ordered = order.ordered
    BY <1>2, <2>1 DEF Orders
  <2>3. Receipts' = Receipts
    BY <2>1, OnHandIs, OnHandIsNext
  <2>4. ReceiptsMatchOrder'
    BY <1>1, <2>2, <2>3 DEF ReceiptsMatchOrder
  <2> QED  BY <2>1, <2>2, <2>4, OrderKeeps
<1>6. ASSUME NEW p \in Named, NEW q \in Quantities, Adjust(p, q) \/ Adjust(p, -q)
      PROVE  InventoryInv'
  <2>1. q \in Int /\ -q \in Int
    BY DEF InventoryAssumption
  <2> QED  BY <1>6, <2>1, AdjustKeeps
<1>7. ASSUME NEW i \in DOMAIN stock, DeleteRow(i) PROVE InventoryInv'
  BY <1>7, DeleteRowKeeps
<1>8. CASE UNCHANGED inventoryVars
  <2>1. UNCHANGED <<stock, ledger, order, tx, astray>>
    BY <1>8 DEF inventoryVars
  <2>2. LedgerFits' /\ ReversedOnce' /\ ReceiptsMatchOrder' /\ LedgerSumsToBalance'
    BY <2>1, SameLedger, SameOrder, SameStock DEF InventoryInv
  <2>3. InventoryTypeOK' /\ TxFit' /\ Exclusive'
    BY <2>1 DEF InventoryInv, InventoryTypeOK, TxFit, Exclusive, Fit, Undoes, Tells, Told, Says,
                Shaped, Apart
  <2> QED  BY <2>2, <2>3 DEF InventoryInv
<1> QED  BY <1>3, <1>4, <1>5, <1>6, <1>7, <1>8 DEF InventoryNext

-----------------------------------------------------------------------------
(* The results. *)

(* The invariant of the stock, its ledger, the order and the transactions that
   are about to insert a row: apply_inventory_delta() and its callers. *)
THEOREM InventoryInvHolds == InventorySpec => []InventoryInv
<1>1. InventoryInit => InventoryInv
  BY InventoryAssumption, InventoryInvInit
<1>2. InventoryInv /\ [InventoryNext]_inventoryVars => InventoryInv'
  BY InventoryAssumption, InventoryInvStep
<1> QED  BY <1>1, <1>2, PTL DEF InventorySpec

(* An order that nobody edited has received what the ledger says, and never more
   than was ordered: receive_po_line() and receive_full_po() lock it. *)
THEOREM ReceiptsMatchOrderHolds == InventorySpec => []ReceiptsMatchOrder
<1>1. InventoryInv => ReceiptsMatchOrder
  BY DEF InventoryInv
<1> QED  BY <1>1, InventoryInvHolds, PTL

(* "the ledger always sums back to the physical balance", of any length and with
   any number of rows, where its rows tell what they did, no location and lot had
   two rows and no stock was deleted: apply_inventory_delta(), reverse_stock_move(). *)
THEOREM LedgerSumsToBalanceHolds == InventorySpec => []LedgerSumsToBalance
<1>1. InventoryInv => LedgerSumsToBalance
  BY DEF InventoryInv
<1> QED  BY <1>1, InventoryInvHolds, PTL

(* A move is reversed at most once, by a move that undoes what it says, however
   many requests reverse it: the lock of the row in reverse_stock_move(). *)
THEOREM ReversedOnceHolds == InventorySpec => []ReversedOnce
<1>1. InventoryInv => ReversedOnce
  BY DEF InventoryInv
<1> QED  BY <1>1, InventoryInvHolds, PTL
=============================================================================
