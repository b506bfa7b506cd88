------------------------------- MODULE Finance -------------------------------
(***************************************************************************)
(* One invoice and its payments (sensei-services/src/finance/database.rs): *)
(* recording payments, marking the invoice paid, and the edits and         *)
(* removals that are refused once it is paid.                              *)
(*                                                                         *)
(* Every operation is one transaction under READ COMMITTED (TenantTx), and *)
(* none locks what it reads: each SELECT is a step, and so is the write    *)
(* with the commit.  Amounts are in the hundredths that mark_invoice_paid()*)
(* tolerates; currencies, which its sum ignores, are left out, and so are  *)
(* the sent, overdue and cancelled statuses, which nothing sets.           *)
(***************************************************************************)
EXTENDS Integers, FiniteSets, FiniteSetsExt

CONSTANTS
    Callers,      \* concurrent requests
    Payments,     \* ids; the server draws a fresh one for each
    Amounts,      \* of payments: the contract takes any, also below zero
    Totals,       \* of the invoice
    NoPayment, NoJob

ASSUME FinanceAssumption ==
    /\ Amounts \subseteq Int /\ Totals \subseteq Int
    /\ NoPayment \notin Payments /\ IsFiniteSet(Payments)

VARIABLES
    status, total,    \* of the invoice
    there, amount,    \* the rows of payments, and what they say
    drawn,            \* ids used so far
    job,              \* transactions between two statements
    counted,          \* ghost: the payments that the marking counted
    overtaken         \* ghost: a write followed reads that another write had overtaken

vars == <<status, total, there, amount, drawn, job, counted, overtaken>>

PaymentEdits == {"edit payment", "remove payment"}
InvoiceEdits == {"edit invoice", "remove invoice"}
Edits == PaymentEdits \union InvoiceEdits

JobsOf(ops, places, ids, values) ==
    [op : ops, at : places, payment : ids, value : values,
     counts : SUBSET Payments, stale : BOOLEAN]
Jobs ==
    JobsOf(PaymentEdits, {"write"}, Payments, Amounts)
        \union JobsOf(InvoiceEdits, {"write"}, {NoPayment}, Totals)
        \union JobsOf({"mark"}, {"invoice", "sum", "write"}, Payments, Totals \union {0})

TypeOK ==
    /\ status \in {"none", "draft", "paid", "removed"} /\ total \in Totals \union {0}
    /\ there \subseteq drawn /\ drawn \subseteq Payments
    /\ amount \in [Payments -> Amounts \union {0}]
    /\ job \in [Callers -> Jobs \union {NoJob}]
    /\ counted \subseteq Payments /\ overtaken \in BOOLEAN

Init ==
    /\ status = "none" /\ total = 0
    /\ there = {} /\ drawn = {} /\ amount = [p \in Payments |-> 0]
    /\ job = [c \in Callers |-> NoJob]
    /\ counted = {} /\ overtaken = FALSE

invoice == <<status, total>>
payments == <<there, amount, drawn>>
ghosts == <<counted, overtaken>>

-----------------------------------------------------------------------------
SumOf(amounts) == MapThenSumSet(LAMBDA p : amounts[p], DOMAIN amounts)
SumPaid(ps) == SumOf([p \in ps |-> amount[p]])

\* The tolerance of 0.01.
Covers(sum, due) == sum + 1 >= due

CreateInvoice(t) ==
    /\ status = "none"
    /\ status' = "draft" /\ total' = t
    /\ UNCHANGED <<payments, job, ghosts>>

\* record_payment(): the foreign key wants the invoice, whatever its status.
RecordPayment(p, a) ==
    /\ status \in {"draft", "paid"} /\ p \notin drawn
    /\ there' = there \union {p} /\ drawn' = drawn \union {p}
    /\ amount' = [amount EXCEPT ![p] = a]
    /\ UNCHANGED <<invoice, job, ghosts>>

-----------------------------------------------------------------------------
(* A transaction. *)

Begin(c, op, at, p, v) ==
    /\ job[c] = NoJob
    /\ job' = [job EXCEPT ![c] = [op |-> op, at |-> at, payment |-> p, value |-> v,
                                  counts |-> {}, stale |-> FALSE]]
    /\ UNCHANGED <<invoice, payments, ghosts>>

\* A statement refuses, fails, or the request is dropped: nothing is written.
Abort(c) ==
    /\ job[c] # NoJob
    /\ job' = [job EXCEPT ![c] = NoJob]
    /\ UNCHANGED <<invoice, payments, ghosts>>

\* The write of c commits; what the others have read may be out of date.
Commits(c) ==
    /\ job' = [x \in Callers |->
                  IF x = c THEN NoJob
                  ELSE IF job[x] = NoJob THEN NoJob ELSE [job[x] EXCEPT !.stale = TRUE]]
    /\ overtaken' = (overtaken \/ job[c].stale)

\* The status that the update and delete operations read.  (Mutation: those of
\* payments do not look.)
EditableInvoiceOnly(op) == op \in PaymentEdits \/ status # "paid"
Editable(op) == status # "paid"

EditReads(c, op, p, v) ==
    /\ Editable(op)
    /\ status # "none"
    /\ op \in PaymentEdits => p \in drawn
    /\ Begin(c, op, "write", p, v)

\* By id alone: the status is not looked at again.  A removed invoice takes its
\* payments with it.
EditWrites(c) ==
    LET j == job[c] IN
    /\ j # NoJob /\ j.op \in Edits
    /\ \/ /\ j.op = "edit invoice" /\ status # "removed"
          /\ total' = j.value
          /\ UNCHANGED <<status, payments>>
       \/ /\ j.op = "remove invoice" /\ status # "removed"
          /\ status' = "removed"
          /\ there' = {}
          /\ UNCHANGED <<total, amount, drawn>>
       \/ /\ j.op = "edit payment" /\ j.payment \in there
          /\ amount' = [amount EXCEPT ![j.payment] = j.value]
          /\ UNCHANGED <<invoice, there, drawn>>
       \/ /\ j.op = "remove payment" /\ j.payment \in there
          /\ there' = there \ {j.payment}
          /\ UNCHANGED <<invoice, amount, drawn>>
    /\ Commits(c)
    /\ UNCHANGED counted

-----------------------------------------------------------------------------
(* mark_invoice_paid(): three reads and an UPDATE. *)

MarkChecksPayment(c, p) ==
    /\ p \in there
    /\ Begin(c, "mark", "invoice", p, 0)

Reads(c, at, next) ==
    /\ job[c] # NoJob /\ job[c].at = at
    /\ job' = [job EXCEPT ![c] = next]
    /\ UNCHANGED <<invoice, payments, ghosts>>

MarkReadsInvoice(c) ==
    /\ status = "draft"
    /\ Reads(c, "invoice", [job[c] EXCEPT !.at = "sum", !.value = total])

\* The sum against the total read before.  (Mutation: the payment named is
\* taken to be enough.)
EnoughIfNamed(c) == job[c].payment \in there
Enough(c) == Covers(SumPaid(there), job[c].value)

MarkSums(c) ==
    /\ job[c] # NoJob /\ job[c].at = "sum"
    /\ Enough(c)
    /\ Reads(c, "sum", [job[c] EXCEPT !.at = "write", !.counts = there])

\* UPDATE .. WHERE status != 'paid' AND status != 'cancelled'
MarkWrites(c) ==
    /\ job[c] # NoJob /\ job[c].op = "mark" /\ job[c].at = "write"
    /\ status = "draft"
    /\ status' = "paid"
    /\ counted' = job[c].counts
    /\ Commits(c)
    /\ UNCHANGED <<total, payments>>

-----------------------------------------------------------------------------
Request(c) ==
    \/ \E op \in PaymentEdits, p \in Payments, v \in Amounts : EditReads(c, op, p, v)
    \/ \E op \in InvoiceEdits, t \in Totals : EditReads(c, op, NoPayment, t)
    \/ \E p \in Payments : MarkChecksPayment(c, p)
    \/ MarkReadsInvoice(c) \/ MarkSums(c) \/ MarkWrites(c)
    \/ EditWrites(c) \/ Abort(c)

Next ==
    \/ \E t \in Totals : CreateInvoice(t)
    \/ \E p \in Payments, a \in Amounts : RecordPayment(p, a)
    \/ \E c \in Callers : Request(c)

Spec == Init /\ [][Next]_vars

-----------------------------------------------------------------------------
(* A paid invoice is covered by the payments that its marking counted, and they
   are all still there, whatever was recorded, edited, removed or marked at the
   same time, as long as no write overtook the reads of another:
   mark_invoice_paid(), "do not cover invoice total". *)
PaidIsCovered ==
    status = "paid" /\ ~overtaken => counted \subseteq there /\ Covers(SumPaid(counted), total)

(* "Paid or cancelled invoices are immutable", "Completed payments are
   immutable": once the invoice is paid, neither it nor a payment of it is
   changed or removed, unless by a write that overtook a marking. *)
PaidIsImmutable ==
    [][status = "paid" /\ ~overtaken' =>
           /\ UNCHANGED invoice
           /\ there \subseteq there' /\ \A p \in there : amount'[p] = amount[p]]_vars

(* The comment of mark_invoice_paid(): "payment validation, cumulative sum and
   status flip share a consistent snapshot"; so a paid invoice is covered,
   whatever runs at the same time.  READ COMMITTED gives each statement a
   snapshot of its own, and TLC refutes it. *)
PaidIsAlwaysCovered ==
    status = "paid" => counted \subseteq there /\ Covers(SumPaid(counted), total)
=============================================================================
