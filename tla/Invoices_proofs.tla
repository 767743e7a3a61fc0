---------------------------- MODULE Invoices_proofs ----------------------------
(***************************************************************************)
(* What holds of Invoices for every set of tickets, users, amounts and     *)
(* overlapping requests.                                                   *)
(***************************************************************************)
EXTENDS Invoices, TLAPS

\* Replacing one element of a sequence keeps its length and its type.
LEMMA UpdateSeq ==
  ASSUME NEW S, NEW s \in Seq(S), NEW i \in DOMAIN s, NEW x \in S
  PROVE  /\ [s EXCEPT ![i] = x] \in Seq(S)
         /\ Len([s EXCEPT ![i] = x]) = Len(s)
         /\ DOMAIN [s EXCEPT ![i] = x] = DOMAIN s
         /\ \A j \in DOMAIN s : [s EXCEPT ![i] = x][j] = IF j = i THEN x ELSE s[j]
<1>1. s \in [1..Len(s) -> S] /\ Len(s) \in Nat /\ DOMAIN s = 1..Len(s)
  OBVIOUS
<1>2. [s EXCEPT ![i] = x] \in [1..Len(s) -> S]
  BY <1>1
<1>3. QED BY <1>1, <1>2

\* Appending to a sequence adds one element after the others.
LEMMA AppendSeq ==
  ASSUME NEW S, NEW s \in Seq(S), NEW x \in S
  PROVE  /\ Append(s, x) \in Seq(S)
         /\ Len(Append(s, x)) = Len(s) + 1
         /\ DOMAIN Append(s, x) = DOMAIN s \cup {Len(s) + 1}
         /\ \A j \in DOMAIN s : Append(s, x)[j] = s[j]
         /\ Append(s, x)[Len(s) + 1] = x
OBVIOUS

\* What each kind of request carries.
LEMMA RequestFields ==
  ASSUME TypeOK, NEW w \in Worker
  PROVE  /\ req[w].op = "create" => req[w].ticket \in TicketId /\ req[w].total \in Int
         /\ req[w].op = "pay" =>
              /\ req[w].invoice \in DOMAIN invoices
              /\ req[w].amount \in Nat \ {0}
              /\ req[w].seenPaid \in Int
         /\ req[w].op = "void" => req[w].invoice \in DOMAIN invoices
<1>1. req[w] \in Request
  BY DEF TypeOK
<1>2. QED BY <1>1 DEF Request, TypeOK

\* The three tables have the same rows.
LEMMA SameRows ==
  ASSUME TypeOK
  PROVE  /\ DOMAIN invoices = 1..Len(invoices)
         /\ DOMAIN received = DOMAIN invoices
         /\ DOMAIN audit = DOMAIN invoices
         /\ \A i \in DOMAIN invoices :
              invoices[i] \in Invoice /\ received[i] \in Nat /\ audit[i] \in Seq(Entry)
BY DEF TypeOK

-----------------------------------------------------------------------------
(* Types *)

LEMMA InitTypeOK == Init => TypeOK
BY DEF Init, TypeOK, Request, Idle

LEMMA ReceiveTypeOK ==
  ASSUME TypeOK, NEW w \in Worker, NEW r \in Request, Receive(w, r),
         r.op \in {"pay", "void"} => r.invoice \in DOMAIN invoices
  PROVE  TypeOK'
BY DEF TypeOK, Receive

LEMMA BeginTypeOK ==
  ASSUME TypeOK, NEW w \in Worker, Begin(w)
  PROVE  TypeOK'
<1>1. PICK u \in Staff :
        \/ \E t \in TicketId, discount \in Discounts : BeginCreate(w, u, t, discount)
        \/ \E i \in DOMAIN invoices :
             \/ \E amount \in Amounts : BeginPay(w, u, i, amount)
             \/ BeginVoid(w, u, i)
  BY DEF Begin
<1>2. ASSUME NEW t \in TicketId, NEW discount \in Discounts, BeginCreate(w, u, t, discount)
      PROVE  TypeOK'
  <2>1. PICK s \in approved[t] :
          Receive(w, [op |-> "create", ticket |-> t, total |-> Total(s, discount)])
    BY <1>2 DEF BeginCreate
  <2>2. s \in Nat /\ discount \in Nat
    BY InvoiceAssumption DEF TypeOK
  <2>3. Total(s, discount) \in Int
    BY <2>2 DEF Total, Tax
  <2>4. [op |-> "create", ticket |-> t, total |-> Total(s, discount)] \in Request
    BY <2>3 DEF Request
  <2>5. QED BY <2>1, <2>4, ReceiveTypeOK
<1>3. ASSUME NEW i \in DOMAIN invoices, NEW amount \in Amounts, BeginPay(w, u, i, amount)
      PROVE  TypeOK'
  <2>1. invoices[i].amountPaid \in Int /\ i \in Nat \ {0}
    BY SameRows DEF Invoice
  <2>2. [op |-> "pay", invoice |-> i, amount |-> amount, seenPaid |-> invoices[i].amountPaid]
          \in Request
    BY <2>1, InvoiceAssumption DEF Request
  <2>3. QED BY <1>3, <2>2, ReceiveTypeOK DEF BeginPay
<1>4. ASSUME NEW i \in DOMAIN invoices, BeginVoid(w, u, i)
      PROVE  TypeOK'
  <2>1. [op |-> "void", invoice |-> i] \in Request
    BY SameRows DEF Request
  <2>2. QED BY <1>4, <2>1, ReceiveTypeOK DEF BeginVoid
<1>5. QED BY <1>1, <1>2, <1>3, <1>4

\* Answering leaves the other requests as they were.
LEMMA AnswerType ==
  ASSUME TypeOK, NEW w \in Worker, Answer(w)
  PROVE  /\ req' \in [Worker -> Request]
         /\ \A x \in Worker : req'[x] = req[x] \/ req'[x].op = "idle"
BY DEF TypeOK, Answer, Request, Idle

\* What an issue does to the three tables.
LEMMA CreateRows ==
  ASSUME TypeOK, NEW w \in Worker, CommitCreate(w)
  PROVE  /\ TypeOK'
         /\ DOMAIN invoices' = DOMAIN invoices \cup {Len(invoices) + 1}
         /\ \A i \in DOMAIN invoices :
              /\ invoices'[i] = invoices[i]
              /\ received'[i] = received[i]
              /\ audit'[i] = audit[i]
         /\ invoices'[Len(invoices) + 1] =
              [ticket |-> req[w].ticket, totalAmount |-> req[w].total, amountPaid |-> 0,
               balanceDue |-> req[w].total, status |-> "UNPAID"]
         /\ received'[Len(invoices) + 1] = 0
         /\ audit'[Len(invoices) + 1] =
              <<[action |-> "CREATE_INVOICE", balance |-> req[w].total]>>
<1> DEFINE row == [ticket |-> req[w].ticket, totalAmount |-> req[w].total, amountPaid |-> 0,
                   balanceDue |-> req[w].total, status |-> "UNPAID"]
           entry == [action |-> "CREATE_INVOICE", balance |-> req[w].total]
<1>1. req[w].ticket \in TicketId /\ req[w].total \in Int
  BY RequestFields DEF CommitCreate
<1>2. row \in Invoice /\ entry \in Entry
  BY <1>1 DEF Invoice, InvoiceStatus, Entry
<1>3. <<entry>> \in Seq(Entry)
  BY <1>2
<1>4. /\ invoices' = Append(invoices, row)
      /\ received' = Append(received, 0)
      /\ audit' = Append(audit, <<entry>>)
      /\ approved' = approved
      /\ Answer(w)
  BY DEF CommitCreate
<1> HIDE DEF row, entry
<1>5. /\ invoices \in Seq(Invoice) /\ received \in Seq(Nat) /\ audit \in Seq(Seq(Entry))
      /\ Len(received) = Len(invoices) /\ Len(audit) = Len(invoices)
  BY DEF TypeOK
<1>6. /\ invoices' \in Seq(Invoice) /\ Len(invoices') = Len(invoices) + 1
      /\ DOMAIN invoices' = DOMAIN invoices \cup {Len(invoices) + 1}
      /\ \A i \in DOMAIN invoices : invoices'[i] = invoices[i]
      /\ invoices'[Len(invoices) + 1] = row
  BY <1>2, <1>4, <1>5, AppendSeq
<1>7. /\ received' \in Seq(Nat) /\ Len(received') = Len(invoices) + 1
      /\ \A i \in DOMAIN invoices : received'[i] = received[i]
      /\ received'[Len(invoices) + 1] = 0
  BY <1>4, <1>5, AppendSeq, SameRows
<1>8. /\ audit' \in Seq(Seq(Entry)) /\ Len(audit') = Len(invoices) + 1
      /\ \A i \in DOMAIN invoices : audit'[i] = audit[i]
      /\ audit'[Len(invoices) + 1] = <<entry>>
  BY <1>3, <1>4, <1>5, AppendSeq, SameRows
<1>9. TypeOK'
  BY <1>4, <1>6, <1>7, <1>8, AnswerType DEF TypeOK
<1>10. QED BY <1>6, <1>7, <1>8, <1>9 DEF row, entry

\* A request is answered by a change of one invoice.
Changed(w, i, row, sum, entry) ==
  /\ invoices' = [invoices EXCEPT ![i] = row]
  /\ received' = [received EXCEPT ![i] = sum]
  /\ audit' = [audit EXCEPT ![i] = Append(audit[i], entry)]
  /\ Answer(w)
  /\ approved' = approved

\* What a change of one invoice does to the three tables.
LEMMA ChangeRows ==
  ASSUME TypeOK, NEW w \in Worker, NEW i \in DOMAIN invoices, NEW row \in Invoice,
         NEW sum \in Nat, NEW entry \in Entry,
         Changed(w, i, row, sum, entry)
  PROVE  /\ TypeOK'
         /\ DOMAIN invoices' = DOMAIN invoices
         /\ \A j \in DOMAIN invoices :
              /\ invoices'[j] = IF j = i THEN row ELSE invoices[j]
              /\ received'[j] = IF j = i THEN sum ELSE received[j]
              /\ audit'[j] = IF j = i THEN Append(audit[i], entry) ELSE audit[j]
<1>1. /\ invoices \in Seq(Invoice) /\ received \in Seq(Nat) /\ audit \in Seq(Seq(Entry))
      /\ Len(received) = Len(invoices) /\ Len(audit) = Len(invoices)
  BY DEF TypeOK
<1>2. /\ DOMAIN received = DOMAIN invoices /\ DOMAIN audit = DOMAIN invoices
      /\ audit[i] \in Seq(Entry)
  BY SameRows
<1>3. Append(audit[i], entry) \in Seq(Entry)
  BY <1>2, AppendSeq
<1>4. Answer(w) /\ approved' = approved
  BY DEF Changed
<1>5. /\ invoices' \in Seq(Invoice) /\ Len(invoices') = Len(invoices)
      /\ DOMAIN invoices' = DOMAIN invoices
      /\ \A j \in DOMAIN invoices : invoices'[j] = IF j = i THEN row ELSE invoices[j]
  BY <1>1, UpdateSeq DEF Changed
<1>6. /\ received' \in Seq(Nat) /\ Len(received') = Len(received)
      /\ \A j \in DOMAIN invoices : received'[j] = IF j = i THEN sum ELSE received[j]
  BY <1>1, <1>2, UpdateSeq DEF Changed
<1>7. /\ audit' \in Seq(Seq(Entry)) /\ Len(audit') = Len(audit)
      /\ \A j \in DOMAIN invoices :
           audit'[j] = IF j = i THEN Append(audit[i], entry) ELSE audit[j]
  BY <1>1, <1>2, <1>3, UpdateSeq DEF Changed
<1>8. TypeOK'
  BY <1>1, <1>4, <1>5, <1>6, <1>7, AnswerType DEF TypeOK
<1>9. QED BY <1>5, <1>6, <1>7, <1>8

\* What voiding does to the columns of an invoice.
LEMMA VoidedColumns ==
  ASSUME NEW v \in Invoice
  PROVE  /\ Voided(v) \in Invoice
         /\ Voided(v).totalAmount = v.totalAmount
         /\ Voided(v).amountPaid = v.amountPaid
         /\ Voided(v).balanceDue = 0
         /\ Voided(v).status = "VOID"
<1> DEFINE half == [v EXCEPT !.status = "VOID"]
<1>1. /\ half \in Invoice
      /\ half.totalAmount = v.totalAmount /\ half.amountPaid = v.amountPaid
      /\ half.status = "VOID"
  BY DEF Invoice, InvoiceStatus
<1>2. Voided(v) = [half EXCEPT !.balanceDue = 0]
  BY DEF Voided
<1> HIDE DEF half
<1>3. QED BY <1>1, <1>2 DEF Invoice

\* What a payment does to them.
LEMMA PaidColumns ==
  ASSUME NEW v \in Invoice, NEW seen \in Int, NEW amount \in Int
  PROVE  /\ Paid(v, seen, amount) \in Invoice
         /\ Paid(v, seen, amount).totalAmount = v.totalAmount
         /\ Paid(v, seen, amount).amountPaid = seen + amount
         /\ Paid(v, seen, amount).balanceDue = v.totalAmount - (seen + amount)
         /\ Paid(v, seen, amount).balanceDue = 0 => Paid(v, seen, amount).status = "PAID"
         /\ Paid(v, seen, amount).balanceDue # 0 =>
              Paid(v, seen, amount).status = "PARTIALLY_PAID"
<1> DEFINE paid == seen + amount
           due == v.totalAmount - paid
           verdict == IF due = 0 THEN "PAID" ELSE "PARTIALLY_PAID"
           one == [v EXCEPT !.amountPaid = paid]
           two == [one EXCEPT !.balanceDue = due]
<1>1. v.totalAmount \in Int
  BY DEF Invoice
<1>2. /\ paid \in Int /\ due \in Int /\ verdict \in InvoiceStatus
      /\ due = 0 => verdict = "PAID"
      /\ due # 0 => verdict = "PARTIALLY_PAID"
  BY <1>1 DEF InvoiceStatus
<1>3. Paid(v, seen, amount) = [two EXCEPT !.status = verdict]
  BY DEF Paid, BalanceAfter
<1>4. paid = seen + amount /\ due = v.totalAmount - (seen + amount)
  OBVIOUS
<1> HIDE DEF paid, due, verdict
<1>5. /\ one \in Invoice
      /\ one.totalAmount = v.totalAmount /\ one.amountPaid = paid
  BY <1>2 DEF Invoice
<1> HIDE DEF one
<1>6. /\ two \in Invoice
      /\ two.totalAmount = v.totalAmount /\ two.amountPaid = paid /\ two.balanceDue = due
  BY <1>2, <1>5 DEF Invoice
<1> HIDE DEF two
<1>7. /\ [two EXCEPT !.status = verdict] \in Invoice
      /\ [two EXCEPT !.status = verdict].totalAmount = v.totalAmount
      /\ [two EXCEPT !.status = verdict].amountPaid = paid
      /\ [two EXCEPT !.status = verdict].balanceDue = due
      /\ [two EXCEPT !.status = verdict].status = verdict
  BY <1>2, <1>6 DEF Invoice
<1>8. QED BY <1>2, <1>3, <1>4, <1>7

\* Voiding and paying are changes of one invoice.
LEMMA PayRows ==
  ASSUME TypeOK, NEW w \in Worker, CommitPay(w),
         NEW i, i = req[w].invoice,
         NEW row, row = Paid(invoices[i], req[w].seenPaid, req[w].amount)
  PROVE  /\ i \in DOMAIN invoices
         /\ row.totalAmount = invoices[i].totalAmount
         /\ row.amountPaid = req[w].seenPaid + req[w].amount
         /\ row.balanceDue = row.totalAmount - row.amountPaid
         /\ row.balanceDue = 0 => row.status = "PAID"
         /\ row.balanceDue # 0 => row.status = "PARTIALLY_PAID"
         /\ TypeOK'
         /\ DOMAIN invoices' = DOMAIN invoices
         /\ \A j \in DOMAIN invoices :
              /\ invoices'[j] = IF j = i THEN row ELSE invoices[j]
              /\ received'[j] = IF j = i THEN received[i] + req[w].amount ELSE received[j]
              /\ audit'[j] = IF j = i
                             THEN Append(audit[i], [action |-> "RECORD_PAYMENT",
                                                    balance |-> row.balanceDue])
                             ELSE audit[j]
<1>1. /\ i \in DOMAIN invoices
      /\ req[w].amount \in Nat \ {0}
      /\ req[w].seenPaid \in Int
  BY RequestFields DEF CommitPay
<1>2. invoices[i] \in Invoice /\ received[i] \in Nat /\ DOMAIN received = DOMAIN invoices
  BY <1>1, SameRows
<1>3. /\ row \in Invoice
      /\ row.totalAmount = invoices[i].totalAmount
      /\ row.amountPaid = req[w].seenPaid + req[w].amount
      /\ row.balanceDue = row.totalAmount - row.amountPaid
      /\ row.balanceDue = 0 => row.status = "PAID"
      /\ row.balanceDue # 0 => row.status = "PARTIALLY_PAID"
  <2>1. req[w].amount \in Int
    BY <1>1
  <2>2. QED BY <1>1, <1>2, <2>1, PaidColumns
<1>4. received[i] + req[w].amount \in Nat
  BY <1>1, <1>2
<1>5. [action |-> "RECORD_PAYMENT", balance |-> row.balanceDue] \in Entry
  BY <1>3 DEF Entry, Invoice
<1>6. /\ invoices' = [invoices EXCEPT ![i] = row]
      /\ received' = [received EXCEPT ![i] = received[i] + req[w].amount]
      /\ audit' = [audit EXCEPT ![i] =
                     Append(audit[i], [action |-> "RECORD_PAYMENT", balance |-> row.balanceDue])]
      /\ Answer(w)
      /\ UNCHANGED approved
  <2>1. BalanceAfter(invoices[i], req[w].seenPaid, req[w].amount) = row.balanceDue
    BY <1>3 DEF BalanceAfter
  <2>2. QED BY <2>1 DEF CommitPay, Write
<1> DEFINE entry == [action |-> "RECORD_PAYMENT", balance |-> row.balanceDue]
           sum == received[i] + req[w].amount
<1> HIDE DEF entry, sum
<1>7. /\ TypeOK'
      /\ DOMAIN invoices' = DOMAIN invoices
      /\ \A j \in DOMAIN invoices :
           /\ invoices'[j] = IF j = i THEN row ELSE invoices[j]
           /\ received'[j] = IF j = i THEN sum ELSE received[j]
           /\ audit'[j] = IF j = i THEN Append(audit[i], entry) ELSE audit[j]
  <2>1. row \in Invoice /\ sum \in Nat /\ entry \in Entry
    BY <1>3, <1>4, <1>5 DEF sum, entry
  <2>2. /\ invoices' = [invoices EXCEPT ![i] = row]
        /\ received' = [received EXCEPT ![i] = sum]
        /\ audit' = [audit EXCEPT ![i] = Append(audit[i], entry)]
    BY <1>6 DEF sum, entry
  <2>3. Changed(w, i, row, sum, entry)
    BY <1>6, <2>2 DEF Changed
  <2>4. QED BY <1>1, <2>1, <2>3, ChangeRows
<1>8. QED BY <1>1, <1>3, <1>7 DEF sum, entry

LEMMA VoidRows ==
  ASSUME TypeOK, NEW w \in Worker, CommitVoid(w),
         NEW i, i = req[w].invoice,
         NEW row, row = Voided(invoices[i])
  PROVE  /\ i \in DOMAIN invoices
         /\ row.totalAmount = invoices[i].totalAmount
         /\ row.amountPaid = invoices[i].amountPaid
         /\ row.balanceDue = 0
         /\ row.status = "VOID"
         /\ TypeOK'
         /\ DOMAIN invoices' = DOMAIN invoices
         /\ \A j \in DOMAIN invoices :
              /\ invoices'[j] = IF j = i THEN row ELSE invoices[j]
              /\ received'[j] = received[j]
              /\ audit'[j] = IF j = i
                             THEN Append(audit[i], [action |-> "VOID_INVOICE"])
                             ELSE audit[j]
<1>1. i \in DOMAIN invoices
  BY RequestFields DEF CommitVoid
<1>2. invoices[i] \in Invoice /\ received[i] \in Nat /\ DOMAIN received = DOMAIN invoices
  BY <1>1, SameRows
<1>3. /\ row \in Invoice
      /\ row.totalAmount = invoices[i].totalAmount
      /\ row.amountPaid = invoices[i].amountPaid
      /\ row.balanceDue = 0
      /\ row.status = "VOID"
  BY <1>2, VoidedColumns
<1>4. [action |-> "VOID_INVOICE"] \in Entry
  BY DEF Entry
<1>5. received \in Seq(Nat)
  BY DEF TypeOK
<1>6. received' = [received EXCEPT ![i] = received[i]]
  BY <1>2, <1>5 DEF CommitVoid
<1>7. /\ invoices' = [invoices EXCEPT ![i] = row]
      /\ audit' = [audit EXCEPT ![i] =
                     Append(audit[i], [action |-> "VOID_INVOICE"])]
      /\ Answer(w)
      /\ UNCHANGED approved
  BY DEF CommitVoid, Write
<1> DEFINE entry == [action |-> "VOID_INVOICE"]
<1> HIDE DEF entry
<1>8. /\ TypeOK'
      /\ DOMAIN invoices' = DOMAIN invoices
      /\ \A j \in DOMAIN invoices :
           /\ invoices'[j] = IF j = i THEN row ELSE invoices[j]
           /\ received'[j] = IF j = i THEN received[i] ELSE received[j]
           /\ audit'[j] = IF j = i THEN Append(audit[i], entry) ELSE audit[j]
  <2>1. entry \in Entry /\ audit' = [audit EXCEPT ![i] = Append(audit[i], entry)]
    BY <1>4, <1>7 DEF entry
  <2>2. Changed(w, i, row, received[i], entry)
    BY <1>6, <1>7, <2>1 DEF Changed
  <2>3. QED BY <1>1, <1>2, <1>3, <2>1, <2>2, ChangeRows
<1>9. QED BY <1>1, <1>3, <1>8 DEF entry

\* Every step of the specification keeps the types.
LEMMA NextTypeOK ==
  ASSUME TypeOK, [Next]_vars
  PROVE  TypeOK'
<1>1. ASSUME NEW t \in TicketId, NEW s \in Subtotals, Approve(t, s) \/ Overturn(t, s)
      PROVE  TypeOK'
  BY <1>1 DEF TypeOK, Approve, Overturn
<1>2. ASSUME NEW w \in Worker, CommitCreate(w) PROVE TypeOK'
  BY <1>2, CreateRows
<1>3. ASSUME NEW w \in Worker, CommitPay(w) PROVE TypeOK'
  BY <1>3, PayRows
<1>4. ASSUME NEW w \in Worker, CommitVoid(w) PROVE TypeOK'
  BY <1>4, VoidRows
<1>5. ASSUME NEW w \in Worker, Abort(w) PROVE TypeOK'
  BY <1>5 DEF TypeOK, Abort, Answer, Request, Idle
<1>6. ASSUME UNCHANGED vars PROVE TypeOK'
  BY <1>6 DEF TypeOK, vars
<1>7. QED BY <1>1, <1>2, <1>3, <1>4, <1>5, <1>6, BeginTypeOK DEF Next, Finish

\* Rows and in-flight requests keep their types under any overlap of requests.
THEOREM TypeCorrect == Spec => []TypeOK
<1>1. Init => TypeOK
  BY InitTypeOK
<1>2. TypeOK /\ [Next]_vars => TypeOK'
  BY NextTypeOK
<1>3. QED BY <1>1, <1>2, PTL DEF Spec

-----------------------------------------------------------------------------
(* The columns of an invoice *)

\* What a payment in flight read is still a bound on what it will write: the
\* total never changes and payment rows are never deleted, so the header it
\* computes stays between nothing and the total, and within what was received.
PaymentsFit ==
  \A w \in Worker : req[w].op = "pay" =>
    /\ 0 <= req[w].seenPaid
    /\ req[w].seenPaid + req[w].amount <= invoices[req[w].invoice].totalAmount
    /\ req[w].seenPaid <= received[req[w].invoice]

Inv == TypeOK /\ HeaderAddsUp /\ PaidWasReceived /\ AuditStatesBalance /\ PaymentsFit

LEMMA InitInv == Init => Inv
BY InitTypeOK DEF Init, Inv, HeaderAddsUp, PaidWasReceived, AuditStatesBalance, PaymentsFit, Idle

\* Steps that touch no row keep what is said of rows.
LEMMA RowsUntouched ==
  ASSUME Inv, UNCHANGED <<invoices, received, audit>>
  PROVE  HeaderAddsUp' /\ PaidWasReceived' /\ AuditStatesBalance'
BY DEF Inv, HeaderAddsUp, PaidWasReceived, AuditStatesBalance

\* Steps after which every payment in flight was there before, of an invoice
\* with the same total and no less received, keep PaymentsFit.
LEMMA PaymentsKept ==
  ASSUME Inv, TypeOK',
         \A x \in Worker : req'[x] = req[x] \/ req'[x].op # "pay",
         \A i \in DOMAIN invoices :
           /\ invoices'[i].totalAmount = invoices[i].totalAmount
           /\ received'[i] >= received[i]
  PROVE  PaymentsFit'
<1> SUFFICES ASSUME NEW x \in Worker, req'[x].op = "pay"
             PROVE  /\ 0 <= req'[x].seenPaid
                    /\ req'[x].seenPaid + req'[x].amount
                         <= invoices'[req'[x].invoice].totalAmount
                    /\ req'[x].seenPaid <= received'[req'[x].invoice]
  BY DEF PaymentsFit
<1>1. req'[x] = req[x] /\ req[x].op = "pay"
  OBVIOUS
<1>2. /\ req[x].invoice \in DOMAIN invoices
      /\ req[x].seenPaid \in Int
  BY <1>1, RequestFields DEF Inv
<1>3. /\ 0 <= req[x].seenPaid
      /\ req[x].seenPaid + req[x].amount <= invoices[req[x].invoice].totalAmount
      /\ req[x].seenPaid <= received[req[x].invoice]
  BY <1>1 DEF Inv, PaymentsFit
<1>4. /\ invoices'[req[x].invoice].totalAmount = invoices[req[x].invoice].totalAmount
      /\ received'[req[x].invoice] >= received[req[x].invoice]
  BY <1>2
<1>5. /\ DOMAIN received = DOMAIN invoices
      /\ received[req[x].invoice] \in Nat
  BY <1>2, SameRows DEF Inv
<1>6. received'[req[x].invoice] \in Int
  <2>1. req[x].invoice \in DOMAIN invoices'
    BY <1>1 DEF TypeOK
  <2>2. received' \in Seq(Nat) /\ DOMAIN received' = DOMAIN invoices'
    BY DEF TypeOK
  <2>3. QED BY <2>1, <2>2
<1>7. QED BY <1>1, <1>2, <1>3, <1>4, <1>5, <1>6

LEMMA BeginInv ==
  ASSUME Inv, NEW w \in Worker, Begin(w)
  PROVE  Inv'
<1>1. TypeOK'
  BY BeginTypeOK DEF Inv
<1>2. PICK u \in Staff :
        \/ \E t \in TicketId, discount \in Discounts : BeginCreate(w, u, t, discount)
        \/ \E i \in DOMAIN invoices :
             \/ \E amount \in Amounts : BeginPay(w, u, i, amount)
             \/ BeginVoid(w, u, i)
  BY DEF Begin
<1>3. UNCHANGED <<invoices, received, audit>>
  BY <1>2 DEF BeginCreate, BeginPay, BeginVoid, Receive
<1>4. HeaderAddsUp' /\ PaidWasReceived' /\ AuditStatesBalance'
  BY <1>3, RowsUntouched
<1>5. CASE \A x \in Worker : req'[x] = req[x] \/ req'[x].op # "pay"
  <2>1. \A i \in DOMAIN invoices :
          /\ invoices'[i].totalAmount = invoices[i].totalAmount
          /\ received'[i] >= received[i]
    BY <1>3, SameRows DEF Inv
  <2>2. PaymentsFit'
    BY <1>1, <1>5, <2>1, PaymentsKept
  <2>3. QED BY <1>1, <1>4, <2>2 DEF Inv
<1>6. ASSUME NEW i \in DOMAIN invoices, NEW amount \in Amounts, BeginPay(w, u, i, amount)
      PROVE  PaymentsFit'
  <2>1. req' = [req EXCEPT ![w] = [op |-> "pay", invoice |-> i, amount |-> amount,
                                   seenPaid |-> invoices[i].amountPaid]]
    BY <1>6 DEF BeginPay, Receive
  <2>2. /\ invoices[i] \in Invoice /\ received[i] \in Nat
        /\ amount \in Nat \ {0}
    BY SameRows, InvoiceAssumption DEF Inv
  <2>3. /\ invoices[i].amountPaid \in Int
        /\ invoices[i].totalAmount \in Int
        /\ invoices[i].balanceDue \in Int
        /\ invoices[i].status \in InvoiceStatus
    BY <2>2 DEF Invoice
  <2>4. /\ invoices[i].status \in {"UNPAID", "PARTIALLY_PAID"}
        /\ amount <= invoices[i].balanceDue
    BY <1>6, <2>3 DEF BeginPay, Payable, Fits, InvoiceStatus
  <2>5. /\ invoices[i].balanceDue = invoices[i].totalAmount - invoices[i].amountPaid
        /\ 0 <= invoices[i].amountPaid
        /\ invoices[i].amountPaid <= received[i]
    BY <2>3, <2>4 DEF Inv, HeaderAddsUp, PaidWasReceived
  <2>6. /\ 0 <= invoices[i].amountPaid
        /\ invoices[i].amountPaid + amount <= invoices[i].totalAmount
        /\ invoices[i].amountPaid <= received[i]
    BY <2>2, <2>3, <2>4, <2>5
  <2>7. SUFFICES ASSUME NEW x \in Worker, req'[x].op = "pay"
                 PROVE  /\ 0 <= req'[x].seenPaid
                        /\ req'[x].seenPaid + req'[x].amount
                             <= invoices[req'[x].invoice].totalAmount
                        /\ req'[x].seenPaid <= received[req'[x].invoice]
    BY <1>3 DEF PaymentsFit
  <2>8. CASE x = w
    BY <2>1, <2>6, <2>8 DEF Inv, TypeOK
  <2>9. CASE x # w
    BY <2>1, <2>9, <2>7 DEF Inv, TypeOK, PaymentsFit
  <2>10. QED BY <2>8, <2>9
<1>7. ASSUME NEW r, Receive(w, r), r.op # "pay"
      PROVE  \A x \in Worker : req'[x] = req[x] \/ req'[x].op # "pay"
  BY <1>7 DEF Receive, Inv, TypeOK
<1>8. ASSUME NEW t \in TicketId, NEW discount \in Discounts, BeginCreate(w, u, t, discount)
      PROVE  Inv'
  BY <1>5, <1>7, <1>8 DEF BeginCreate
<1>9. ASSUME NEW i \in DOMAIN invoices, BeginVoid(w, u, i)
      PROVE  Inv'
  BY <1>5, <1>7, <1>9 DEF BeginVoid
<1>10. QED BY <1>1, <1>2, <1>4, <1>6, <1>8, <1>9 DEF Inv

LEMMA CreateInv ==
  ASSUME Inv, NEW w \in Worker, CommitCreate(w)
  PROVE  Inv'
<1> DEFINE n == Len(invoices) + 1
<1>1. /\ TypeOK'
      /\ DOMAIN invoices' = DOMAIN invoices \cup {n}
      /\ \A i \in DOMAIN invoices :
           /\ invoices'[i] = invoices[i]
           /\ received'[i] = received[i]
           /\ audit'[i] = audit[i]
      /\ invoices'[n] =
           [ticket |-> req[w].ticket, totalAmount |-> req[w].total, amountPaid |-> 0,
            balanceDue |-> req[w].total, status |-> "UNPAID"]
      /\ received'[n] = 0
      /\ audit'[n] = <<[action |-> "CREATE_INVOICE", balance |-> req[w].total]>>
  BY CreateRows DEF Inv
<1> HIDE DEF n
<1>2. req[w].total \in Int
  BY RequestFields DEF Inv, CommitCreate
<1>3. HeaderAddsUp'
  BY <1>1, <1>2 DEF Inv, HeaderAddsUp
<1>4. PaidWasReceived'
  BY <1>1 DEF Inv, PaidWasReceived
<1>5. AuditStatesBalance'
  <2>1. /\ audit'[n] # <<>>
        /\ audit'[n][Len(audit'[n])] = [action |-> "CREATE_INVOICE", balance |-> req[w].total]
    BY <1>1
  <2>2. SUFFICES ASSUME NEW j \in DOMAIN invoices'
                 PROVE  /\ audit'[j] # <<>>
                        /\ audit'[j][Len(audit'[j])].action = "VOID_INVOICE"
                              <=> invoices'[j].status = "VOID"
                        /\ audit'[j][Len(audit'[j])].action # "VOID_INVOICE"
                              => audit'[j][Len(audit'[j])].balance = invoices'[j].balanceDue
    BY DEF AuditStatesBalance
  <2>3. CASE j = n
    BY <1>1, <2>1, <2>3
  <2>4. CASE j \in DOMAIN invoices
    BY <1>1, <2>4 DEF Inv, AuditStatesBalance
  <2>5. QED BY <1>1, <2>3, <2>4
<1>6. PaymentsFit'
  <2>1. \A x \in Worker : req'[x] = req[x] \/ req'[x].op # "pay"
    BY AnswerType DEF Inv, CommitCreate
  <2>2. \A i \in DOMAIN invoices :
          /\ invoices'[i].totalAmount = invoices[i].totalAmount
          /\ received'[i] >= received[i]
    BY <1>1, SameRows DEF Inv
  <2>3. QED BY <1>1, <2>1, <2>2, PaymentsKept
<1>7. QED BY <1>1, <1>3, <1>4, <1>5, <1>6 DEF Inv

\* The newest audit row after one is written.
LEMMA NewestEntry ==
  ASSUME NEW s \in Seq(Entry), NEW e \in Entry
  PROVE  Append(s, e) # <<>> /\ Append(s, e)[Len(Append(s, e))] = e
OBVIOUS

LEMMA PayInv ==
  ASSUME Inv, NEW w \in Worker, CommitPay(w)
  PROVE  Inv'
<1> DEFINE i == req[w].invoice
           row == Paid(invoices[i], req[w].seenPaid, req[w].amount)
           entry == [action |-> "RECORD_PAYMENT", balance |-> row.balanceDue]
<1>1. /\ i \in DOMAIN invoices
      /\ row.totalAmount = invoices[i].totalAmount
      /\ row.amountPaid = req[w].seenPaid + req[w].amount
      /\ row.balanceDue = row.totalAmount - row.amountPaid
      /\ row.balanceDue = 0 => row.status = "PAID"
      /\ row.balanceDue # 0 => row.status = "PARTIALLY_PAID"
      /\ TypeOK'
      /\ DOMAIN invoices' = DOMAIN invoices
      /\ \A j \in DOMAIN invoices :
           /\ invoices'[j] = IF j = i THEN row ELSE invoices[j]
           /\ received'[j] = IF j = i THEN received[i] + req[w].amount ELSE received[j]
           /\ audit'[j] = IF j = i THEN Append(audit[i], entry) ELSE audit[j]
  BY PayRows DEF Inv
<1>2. /\ req[w].op = "pay" /\ req[w].amount \in Nat \ {0} /\ req[w].seenPaid \in Int
  BY RequestFields DEF Inv, CommitPay
<1>3. /\ invoices[i].totalAmount \in Int /\ received[i] \in Nat /\ audit[i] \in Seq(Entry)
  BY <1>1, SameRows DEF Inv, Invoice
<1>4. /\ 0 <= req[w].seenPaid
      /\ req[w].seenPaid + req[w].amount <= invoices[i].totalAmount
      /\ req[w].seenPaid <= received[i]
  BY <1>2 DEF Inv, PaymentsFit
<1>5. entry \in Entry
  BY <1>1, <1>2, <1>3 DEF Entry
<1>6. Append(audit[i], entry) # <<>> /\ Append(audit[i], entry)[Len(Append(audit[i], entry))] = entry
  BY <1>3, <1>5, NewestEntry
<1>7. entry.action = "RECORD_PAYMENT" /\ entry.balance = row.balanceDue
  OBVIOUS
<1> HIDE DEF i, row, entry
<1>8. HeaderAddsUp'
  <2>1. /\ row.balanceDue = row.totalAmount - row.amountPaid
        /\ row.amountPaid > 0 /\ row.balanceDue >= 0
        /\ row.amountPaid \in Int /\ row.totalAmount \in Int
    BY <1>1, <1>2, <1>3, <1>4
  <2>2. /\ row.status \in {"PAID", "PARTIALLY_PAID"}
        /\ row.status = "PARTIALLY_PAID" => row.balanceDue > 0
        /\ row.status = "PAID" => row.amountPaid = row.totalAmount
    BY <1>1, <2>1
  <2>3. SUFFICES ASSUME NEW j \in DOMAIN invoices
                 PROVE  LET v == invoices'[j] IN
                        /\ v.status = "VOID" => v.balanceDue = 0
                        /\ v.status # "VOID" => v.balanceDue = v.totalAmount - v.amountPaid
                        /\ v.status = "UNPAID" => v.amountPaid = 0
                        /\ v.status = "PARTIALLY_PAID" => v.amountPaid > 0 /\ v.balanceDue > 0
                        /\ v.status = "PAID" => v.amountPaid = v.totalAmount /\ v.amountPaid > 0
    BY <1>1 DEF HeaderAddsUp
  <2>4. CASE j = i
    BY <1>1, <2>1, <2>2, <2>4
  <2>5. CASE j # i
    BY <1>1, <2>5 DEF Inv, HeaderAddsUp
  <2>6. QED BY <2>4, <2>5
<1>9. PaidWasReceived'
  <2>1. row.amountPaid <= received[i] + req[w].amount
    BY <1>1, <1>2, <1>3, <1>4
  <2>2. row.status # "UNPAID"
    BY <1>1
  <2>3. SUFFICES ASSUME NEW j \in DOMAIN invoices
                 PROVE  /\ invoices'[j].amountPaid <= received'[j]
                        /\ invoices'[j].status = "UNPAID" => received'[j] = 0
    BY <1>1 DEF PaidWasReceived
  <2>4. CASE j = i
    BY <1>1, <2>1, <2>2, <2>4
  <2>5. CASE j # i
    BY <1>1, <2>5 DEF Inv, PaidWasReceived
  <2>6. QED BY <2>4, <2>5
<1>10. AuditStatesBalance'
  <2>1. row.status # "VOID"
    BY <1>1
  <2>2. SUFFICES ASSUME NEW j \in DOMAIN invoices
                 PROVE  /\ audit'[j] # <<>>
                        /\ audit'[j][Len(audit'[j])].action = "VOID_INVOICE"
                              <=> invoices'[j].status = "VOID"
                        /\ audit'[j][Len(audit'[j])].action # "VOID_INVOICE"
                              => audit'[j][Len(audit'[j])].balance = invoices'[j].balanceDue
    BY <1>1 DEF AuditStatesBalance
  <2>3. CASE j = i
    BY <1>1, <1>6, <1>7, <2>1, <2>3
  <2>4. CASE j # i
    BY <1>1, <2>4 DEF Inv, AuditStatesBalance
  <2>5. QED BY <2>3, <2>4
<1>11. PaymentsFit'
  <2>1. \A x \in Worker : req'[x] = req[x] \/ req'[x].op # "pay"
    BY AnswerType DEF Inv, CommitPay
  <2>2. \A j \in DOMAIN invoices :
          /\ invoices'[j].totalAmount = invoices[j].totalAmount
          /\ received'[j] >= received[j]
    BY <1>1, <1>2, SameRows DEF Inv
  <2>3. QED BY <1>1, <2>1, <2>2, PaymentsKept
<1>12. QED BY <1>1, <1>8, <1>9, <1>10, <1>11 DEF Inv

LEMMA VoidInv ==
  ASSUME Inv, NEW w \in Worker, CommitVoid(w)
  PROVE  Inv'
<1> DEFINE i == req[w].invoice
           row == Voided(invoices[i])
           entry == [action |-> "VOID_INVOICE"]
<1>1. /\ i \in DOMAIN invoices
      /\ row.totalAmount = invoices[i].totalAmount
      /\ row.amountPaid = invoices[i].amountPaid
      /\ row.balanceDue = 0
      /\ row.status = "VOID"
      /\ TypeOK'
      /\ DOMAIN invoices' = DOMAIN invoices
      /\ \A j \in DOMAIN invoices :
           /\ invoices'[j] = IF j = i THEN row ELSE invoices[j]
           /\ received'[j] = received[j]
           /\ audit'[j] = IF j = i THEN Append(audit[i], entry) ELSE audit[j]
  BY VoidRows DEF Inv
<1>2. audit[i] \in Seq(Entry)
  BY <1>1, SameRows DEF Inv
<1>3. entry \in Entry
  BY DEF Entry
<1>4. Append(audit[i], entry) # <<>> /\ Append(audit[i], entry)[Len(Append(audit[i], entry))] = entry
  BY <1>2, <1>3, NewestEntry
<1>5. entry.action = "VOID_INVOICE"
  OBVIOUS
<1> HIDE DEF i, row, entry
<1>6. HeaderAddsUp'
  BY <1>1 DEF Inv, HeaderAddsUp
<1>7. PaidWasReceived'
  BY <1>1 DEF Inv, PaidWasReceived
<1>8. AuditStatesBalance'
  <2>1. SUFFICES ASSUME NEW j \in DOMAIN invoices
                 PROVE  /\ audit'[j] # <<>>
                        /\ audit'[j][Len(audit'[j])].action = "VOID_INVOICE"
                              <=> invoices'[j].status = "VOID"
                        /\ audit'[j][Len(audit'[j])].action # "VOID_INVOICE"
                              => audit'[j][Len(audit'[j])].balance = invoices'[j].balanceDue
    BY <1>1 DEF AuditStatesBalance
  <2>2. CASE j = i
    BY <1>1, <1>4, <1>5, <2>2
  <2>3. CASE j # i
    BY <1>1, <2>3 DEF Inv, AuditStatesBalance
  <2>4. QED BY <2>2, <2>3
<1>9. PaymentsFit'
  <2>1. \A x \in Worker : req'[x] = req[x] \/ req'[x].op # "pay"
    BY AnswerType DEF Inv, CommitVoid
  <2>2. \A j \in DOMAIN invoices :
          /\ invoices'[j].totalAmount = invoices[j].totalAmount
          /\ received'[j] >= received[j]
    BY <1>1, SameRows DEF Inv
  <2>3. QED BY <1>1, <2>1, <2>2, PaymentsKept
<1>10. QED BY <1>1, <1>6, <1>7, <1>8, <1>9 DEF Inv

LEMMA NextInv ==
  ASSUME Inv, [Next]_vars
  PROVE  Inv'
<1>1. TypeOK'
  BY NextTypeOK DEF Inv
<1>2. ASSUME UNCHANGED <<invoices, received, audit>>,
             \A x \in Worker : req'[x] = req[x] \/ req'[x].op # "pay"
      PROVE  Inv'
  <2>1. \A i \in DOMAIN invoices :
          /\ invoices'[i].totalAmount = invoices[i].totalAmount
          /\ received'[i] >= received[i]
    BY <1>2, SameRows DEF Inv
  <2>2. PaymentsFit'
    BY <1>1, <1>2, <2>1, PaymentsKept
  <2>3. QED BY <1>1, <1>2, <2>2, RowsUntouched DEF Inv
<1>3. ASSUME NEW t \in TicketId, NEW s \in Subtotals, Approve(t, s) \/ Overturn(t, s)
      PROVE  Inv'
  BY <1>2, <1>3 DEF Approve, Overturn
<1>4. ASSUME NEW w \in Worker, Abort(w) PROVE Inv'
  BY <1>2, <1>4, AnswerType DEF Abort, Inv
<1>5. ASSUME UNCHANGED vars PROVE Inv'
  BY <1>2, <1>5 DEF vars
<1>6. QED BY <1>3, <1>4, <1>5, BeginInv, CreateInv, PayInv, VoidInv DEF Next, Finish

LEMMA InvariantHolds == Spec => []Inv
<1>1. Inv /\ [Next]_vars => Inv'
  BY NextInv
<1>2. QED BY InitInv, <1>1, PTL DEF Spec

\* Whatever payments, voidings and issues overlap, the columns of an invoice add
\* up and its status says which case it is.
THEOREM HeaderAlwaysAddsUp == Spec => []HeaderAddsUp
<1>1. Inv => HeaderAddsUp
  BY DEF Inv
<1>2. QED BY <1>1, InvariantHolds, PTL

\* No invoice ever shows more as paid than its payment rows account for.
THEOREM NothingPaidUnreceived == Spec => []PaidWasReceived
<1>1. Inv => PaidWasReceived
  BY DEF Inv
<1>2. QED BY <1>1, InvariantHolds, PTL

\* Whatever payments, voidings and issues overlap, the newest audit row says whether
\* the invoice is void, and if it is not, the balance the invoice has.
THEOREM AuditNeverStale == Spec => []AuditStatesBalance
<1>1. Inv => AuditStatesBalance
  BY DEF Inv
<1>2. QED BY <1>1, InvariantHolds, PTL

-----------------------------------------------------------------------------
(* One request at a time: what the ledger promises *)

Bills ==
  [i \in DOMAIN invoices |->
     [ticket |-> invoices[i].ticket, total |-> invoices[i].totalAmount,
      paid |-> received[i], void |-> invoices[i].status = "VOID"]]

Totals == {Total(s, d) : s \in Subtotals, d \in Discounts}

\* What a request checked is still so when it writes, if no other came between.
RequestsAreFresh ==
  \A w \in Worker :
    LET r == req[w] IN
    /\ r.op = "create" =>
         r.total \in Totals /\ \A i \in DOMAIN invoices :
                                invoices[i].ticket = r.ticket => invoices[i].status = "VOID"
    /\ r.op = "pay" => /\ invoices[r.invoice].status # "VOID"
                       /\ r.seenPaid = invoices[r.invoice].amountPaid
    /\ r.op = "void" => invoices[r.invoice].amountPaid <= 0

\* No payment is lost from the header.
HeaderIsExact == \A i \in DOMAIN invoices : received[i] = invoices[i].amountPaid

LedgerInv == Inv /\ HeaderIsExact /\ RequestsAreFresh

\* The only request is what the step makes of it.
LEMMA FreshOnly ==
  ASSUME \A v, w \in Worker : v = w, TypeOK, NEW w \in Worker, NEW r,
         req' = [req EXCEPT ![w] = r],
         r.op = "create" =>
           r.total \in Totals /\ \A i \in DOMAIN invoices' :
                                  invoices'[i].ticket = r.ticket => invoices'[i].status = "VOID",
         r.op = "pay" => /\ invoices'[r.invoice].status # "VOID"
                         /\ r.seenPaid = invoices'[r.invoice].amountPaid,
         r.op = "void" => invoices'[r.invoice].amountPaid <= 0
  PROVE  RequestsAreFresh'
<1>1. \A v \in Worker : req'[v] = r
  BY DEF TypeOK
<1>2. Totals' = Totals
  BY DEF Totals
<1>3. QED BY <1>1, <1>2 DEF RequestsAreFresh

LEMMA AnsweredFresh ==
  ASSUME \A v, w \in Worker : v = w, TypeOK, NEW w \in Worker, Answer(w)
  PROVE  RequestsAreFresh'
BY FreshOnly DEF Answer, Idle

LEMMA BeginFresh ==
  ASSUME \A v, w \in Worker : v = w, LedgerInv, NEW w \in Worker, Begin(w)
  PROVE  RequestsAreFresh' /\ HeaderIsExact' /\ Bills' = Bills
<1>a. TypeOK
  BY DEF LedgerInv, Inv
<1>b. UNCHANGED <<invoices, received>>
  BY DEF Begin, BeginCreate, BeginPay, BeginVoid, Receive
<1>c. Bills' = Bills /\ HeaderIsExact'
  BY <1>b DEF Bills, HeaderIsExact, LedgerInv
<1>1. ASSUME NEW u, NEW t \in TicketId, NEW discount \in Discounts, BeginCreate(w, u, t, discount)
      PROVE  RequestsAreFresh'
  <2>1. PICK s \in approved[t] :
          Receive(w, [op |-> "create", ticket |-> t, total |-> Total(s, discount)])
    BY <1>1 DEF BeginCreate
  <2> DEFINE r == [op |-> "create", ticket |-> t, total |-> Total(s, discount)]
  <2>2. s \in Subtotals
    BY <1>a, <2>1 DEF TypeOK
  <2>3. r.op = "create" /\ r.ticket = t /\ r.total \in Totals
    BY <2>2 DEF Totals
  <2>4. req' = [req EXCEPT ![w] = r]
    BY <2>1 DEF Receive
  <2>5. \A i \in DOMAIN invoices' : invoices'[i].ticket = t => invoices'[i].status = "VOID"
    BY <1>1, <1>b DEF BeginCreate, Active
  <2> HIDE DEF r
  <2>6. QED BY <1>a, <2>3, <2>4, <2>5, FreshOnly
<1>2. ASSUME NEW u, NEW i \in DOMAIN invoices, NEW amount, BeginPay(w, u, i, amount)
      PROVE  RequestsAreFresh'
  <2> DEFINE r == [op |-> "pay", invoice |-> i, amount |-> amount,
                   seenPaid |-> invoices[i].amountPaid]
  <2>1. req' = [req EXCEPT ![w] = r] /\ invoices[i].status # "VOID"
    BY <1>2 DEF BeginPay, Receive, Payable
  <2>2. r.op = "pay" /\ r.invoice = i /\ r.seenPaid = invoices'[i].amountPaid
    BY <1>b
  <2> HIDE DEF r
  <2>3. QED BY <1>a, <1>b, <2>1, <2>2, FreshOnly
<1>3. ASSUME NEW u, NEW i \in DOMAIN invoices, BeginVoid(w, u, i)
      PROVE  RequestsAreFresh'
  <2> DEFINE r == [op |-> "void", invoice |-> i]
  <2>1. req' = [req EXCEPT ![w] = r] /\ invoices[i].amountPaid <= 0
    BY <1>3 DEF BeginVoid, Receive, Voidable
  <2>2. r.op = "void" /\ r.invoice = i
    OBVIOUS
  <2> HIDE DEF r
  <2>3. QED BY <1>a, <1>b, <2>1, <2>2, FreshOnly
<1>4. QED BY <1>c, <1>1, <1>2, <1>3 DEF Begin

\* The entries of the ledger, in its own terms.
LEMMA IssuePosts ==
  ASSUME NEW t \in TicketId, NEW total \in Totals,
         \A i \in DOMAIN Bills : Bills[i].ticket = t => Bills[i].void,
         Bills' = Append(Bills, Promise!Bill(t, total))
  PROVE  Promise!Post
<1>1. Promise!Issue(t, total)
  BY DEF Promise!Issue, Bills
<1>2. QED BY <1>1 DEF Promise!Post, Totals

LEMMA CollectPosts ==
  ASSUME NEW i \in DOMAIN Bills, NEW amount,
         amount \in 1..Bills[i].total,
         amount \in 1..(Bills[i].total - Bills[i].paid),
         ~Bills[i].void,
         Bills' = [Bills EXCEPT ![i].paid = @ + amount]
  PROVE  Promise!Post
<1>1. Promise!Collect(i, amount)
  BY DEF Promise!Collect, Bills
<1>2. QED BY <1>1 DEF Promise!Post, Bills

LEMMA AnnulPosts ==
  ASSUME NEW i \in DOMAIN Bills, Bills[i].paid = 0, Bills' = [Bills EXCEPT ![i].void = TRUE]
  PROVE  Promise!Post
<1>1. Promise!Annul(i)
  BY DEF Promise!Annul, Bills
<1>2. QED BY <1>1 DEF Promise!Post, Bills

\* A change of one invoice is a change of one bill.
LEMMA OneBill ==
  ASSUME NEW i \in DOMAIN invoices,
         DOMAIN invoices' = DOMAIN invoices,
         \A j \in DOMAIN invoices :
           j # i => invoices'[j] = invoices[j] /\ received'[j] = received[j]
  PROVE  Bills' = [Bills EXCEPT ![i] = Bills'[i]]
<1>1. DOMAIN Bills = DOMAIN invoices /\ DOMAIN Bills' = DOMAIN invoices
  BY DEF Bills
<1>2. \A j \in DOMAIN invoices : j # i => Bills'[j] = Bills[j]
  BY DEF Bills
<1>3. Bills = [j \in DOMAIN invoices |-> Bills[j]] /\ Bills' = [j \in DOMAIN invoices |-> Bills'[j]]
  BY DEF Bills
<1>4. QED BY <1>1, <1>2, <1>3

\* Each transaction is one of them.
LEMMA CreateIssues ==
  ASSUME \A v, w \in Worker : v = w, LedgerInv, NEW w \in Worker, CommitCreate(w)
  PROVE  RequestsAreFresh' /\ HeaderIsExact' /\ Promise!Post
<1> DEFINE n == Len(invoices) + 1
           t == req[w].ticket
           total == req[w].total
           row == [ticket |-> t, totalAmount |-> total, amountPaid |-> 0,
                   balanceDue |-> total, status |-> "UNPAID"]
<1>a. TypeOK
  BY DEF LedgerInv, Inv
<1>1. /\ DOMAIN invoices' = DOMAIN invoices \cup {n}
      /\ \A i \in DOMAIN invoices : invoices'[i] = invoices[i] /\ received'[i] = received[i]
      /\ invoices'[n] = row
      /\ received'[n] = 0
  BY <1>a, CreateRows
<1>2. t \in TicketId /\ total \in Totals
      /\ \A i \in DOMAIN invoices : invoices[i].ticket = t => invoices[i].status = "VOID"
  BY <1>a, RequestFields DEF CommitCreate, LedgerInv, RequestsAreFresh
<1>3. DOMAIN invoices = 1..Len(invoices) /\ Len(invoices) \in Nat
  BY <1>a DEF TypeOK
<1>4. row.ticket = t /\ row.totalAmount = total /\ row.amountPaid = 0 /\ row.status # "VOID"
  OBVIOUS
<1>5. HeaderIsExact'
  BY <1>1, <1>4 DEF HeaderIsExact, LedgerInv
<1> HIDE DEF row
<1>6. Bills' = Append(Bills, Promise!Bill(t, total))
  <2> DEFINE b == Promise!Bill(t, total)
             S == {Bills[i] : i \in DOMAIN invoices} \cup {b}
  <2>1. Bills \in Seq(S) /\ Len(Bills) = Len(invoices)
    BY <1>3 DEF Bills
  <2>2. /\ DOMAIN Append(Bills, b) = 1..n
        /\ \A i \in DOMAIN invoices : Append(Bills, b)[i] = Bills[i]
        /\ Append(Bills, b)[n] = b
    BY <1>3, <2>1
  <2>3. DOMAIN Bills' = 1..n
    BY <1>1, <1>3 DEF Bills
  <2>4. \A i \in DOMAIN invoices : Bills'[i] = Bills[i]
    BY <1>1 DEF Bills
  <2>5. Bills'[n] = b
    BY <1>1, <1>4 DEF Bills, Promise!Bill
  <2>6. Append(Bills, b) = [i \in 1..n |-> Append(Bills, b)[i]] /\ Bills' = [i \in 1..n |-> Bills'[i]]
    BY <2>1, <2>2, <2>3 DEF Bills
  <2>7. \A i \in 1..n : i \in DOMAIN invoices \/ i = n
    BY <1>3
  <2>8. \A i \in 1..n : Bills'[i] = Append(Bills, b)[i]
    BY <2>2, <2>4, <2>5, <2>7
  <2> HIDE DEF b
  <2>9. QED BY <2>6, <2>8 DEF b
<1>7. \A i \in DOMAIN Bills : Bills[i].ticket = t => Bills[i].void
  BY <1>2 DEF Bills
<1>8. Promise!Post
  BY <1>2, <1>6, <1>7, IssuePosts
<1>9. RequestsAreFresh'
  BY <1>a, AnsweredFresh DEF CommitCreate
<1>10. QED BY <1>5, <1>8, <1>9

BillRow == [ticket: TicketId, total: Int, paid: Nat, void: BOOLEAN]

LEMMA BillRows ==
  ASSUME TypeOK, NEW i \in DOMAIN invoices
  PROVE  Bills[i] \in BillRow
<1>1. invoices[i].ticket \in TicketId /\ invoices[i].totalAmount \in Int /\ received[i] \in Nat
  BY SameRows DEF Invoice
<1>2. (invoices[i].status = "VOID") \in BOOLEAN
  OBVIOUS
<1>3. QED BY <1>1, <1>2 DEF Bills, BillRow

\* Two bills that differ in what is paid.
LEMMA PaidBill ==
  ASSUME NEW b \in BillRow, NEW c \in BillRow,
         c.ticket = b.ticket, c.total = b.total, ~b.void, ~c.void
  PROVE  c = [b EXCEPT !.paid = c.paid]
BY SMT DEF BillRow

LEMMA PayCollects ==
  ASSUME \A v, w \in Worker : v = w, LedgerInv, NEW w \in Worker, CommitPay(w)
  PROVE  RequestsAreFresh' /\ HeaderIsExact' /\ Promise!Post
<1> DEFINE i == req[w].invoice
           row == Paid(invoices[i], req[w].seenPaid, req[w].amount)
           entry == [action |-> "RECORD_PAYMENT", balance |-> row.balanceDue]
<1>a. TypeOK
  BY DEF LedgerInv, Inv
<1>1. /\ i \in DOMAIN invoices
      /\ row.totalAmount = invoices[i].totalAmount
      /\ row.amountPaid = req[w].seenPaid + req[w].amount
      /\ row.balanceDue = row.totalAmount - row.amountPaid
      /\ row.balanceDue = 0 => row.status = "PAID"
      /\ row.balanceDue # 0 => row.status = "PARTIALLY_PAID"
      /\ TypeOK'
      /\ DOMAIN invoices' = DOMAIN invoices
      /\ \A j \in DOMAIN invoices :
           /\ invoices'[j] = IF j = i THEN row ELSE invoices[j]
           /\ received'[j] = IF j = i THEN received[i] + req[w].amount ELSE received[j]
           /\ audit'[j] = IF j = i THEN Append(audit[i], entry) ELSE audit[j]
  BY <1>a, PayRows
<1> DEFINE amount == req[w].amount
<1>2. row.ticket = invoices[i].ticket
  BY <1>a, <1>1, SameRows DEF Paid, BalanceAfter, Invoice
<1>3. /\ req[w].op = "pay" /\ amount \in Nat \ {0}
      /\ invoices[i].status # "VOID"
      /\ req[w].seenPaid = invoices[i].amountPaid
      /\ req[w].seenPaid + amount <= invoices[i].totalAmount
      /\ 0 <= req[w].seenPaid
  BY <1>a, RequestFields DEF CommitPay, LedgerInv, RequestsAreFresh, Inv, PaymentsFit
<1>4. /\ received[i] = invoices[i].amountPaid /\ received[i] \in Nat
      /\ invoices[i].totalAmount \in Int /\ row.status # "VOID"
  BY <1>a, <1>1, SameRows DEF LedgerInv, HeaderIsExact, Invoice
<1>5. DOMAIN received = DOMAIN invoices
  BY <1>a, SameRows
<1> HIDE DEF i, row, amount
<1>6. HeaderIsExact'
  BY <1>1, <1>3, <1>4 DEF HeaderIsExact, LedgerInv
<1>7. amount \in 1..(invoices[i].totalAmount - received[i]) /\ amount \in 1..invoices[i].totalAmount
  BY <1>3, <1>4
<1>8. /\ Bills[i].paid = received[i] /\ Bills[i].total = invoices[i].totalAmount /\ ~Bills[i].void
      /\ i \in DOMAIN Bills
  BY <1>1, <1>3 DEF Bills
<1>9. Bills'[i] = [Bills[i] EXCEPT !.paid = received[i] + amount]
  <2>1. Bills[i] \in BillRow
    BY <1>a, <1>1, BillRows
  <2>2. Bills'[i] \in BillRow
    <3>1. /\ invoices'[i].ticket \in TicketId /\ invoices'[i].totalAmount \in Int
          /\ received'[i] \in Nat
      BY <1>a, <1>1, <1>2, <1>3, <1>4, SameRows DEF Invoice, amount
    <3>2. (invoices'[i].status = "VOID") \in BOOLEAN
      OBVIOUS
    <3>3. i \in DOMAIN invoices'
      BY <1>1
    <3>4. QED BY <3>1, <3>2, <3>3 DEF Bills, BillRow
  <2>3. Bills'[i].ticket = Bills[i].ticket /\ Bills'[i].total = Bills[i].total
    BY <1>1, <1>2 DEF Bills
  <2>4. ~Bills[i].void /\ ~Bills'[i].void
    BY <1>1, <1>3, <1>4 DEF Bills
  <2>5. Bills'[i].paid = received[i] + amount
    BY <1>1 DEF Bills, amount
  <2> DEFINE b == Bills[i]
             c == Bills'[i]
  <2>6. b \in BillRow /\ c \in BillRow /\ c.ticket = b.ticket /\ c.total = b.total
        /\ ~b.void /\ ~c.void
    BY <2>1, <2>2, <2>3, <2>4
  <2> HIDE DEF b, c
  <2>7. c = [b EXCEPT !.paid = c.paid]
    BY <2>6, PaidBill
  <2>8. QED BY <2>5, <2>7 DEF b, c
<1>10. Bills' = [Bills EXCEPT ![i] = Bills'[i]]
  BY <1>1, OneBill
<1>11. Bills' = [Bills EXCEPT ![i].paid = @ + amount]
  BY <1>8, <1>9, <1>10
<1>12. Promise!Post
  BY <1>7, <1>8, <1>11, CollectPosts
<1>13. RequestsAreFresh'
  BY <1>a, AnsweredFresh DEF CommitPay
<1>14. QED BY <1>6, <1>12, <1>13

LEMMA VoidAnnuls ==
  ASSUME \A v, w \in Worker : v = w, LedgerInv, NEW w \in Worker, CommitVoid(w)
  PROVE  RequestsAreFresh' /\ HeaderIsExact' /\ Promise!Post
<1> DEFINE i == req[w].invoice
           row == Voided(invoices[i])
<1>a. TypeOK
  BY DEF LedgerInv, Inv
<1>1. /\ i \in DOMAIN invoices
      /\ row.totalAmount = invoices[i].totalAmount
      /\ row.amountPaid = invoices[i].amountPaid
      /\ row.status = "VOID"
      /\ DOMAIN invoices' = DOMAIN invoices
      /\ \A j \in DOMAIN invoices :
           /\ invoices'[j] = IF j = i THEN row ELSE invoices[j]
           /\ received'[j] = received[j]
  BY <1>a, VoidRows
<1>2. row.ticket = invoices[i].ticket
  BY <1>a, <1>1, SameRows DEF Voided, Invoice
<1>3. invoices[i].amountPaid <= 0
  BY DEF CommitVoid, LedgerInv, RequestsAreFresh
<1>4. received[i] = invoices[i].amountPaid /\ received[i] \in Nat
  BY <1>a, <1>1, SameRows DEF LedgerInv, HeaderIsExact
<1> HIDE DEF i, row
<1>5. HeaderIsExact'
  BY <1>1 DEF HeaderIsExact, LedgerInv
<1>6. Bills' = [Bills EXCEPT ![i] = [Bills[i] EXCEPT !.void = TRUE]]
  BY <1>1, <1>2 DEF Bills
<1>7. Bills[i].paid = 0 /\ i \in DOMAIN Bills
  BY <1>1, <1>3, <1>4 DEF Bills
<1>8. Bills' = [Bills EXCEPT ![i].void = TRUE]
  BY <1>6
<1>9. Promise!Post
  BY <1>7, <1>8, AnnulPosts
<1>10. RequestsAreFresh'
  BY <1>a, AnsweredFresh DEF CommitVoid
<1>11. QED BY <1>5, <1>9, <1>10

LEMMA LedgerStep ==
  ASSUME \A v, w \in Worker : v = w, LedgerInv, [Next]_vars
  PROVE  LedgerInv' /\ (Promise!Post \/ Bills' = Bills)
<1>1. Inv'
  BY NextInv DEF LedgerInv
<1>2. TypeOK
  BY DEF LedgerInv, Inv
<1>3. ASSUME UNCHANGED <<invoices, received, req>>
      PROVE  HeaderIsExact' /\ RequestsAreFresh' /\ Bills' = Bills
  <2>1. Totals' = Totals
    BY DEF Totals
  <2>2. QED BY <1>3, <2>1 DEF LedgerInv, HeaderIsExact, RequestsAreFresh, Bills
<1>4. ASSUME NEW w \in Worker, Abort(w)
      PROVE  HeaderIsExact' /\ RequestsAreFresh' /\ Bills' = Bills
  BY <1>2, <1>4, AnsweredFresh DEF Abort, LedgerInv, HeaderIsExact, Bills
<1>5. ASSUME NEW w \in Worker, Begin(w) \/ Finish(w)
      PROVE  LedgerInv' /\ (Promise!Post \/ Bills' = Bills)
  BY <1>1, <1>4, <1>5, BeginFresh, CreateIssues, PayCollects, VoidAnnuls DEF Finish, LedgerInv
<1>6. QED
  BY <1>1, <1>3, <1>5 DEF Next, Approve, Overturn, vars, LedgerInv

\* When the requests come one at a time, invoices keep what the ledger promises:
\* one active bill per ticket, no payment beyond the bill or lost from it, and no
\* voiding of money taken.
THEOREM ImplementsLedger ==
  ASSUME \A v, w \in Worker : v = w
  PROVE  Spec => KeepsLedger
<1>1. Init => LedgerInv /\ Bills = <<>>
  <2>1. Init => DOMAIN invoices = {} /\ \A w \in Worker : req[w].op = "idle"
    BY DEF Init, Idle
  <2>2. Init => HeaderIsExact /\ RequestsAreFresh /\ Bills = <<>>
    BY <2>1 DEF HeaderIsExact, RequestsAreFresh, Bills
  <2>3. QED BY <2>2, InitInv DEF LedgerInv
<1>2. Bills = <<>> => Promise!NoBills
  BY DEF Bills, Promise!NoBills
<1>3. LedgerInv /\ [Next]_vars => LedgerInv' /\ [Promise!Post]_Bills
  BY LedgerStep
<1>4. QED BY <1>1, <1>2, <1>3, PTL DEF Spec, KeepsLedger, Promise!Spec, Bills

-----------------------------------------------------------------------------
(* Where the totals come from *)

\* A request to issue takes its total from an approved estimate.
LEMMA RequestsFrom ==
  ASSUME TypeOK, NEW w \in Worker, Begin(w)
  PROVE  /\ invoices' = invoices
         /\ \A x \in Worker :
              \/ req'[x] = req[x]
              \/ req'[x].op = "create" =>
                   /\ req'[x].ticket \in TicketId
                   /\ \E s \in approved[req'[x].ticket], d \in Discounts :
                        req'[x].total = Total(s, d)
<1>a. req \in [Worker -> Request]
  BY DEF TypeOK
<1>1. ASSUME NEW u, NEW t \in TicketId, NEW discount \in Discounts, BeginCreate(w, u, t, discount)
      PROVE  /\ invoices' = invoices
             /\ \A x \in Worker :
                  \/ req'[x] = req[x]
                  \/ /\ req'[x].ticket \in TicketId
                     /\ \E s \in approved[req'[x].ticket], d \in Discounts :
                          req'[x].total = Total(s, d)
  <2>1. PICK s \in approved[t] :
          Receive(w, [op |-> "create", ticket |-> t, total |-> Total(s, discount)])
    BY <1>1 DEF BeginCreate
  <2> DEFINE r == [op |-> "create", ticket |-> t, total |-> Total(s, discount)]
  <2>2. req' = [req EXCEPT ![w] = r] /\ invoices' = invoices
    BY <2>1 DEF Receive
  <2>3. r.ticket = t /\ r.total = Total(s, discount)
    OBVIOUS
  <2> HIDE DEF r
  <2>4. \A x \in Worker : req'[x] = req[x] \/ req'[x] = r
    BY <1>a, <2>2
  <2>5. QED BY <2>1, <2>2, <2>3, <2>4
<1>2. ASSUME NEW u, NEW i \in DOMAIN invoices, NEW amount, BeginPay(w, u, i, amount)
      PROVE  invoices' = invoices /\ \A x \in Worker : req'[x] = req[x] \/ req'[x].op = "pay"
  BY <1>a, <1>2 DEF BeginPay, Receive
<1>3. ASSUME NEW u, NEW i \in DOMAIN invoices, BeginVoid(w, u, i)
      PROVE  invoices' = invoices /\ \A x \in Worker : req'[x] = req[x] \/ req'[x].op = "void"
  BY <1>a, <1>3 DEF BeginVoid, Receive
<1>4. QED BY <1>1, <1>2, <1>3 DEF Begin

\* An invoice takes its total from the request that issued it, and keeps it.
LEMMA InvoicesFrom ==
  ASSUME TypeOK, NEW w \in Worker, Finish(w)
  PROVE  /\ \A x \in Worker : req'[x] = req[x] \/ req'[x].op = "idle"
         /\ \A i \in DOMAIN invoices' :
              \/ /\ i \in DOMAIN invoices
                 /\ invoices'[i].ticket = invoices[i].ticket
                 /\ invoices'[i].totalAmount = invoices[i].totalAmount
              \/ /\ req[w].op = "create"
                 /\ invoices'[i].ticket = req[w].ticket
                 /\ invoices'[i].totalAmount = req[w].total
<1>1. \A x \in Worker : req'[x] = req[x] \/ req'[x].op = "idle"
  BY AnswerType DEF Finish, CommitCreate, CommitPay, CommitVoid, Abort
<1>2. CASE CommitCreate(w)
  <2>1. req[w].op = "create"
    BY <1>2 DEF CommitCreate
  <2>2. /\ DOMAIN invoices' = DOMAIN invoices \cup {Len(invoices) + 1}
        /\ \A i \in DOMAIN invoices : invoices'[i] = invoices[i]
        /\ invoices'[Len(invoices) + 1] =
             [ticket |-> req[w].ticket, totalAmount |-> req[w].total, amountPaid |-> 0,
              balanceDue |-> req[w].total, status |-> "UNPAID"]
    BY <1>2, CreateRows
  <2>3. \A i \in DOMAIN invoices' :
          i \in DOMAIN invoices \/ i = Len(invoices) + 1
    BY <2>2
  <2>4. /\ invoices'[Len(invoices) + 1].ticket = req[w].ticket
        /\ invoices'[Len(invoices) + 1].totalAmount = req[w].total
    BY <2>2
  <2>5. QED BY <1>1, <2>1, <2>2, <2>3, <2>4
<1>3. CASE CommitPay(w)
  <2> DEFINE i == req[w].invoice
             row == Paid(invoices[i], req[w].seenPaid, req[w].amount)
             entry == [action |-> "RECORD_PAYMENT", balance |-> row.balanceDue]
  <2>1. /\ i \in DOMAIN invoices
        /\ row.totalAmount = invoices[i].totalAmount
        /\ row.amountPaid = req[w].seenPaid + req[w].amount
        /\ row.balanceDue = row.totalAmount - row.amountPaid
        /\ row.balanceDue = 0 => row.status = "PAID"
        /\ row.balanceDue # 0 => row.status = "PARTIALLY_PAID"
        /\ TypeOK'
        /\ DOMAIN invoices' = DOMAIN invoices
        /\ \A j \in DOMAIN invoices :
             /\ invoices'[j] = IF j = i THEN row ELSE invoices[j]
             /\ received'[j] = IF j = i THEN received[i] + req[w].amount ELSE received[j]
             /\ audit'[j] = IF j = i THEN Append(audit[i], entry) ELSE audit[j]
    BY <1>3, PayRows
  <2>2. row.ticket = invoices[i].ticket
    BY <2>1, SameRows DEF Paid, BalanceAfter, Invoice
  <2> HIDE DEF i, row
  <2>3. \A j \in DOMAIN invoices' :
          /\ j \in DOMAIN invoices
          /\ invoices'[j].ticket = invoices[j].ticket
          /\ invoices'[j].totalAmount = invoices[j].totalAmount
    <3>1. ASSUME NEW j \in DOMAIN invoices'
          PROVE  /\ j \in DOMAIN invoices
                 /\ invoices'[j].ticket = invoices[j].ticket
                 /\ invoices'[j].totalAmount = invoices[j].totalAmount
      <4>1. j \in DOMAIN invoices /\ invoices'[j] = IF j = i THEN row ELSE invoices[j]
        BY <2>1, <3>1
      <4>2. QED BY <2>1, <2>2, <4>1
    <3>2. QED BY <3>1
  <2>4. QED BY <1>1, <2>3
<1>4. CASE CommitVoid(w)
  <2> DEFINE i == req[w].invoice
             row == Voided(invoices[i])
  <2>1. /\ i \in DOMAIN invoices
        /\ row.totalAmount = invoices[i].totalAmount
        /\ DOMAIN invoices' = DOMAIN invoices
        /\ \A j \in DOMAIN invoices : invoices'[j] = IF j = i THEN row ELSE invoices[j]
    BY <1>4, VoidRows
  <2>2. row.ticket = invoices[i].ticket
    BY <2>1, SameRows DEF Voided, Invoice
  <2> HIDE DEF i, row
  <2>3. \A j \in DOMAIN invoices' :
          /\ j \in DOMAIN invoices
          /\ invoices'[j].ticket = invoices[j].ticket
          /\ invoices'[j].totalAmount = invoices[j].totalAmount
    <3>1. ASSUME NEW j \in DOMAIN invoices'
          PROVE  /\ j \in DOMAIN invoices
                 /\ invoices'[j].ticket = invoices[j].ticket
                 /\ invoices'[j].totalAmount = invoices[j].totalAmount
      <4>1. j \in DOMAIN invoices /\ invoices'[j] = IF j = i THEN row ELSE invoices[j]
        BY <2>1, <3>1
      <4>2. QED BY <2>1, <2>2, <4>1
    <3>2. QED BY <3>1
  <2>4. QED BY <1>1, <2>3
<1>5. CASE Abort(w)
  BY <1>1, <1>5 DEF Abort
<1>6. QED BY <1>2, <1>3, <1>4, <1>5 DEF Finish
=============================================================================
