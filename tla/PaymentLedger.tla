---------------------------- MODULE PaymentLedger ----------------------------
(***************************************************************************)
(* What the billing of one job promises about money: a payment that was    *)
(* booked stays booked, the system settles the job only when every one of  *)
(* its invoices has been paid, and only an operator takes a settlement     *)
(* back.  The operator may also settle the job by hand, whatever is paid.  *)
(***************************************************************************)
CONSTANT Invoices

VARIABLES
  paid,      \* the invoices whose payment was booked
  settled    \* "open", "by_system", "by_hand", or "reopened" by the operator

Init == paid = {} /\ settled = "open"

Pay(i) ==
  /\ paid' = paid \union {i}
  /\ UNCHANGED settled

Settle ==
  /\ paid = Invoices
  /\ settled' = "by_system"
  /\ UNCHANGED paid

\* The system bills a job the operator had put back.
BillAgain ==
  /\ settled = "reopened"
  /\ settled' = "open"
  /\ UNCHANGED paid

Override ==
  /\ settled' \in {"by_hand", "reopened"}
  /\ UNCHANGED paid

Next == (\E i \in Invoices : Pay(i)) \/ Settle \/ BillAgain \/ Override

Spec == Init /\ [][Next]_<<paid, settled>>
=============================================================================
