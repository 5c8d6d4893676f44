-------------------------------- MODULE Saga --------------------------------
(***************************************************************************)
(* What the order saga of labs/r11-outbox-saga and labs/r15-capstone       *)
(* promises, with no outbox, relay, broker or consumer in it: an order is  *)
(* placed once, it is charged at most once with the result its             *)
(* fail_payment flag dictates, and only then is it confirmed or cancelled, *)
(* once and for all, in agreement with the payment.                        *)
(***************************************************************************)
CONSTANT Orders     \* the order ids clients may use

VARIABLES
  orders,           \* order id -> status of its row in order-db ("NONE": no row)
  failPayment,      \* order id -> the fail_payment column
  payments          \* order id -> status of its row in payment-db ("NONE": no row)

vars == <<orders, failPayment, payments>>

\* The result payment-service gives an order.
Result(fail) == IF fail THEN "FAILED" ELSE "COMPLETED"

\* The status order-service gives an order once its payment is known.
Verdict(result) == IF result = "COMPLETED" THEN "CONFIRMED" ELSE "CANCELLED"

Init ==
  /\ orders      = [o \in Orders |-> "NONE"]
  /\ failPayment = [o \in Orders |-> FALSE]
  /\ payments    = [o \in Orders |-> "NONE"]

Place(o, fail) ==
  /\ orders[o] = "NONE"
  /\ orders' = [orders EXCEPT ![o] = "CREATED"]
  /\ failPayment' = [failPayment EXCEPT ![o] = fail]
  /\ UNCHANGED payments

Pay(o) ==
  /\ orders[o] = "CREATED"
  /\ payments[o] = "NONE"
  /\ payments' = [payments EXCEPT ![o] = Result(failPayment[o])]
  /\ UNCHANGED <<orders, failPayment>>

Decide(o) ==
  /\ orders[o] = "CREATED"
  /\ payments[o] # "NONE"
  /\ orders' = [orders EXCEPT ![o] = Verdict(payments[o])]
  /\ UNCHANGED <<failPayment, payments>>

Next == \E o \in Orders : (\E fail \in BOOLEAN : Place(o, fail)) \/ Pay(o) \/ Decide(o)

Spec == Init /\ [][Next]_vars
=============================================================================
