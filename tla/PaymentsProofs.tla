--------------------------- MODULE PaymentsProofs ---------------------------
(***************************************************************************)
(* DeliveredOnce and StatusIsTrue, proved for any number of requests and   *)
(* any faults; WorkIsDone, for behaviours up to their first fault.         *)
(*                                                                         *)
(* The conditional UPDATEs make the status a token: one request takes it   *)
(* to "paid", and it alone may deliver; one takes it from "paid" to        *)
(* "refunded", and it alone may take back.  An answer may be old, but what *)
(* it says of money stays true: the provider never forgets a payment, nor  *)
(* a refund.                                                               *)
(***************************************************************************)
EXTENDS Payments, TLAPS

HasMoney == {"paid", "refunded"}

CheckingOut(p) == pc[p] \in {"checkout", "saving"}
Delivering(p)  == pc[p] \in {"delivering", "recording"}
TakingBack(p)  == pc[p] \in {"taking_back", "reversing", "closing"}

\* What the row says of the purchase, whoever is at work on it.
RowInv ==
    /\ status = "none" => prov = "none" /\ ~ref
    /\ status \notin HasMoney => delivered = 0
    /\ trans # "none" => delivered = 1
    /\ status # "refunded" => taken = 0
    /\ delivered \in {0, 1} /\ taken \in {0, 1} /\ taken <= delivered

\* What a request may rely on at each of its steps.
RequestInv(p) ==
    /\ status = "none" => pc[p] = "idle"
    /\ CheckingOut(p) => status = "created" /\ ~ref
    /\ pc[p] = "checkout" => prov = "none"
    /\ answer[p] = "paid" => prov \in HasMoney
    /\ answer[p] = "refunded" \/ pc[p] = "marking" => prov = "refunded"
    /\ Delivering(p) => status \in HasMoney /\ trans = "none"
    /\ pc[p] = "delivering" => delivered = 0
    /\ pc[p] = "recording" => delivered = 1
    /\ TakingBack(p) => status = "refunded"
    /\ pc[p] \in {"taking_back", "reversing"} => taken = 0
    /\ pc[p] \in {"reversing", "closing"} => trans = "processed"

\* Who works alone.
AloneInv(p, q) ==
    p # q => /\ CheckingOut(p) => pc[q] = "idle"
             /\ ~(Delivering(p) /\ Delivering(q))
             /\ ~(TakingBack(p) /\ TakingBack(q))

PaymentInv ==
    /\ TypeOK
    /\ StatusIsTrue
    /\ RowInv
    /\ \A p \in Procs : RequestInv(p)
    /\ \A p, q \in Procs : AloneInv(p, q)

\* What is left to do, some request is at it: as long as nothing fails.
Undelivered == \E p \in Procs : pc[p] = "delivering"
NotTakenBack == \E p \in Procs : pc[p] \in {"taking_back", "reversing"}

WorkInv ==
    faults = 0 => /\ status \in HasMoney => delivered = 1 \/ Undelivered
                  /\ owed => taken = 1 \/ NotTakenBack
                  /\ owed => \A p \in Procs : pc[p] = "taking_back" => trans = "processed"

-----------------------------------------------------------------------------

\* Every step keeps every variable in its type.
LEMMA TypeStep == TypeOK /\ [Next]_vars => TypeOK'
<1> SUFFICES ASSUME TypeOK, [Next]_vars PROVE TypeOK'
  OBVIOUS
<1> USE DEF TypeOK, Goto, Answer, Fault, ApiError, Statuses, Open, Answers
<1>1. ASSUME NEW p \in Procs, Create(p) PROVE TypeOK'
  BY <1>1 DEF Create
<1>2. ASSUME NEW p \in Procs, CreateCheckout(p) PROVE TypeOK'
  BY <1>2 DEF CreateCheckout
<1>3. ASSUME NEW p \in Procs, CheckoutFails(p) PROVE TypeOK'
  BY <1>3 DEF CheckoutFails
<1>4. ASSUME NEW p \in Procs, SaveRef(p) PROVE TypeOK'
  BY <1>4 DEF SaveRef
<1>5. ASSUME NEW p \in Procs, HearWebhook(p) PROVE TypeOK'
  BY <1>5 DEF HearWebhook
<1>6. ASSUME NEW p \in Procs, Return(p) PROVE TypeOK'
  BY <1>6 DEF Return
<1>7. ASSUME NEW p \in Procs, Fetch(p) PROVE TypeOK'
  BY <1>7 DEF Fetch
<1>8. ASSUME NEW p \in Procs, Capture(p) PROVE TypeOK'
  BY <1>8 DEF Capture
<1>9. ASSUME NEW p \in Procs, FetchFails(p) PROVE TypeOK'
  BY <1>9 DEF FetchFails
<1>10. ASSUME NEW p \in Procs, ActPaid(p) PROVE TypeOK'
  BY <1>10 DEF ActPaid
<1>11. ASSUME NEW p \in Procs, ActRefunded(p) PROVE TypeOK'
  BY <1>11 DEF ActRefunded, TurnRefunded
<1>12. ASSUME NEW p \in Procs, ActOther(p) PROVE TypeOK'
  BY <1>12 DEF ActOther
<1>13. ASSUME NEW p \in Procs, Deliver(p) PROVE TypeOK'
  BY <1>13 DEF Deliver
<1>14. ASSUME NEW p \in Procs, Record(p) PROVE TypeOK'
  BY <1>14 DEF Record
<1>15. ASSUME NEW p \in Procs, TakeBack(p) PROVE TypeOK'
  BY <1>15 DEF TakeBack
<1>16. ASSUME NEW p \in Procs, Reverse(p) PROVE TypeOK'
  BY <1>16 DEF Reverse
<1>17. ASSUME NEW p \in Procs, Close(p) PROVE TypeOK'
  BY <1>17 DEF Close
<1>18. ASSUME NEW p \in Procs, StartRefund(p) PROVE TypeOK'
  BY <1>18 DEF StartRefund
<1>19. ASSUME NEW p \in Procs, ProviderRefunds(p) PROVE TypeOK'
  BY <1>19 DEF ProviderRefunds
<1>20. ASSUME NEW p \in Procs, RefundFails(p) PROVE TypeOK'
  BY <1>20 DEF RefundFails
<1>21. ASSUME NEW p \in Procs, Mark(p) PROVE TypeOK'
  BY <1>21 DEF Mark, TurnRefunded
<1>22. ASSUME NEW p \in Procs, MarkByHand(p) PROVE TypeOK'
  BY <1>22 DEF MarkByHand
<1>23. ASSUME NEW p \in Procs, Die(p) PROVE TypeOK'
  BY <1>23 DEF Die
<1>24. ASSUME Provider PROVE TypeOK'
  BY <1>24 DEF Provider, ProviderMoves
<1>25. ASSUME LoseWebhook PROVE TypeOK'
  <2>1. faults' = faults + 1
    BY <1>25 DEF LoseWebhook
  <2>2. cue' = FALSE
    BY <1>25 DEF LoseWebhook
  <2>3. UNCHANGED <<status, ref, prov, trans, pc, answer, delivered, taken, owed>>
    BY <1>25 DEF LoseWebhook
  <2>4. faults' \in Nat
    BY <2>1
  <2>5. cue' \in BOOLEAN
    BY <2>2
  <2> QED
    BY <2>3, <2>4, <2>5
<1>26. ASSUME UNCHANGED vars PROVE TypeOK'
  BY <1>26 DEF vars
<1> QED
  BY <1>1, <1>2, <1>3, <1>4, <1>5, <1>6, <1>7, <1>8, <1>9, <1>10, <1>11, <1>12, <1>13,
     <1>14, <1>15, <1>16, <1>17, <1>18, <1>19, <1>20, <1>21, <1>22, <1>23, <1>24, <1>25, <1>26
     DEF Next, Checkout, Sync, Refund

\* Every step keeps the invariant.  The status is the token: only the steps that
\* move it (10, 11, 21) let a request into delivering or taking back, and
\* RequestInv of the others says that none of them was there.
LEMMA InvStep == PaymentInv /\ [Next]_vars => PaymentInv'
<1> SUFFICES ASSUME PaymentInv, [Next]_vars PROVE PaymentInv'
  OBVIOUS
<1>t. TypeOK'
  BY TypeStep DEF PaymentInv
<1> USE DEF PaymentInv, TypeOK, StatusIsTrue, RowInv, RequestInv, AloneInv,
            CheckingOut, Delivering, TakingBack, HasMoney,
            Goto, Answer, Fault, ApiError, Statuses, Open, Answers
<1>1. ASSUME NEW p \in Procs, Create(p) PROVE PaymentInv'
  BY <1>t, <1>1 DEF Create
<1>2. ASSUME NEW p \in Procs, CreateCheckout(p) PROVE PaymentInv'
  BY <1>t, <1>2 DEF CreateCheckout
<1>3. ASSUME NEW p \in Procs, CheckoutFails(p) PROVE PaymentInv'
  BY <1>t, <1>3 DEF CheckoutFails
<1>4. ASSUME NEW p \in Procs, SaveRef(p) PROVE PaymentInv'
  BY <1>t, <1>4 DEF SaveRef
<1>5. ASSUME NEW p \in Procs, HearWebhook(p) PROVE PaymentInv'
  BY <1>t, <1>5 DEF HearWebhook
<1>6. ASSUME NEW p \in Procs, Return(p) PROVE PaymentInv'
  BY <1>t, <1>6 DEF Return
<1>7. ASSUME NEW p \in Procs, Fetch(p) PROVE PaymentInv'
  BY <1>t, <1>7 DEF Fetch
<1>8. ASSUME NEW p \in Procs, Capture(p) PROVE PaymentInv'
  BY <1>t, <1>8 DEF Capture
<1>9. ASSUME NEW p \in Procs, FetchFails(p) PROVE PaymentInv'
  BY <1>t, <1>9 DEF FetchFails
<1>10. ASSUME NEW p \in Procs, ActPaid(p) PROVE PaymentInv'
  <2>1. CASE status \in Open \cup {"failed", "expired"}
    <3>1. trans = "none" /\ delivered = 0 /\ taken = 0 /\ prov \in HasMoney
      BY <1>10, <2>1 DEF ActPaid
    <3>2. \A r \in Procs : ~Delivering(r) /\ ~TakingBack(r) /\ ~CheckingOut(r)
      BY <2>1, <1>10 DEF ActPaid
    <3> QED
      BY <1>t, <1>10, <2>1, <3>1, <3>2 DEF ActPaid
  <2>2. CASE status \notin Open \cup {"failed", "expired"}
    BY <1>t, <1>10, <2>2 DEF ActPaid
  <2> QED
    BY <2>1, <2>2
<1>refund. ASSUME NEW p \in Procs, NEW from \in {"acting", "marking"},
                  TurnRefunded(p, from), prov = "refunded",
                  UNCHANGED <<ref, prov, cue, trans, answer, delivered, taken, faults>>
           PROVE  PaymentInv'
  <2>1. CASE status = "paid"
    <3>1. taken = 0 /\ \A r \in Procs : ~TakingBack(r) /\ ~CheckingOut(r)
      BY <2>1
    <3> QED
      BY <1>t, <1>refund, <2>1, <3>1 DEF TurnRefunded
  <2>2. CASE status # "paid"
    BY <1>t, <1>refund, <2>2 DEF TurnRefunded
  <2> QED
    BY <2>1, <2>2
<1>11. ASSUME NEW p \in Procs, ActRefunded(p) PROVE PaymentInv'
  BY <1>11, <1>refund DEF ActRefunded
<1>12. ASSUME NEW p \in Procs, ActOther(p) PROVE PaymentInv'
  BY <1>t, <1>12 DEF ActOther
<1>13. ASSUME NEW p \in Procs, Deliver(p) PROVE PaymentInv'
  BY <1>t, <1>13 DEF Deliver
<1>14. ASSUME NEW p \in Procs, Record(p) PROVE PaymentInv'
  BY <1>t, <1>14 DEF Record
<1>15. ASSUME NEW p \in Procs, TakeBack(p) PROVE PaymentInv'
  BY <1>t, <1>15 DEF TakeBack
<1>16. ASSUME NEW p \in Procs, Reverse(p) PROVE PaymentInv'
  BY <1>t, <1>16 DEF Reverse
<1>17. ASSUME NEW p \in Procs, Close(p) PROVE PaymentInv'
  BY <1>t, <1>17 DEF Close
<1>18. ASSUME NEW p \in Procs, StartRefund(p) PROVE PaymentInv'
  BY <1>t, <1>18 DEF StartRefund
<1>19. ASSUME NEW p \in Procs, ProviderRefunds(p) PROVE PaymentInv'
  BY <1>t, <1>19 DEF ProviderRefunds
<1>20. ASSUME NEW p \in Procs, RefundFails(p) PROVE PaymentInv'
  BY <1>t, <1>20 DEF RefundFails
<1>21. ASSUME NEW p \in Procs, Mark(p) PROVE PaymentInv'
  <2>1. pc[p] = "marking"
    BY <1>21 DEF Mark, TurnRefunded
  <2> QED
    BY <1>21, <1>refund, <2>1 DEF Mark
<1>22. ASSUME NEW p \in Procs, MarkByHand(p) PROVE PaymentInv'
  BY <1>t, <1>22 DEF MarkByHand
<1>23. ASSUME NEW p \in Procs, Die(p) PROVE PaymentInv'
  BY <1>t, <1>23 DEF Die
<1>24. ASSUME Provider PROVE PaymentInv'
  BY <1>t, <1>24 DEF Provider, ProviderMoves
<1>25. ASSUME LoseWebhook PROVE PaymentInv'
  BY <1>t, <1>25 DEF LoseWebhook
<1>26. ASSUME UNCHANGED vars PROVE PaymentInv'
  BY <1>t, <1>26 DEF vars
<1> QED
  BY <1>1, <1>2, <1>3, <1>4, <1>5, <1>6, <1>7, <1>8, <1>9, <1>10, <1>11, <1>12, <1>13,
     <1>14, <1>15, <1>16, <1>17, <1>18, <1>19, <1>20, <1>21, <1>22, <1>23, <1>24, <1>25, <1>26
     DEF Next, Checkout, Sync, Refund

-----------------------------------------------------------------------------

\* The invariant holds at first, and so always.
LEMMA InitInv == Init => PaymentInv
<1> SUFFICES ASSUME Init PROVE PaymentInv
  OBVIOUS
<1>1. TypeOK
  BY PaymentsAssumption DEF Init, TypeOK, Statuses, Open, Answers
<1>2. StatusIsTrue /\ RowInv
  BY DEF Init, StatusIsTrue, RowInv, HasMoney
<1>3. ASSUME NEW p \in Procs, NEW q \in Procs PROVE RequestInv(p) /\ AloneInv(p, q)
  BY DEF Init, RequestInv, AloneInv, CheckingOut, Delivering, TakingBack
<1> QED
  BY <1>1, <1>2, <1>3 DEF PaymentInv

\* The invariant of every behaviour.
LEMMA InvHolds == Spec => []PaymentInv
  BY InitInv, InvStep, PTL DEF Spec

\* Every variable keeps its type, for any number of requests and any faults.
THEOREM TypeCorrect == Spec => []TypeOK
<1>1. PaymentInv => TypeOK
  BY DEF PaymentInv
<1> QED
  BY <1>1, InvHolds, PTL

\* However many requests sync and refund a payment at once, and wherever they
\* die, the gold is delivered at most once and taken back at most once, and
\* only if it was delivered.
THEOREM NoDoubleDelivery == Spec => []DeliveredOnce
<1>1. PaymentInv => DeliveredOnce
  BY DEF PaymentInv, RowInv, DeliveredOnce
<1> QED
  BY <1>1, InvHolds, PTL

\* The row never claims money that the provider does not have or did not give
\* back, though requests act on old answers.
THEOREM StatusHolds == Spec => []StatusIsTrue
<1>1. PaymentInv => StatusIsTrue
  BY DEF PaymentInv
<1> QED
  BY <1>1, InvHolds, PTL

-----------------------------------------------------------------------------
\* Up to the first fault.

\* A request leaves the work it was given to do only when it has done it.
LEMMA WorkStep == PaymentInv /\ WorkInv /\ [Next]_vars => WorkInv'
<1> SUFFICES ASSUME PaymentInv, WorkInv, [Next]_vars PROVE WorkInv'
  OBVIOUS
<1> USE DEF PaymentInv, TypeOK, RowInv, RequestInv, AloneInv, Delivering, TakingBack,
            CheckingOut, Goto, Answer, Fault, ApiError, Open, HasMoney,
            WorkInv, Undelivered, NotTakenBack
<1>1. ASSUME NEW p \in Procs, Create(p) PROVE WorkInv'
  BY <1>1 DEF Create
<1>2. ASSUME NEW p \in Procs, CreateCheckout(p) PROVE WorkInv'
  BY <1>2 DEF CreateCheckout
<1>3. ASSUME NEW p \in Procs, CheckoutFails(p) PROVE WorkInv'
  BY <1>3 DEF CheckoutFails
<1>4. ASSUME NEW p \in Procs, SaveRef(p) PROVE WorkInv'
  BY <1>4 DEF SaveRef
<1>5. ASSUME NEW p \in Procs, HearWebhook(p) PROVE WorkInv'
  BY <1>5 DEF HearWebhook
<1>6. ASSUME NEW p \in Procs, Return(p) PROVE WorkInv'
  BY <1>6 DEF Return
<1>7. ASSUME NEW p \in Procs, Fetch(p) PROVE WorkInv'
  BY <1>7 DEF Fetch
<1>8. ASSUME NEW p \in Procs, Capture(p) PROVE WorkInv'
  BY <1>8 DEF Capture
<1>9. ASSUME NEW p \in Procs, FetchFails(p) PROVE WorkInv'
  BY <1>9 DEF FetchFails
<1>10. ASSUME NEW p \in Procs, ActPaid(p) PROVE WorkInv'
  BY <1>10 DEF ActPaid
<1>11. ASSUME NEW p \in Procs, ActRefunded(p) PROVE WorkInv'
  BY <1>11 DEF ActRefunded, TurnRefunded
<1>12. ASSUME NEW p \in Procs, ActOther(p) PROVE WorkInv'
  BY <1>12 DEF ActOther
<1>13. ASSUME NEW p \in Procs, Deliver(p) PROVE WorkInv'
  BY <1>13 DEF Deliver
<1>14. ASSUME NEW p \in Procs, Record(p) PROVE WorkInv'
  BY <1>14 DEF Record
<1>15. ASSUME NEW p \in Procs, TakeBack(p) PROVE WorkInv'
  BY <1>15 DEF TakeBack
<1>16. ASSUME NEW p \in Procs, Reverse(p) PROVE WorkInv'
  BY <1>16 DEF Reverse
<1>17. ASSUME NEW p \in Procs, Close(p) PROVE WorkInv'
  BY <1>17 DEF Close
<1>18. ASSUME NEW p \in Procs, StartRefund(p) PROVE WorkInv'
  BY <1>18 DEF StartRefund
<1>19. ASSUME NEW p \in Procs, ProviderRefunds(p) PROVE WorkInv'
  BY <1>19 DEF ProviderRefunds
<1>20. ASSUME NEW p \in Procs, RefundFails(p) PROVE WorkInv'
  BY <1>20 DEF RefundFails
<1>21. ASSUME NEW p \in Procs, Mark(p) PROVE WorkInv'
  BY <1>21 DEF Mark, TurnRefunded
<1>22. ASSUME NEW p \in Procs, MarkByHand(p) PROVE WorkInv'
  BY <1>22 DEF MarkByHand
<1>23. ASSUME NEW p \in Procs, Die(p) PROVE WorkInv'
  BY <1>23 DEF Die
<1>24. ASSUME Provider PROVE WorkInv'
  BY <1>24 DEF Provider
<1>25. ASSUME LoseWebhook PROVE WorkInv'
  BY <1>25 DEF LoseWebhook
<1>26. ASSUME UNCHANGED vars PROVE WorkInv'
  BY <1>26 DEF vars
<1> QED
  BY <1>1, <1>2, <1>3, <1>4, <1>5, <1>6, <1>7, <1>8, <1>9, <1>10, <1>11, <1>12, <1>13,
     <1>14, <1>15, <1>16, <1>17, <1>18, <1>19, <1>20, <1>21, <1>22, <1>23, <1>24, <1>25, <1>26
     DEF Next, Checkout, Sync, Refund

\* Both invariants together.
LEMMA WorkHolds == Spec => [](PaymentInv /\ WorkInv)
<1>1. Init => WorkInv
  BY DEF Init, WorkInv, HasMoney
<1> QED
  BY <1>1, InitInv, InvStep, WorkStep, PTL DEF Spec

\* Until something fails, a payment that says paid has been delivered, and gold
\* on record at the refund has been taken back, as soon as nobody is at work.
THEOREM WorkDone == Spec => []WorkIsDone
<1>1. WorkInv => WorkIsDone
  BY DEF WorkInv, Undelivered, NotTakenBack, HasMoney, WorkIsDone, Quiet
<1> QED
  BY <1>1, WorkHolds, PTL
=============================================================================
