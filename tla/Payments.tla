------------------------------ MODULE Payments ------------------------------
(***************************************************************************)
(* One payment for gold: r2/lib/payments/__init__.py with gold.py, and the *)
(* pages and webhooks of r2/controllers/payments.py that call it.          *)
(*                                                                         *)
(* Whatever a webhook, a buyer or an admin says, the site asks the         *)
(* provider for the payment's state and acts on the answer, which may be   *)
(* old by then.  Who changes the row's status with a conditional UPDATE    *)
(* does the work that goes with the change: delivers the gold, or takes it *)
(* back.  The payment providers are external: `prov` is what they know.    *)
(***************************************************************************)
EXTENDS Naturals, FiniteSets

CONSTANTS
    Procs,      \* web workers
    Faults,     \* what may go wrong, see FaultNames
    MaxFaults   \* bound: faults

FaultNames == {"die",       \* a request raises or its process dies
               "api",       \* the provider's API answers with an error
               "webhook"}   \* a webhook never reaches the site

ASSUME PaymentsAssumption == Faults \subseteq FaultNames /\ MaxFaults \in Nat

VARIABLES
    status,     \* the row's status; "none" before the row exists
    ref,        \* the row has its provider_ref: the buyer was sent to pay
    prov,       \* the state of the payment at the provider
    cue,        \* a webhook is on its way
    trans,      \* the purchase in the gold table
    pc,         \* what p's request is doing
    answer,     \* answer[p]: what the provider told p
    delivered,  \* history: times the gold was added to the account
    taken,      \* history: times it was subtracted
    owed,       \* history: the payment became refunded with the gold recorded
    faults      \* number of faults so far

vars == <<status, ref, prov, cue, trans, pc, answer, delivered, taken, owed, faults>>

Open == {"created", "pending"}
Statuses == Open \cup {"none", "paid", "failed", "expired", "refunded"}
Answers == {"nothing", "pending", "paid", "failed", "expired", "refunded"}

Init ==
    /\ status = "none" /\ ref = FALSE
    /\ prov = "none" /\ cue = FALSE
    /\ trans = "none"
    /\ pc = [p \in Procs |-> "idle"]
    /\ answer = [p \in Procs |-> "nothing"]
    /\ delivered = 0 /\ taken = 0 /\ owed = FALSE
    /\ faults = 0

Goto(p, from, to) == pc[p] = from /\ pc' = [pc EXCEPT ![p] = to]

Fault(kind) == kind \in Faults /\ faults < MaxFaults /\ faults' = faults + 1
ApiError == Fault("api")

-----------------------------------------------------------------------------
\* Checkout.

\* create_payment: the row.
Create(p) ==
    /\ status = "none"
    /\ Goto(p, "idle", "checkout")
    /\ status' = "created"
    /\ UNCHANGED <<ref, prov, cue, trans, answer, delivered, taken, owed, faults>>

\* start_checkout: the provider makes its checkout ...
CreateCheckout(p) ==
    /\ Goto(p, "checkout", "saving")
    /\ prov' = "open"
    /\ UNCHANGED <<status, ref, cue, trans, answer, delivered, taken, owed, faults>>

\* ... or an error, which may hide a checkout it made.
CheckoutFails(p) ==
    /\ ApiError
    /\ Goto(p, "checkout", "idle")
    /\ prov' \in {"none", "open"}
    /\ status' = "failed"
    /\ UNCHANGED <<ref, cue, trans, answer, delivered, taken, owed>>

\* The reference is saved, and the buyer is sent to the provider.
SaveRef(p) ==
    /\ Goto(p, "saving", "idle")
    /\ ref' = TRUE
    /\ UNCHANGED <<status, prov, cue, trans, answer, delivered, taken, owed, faults>>

-----------------------------------------------------------------------------
\* The provider, which sends a webhook with every change.

ProviderMoves == {<<"open", "approved">>, <<"open", "pending">>, <<"open", "paid">>,
                  <<"open", "expired">>, <<"pending", "paid">>, <<"pending", "failed">>,
                  <<"failed", "paid">>, <<"expired", "paid">>, <<"paid", "refunded">>}

\* Nobody can pay before the buyer has been sent to the provider.
Provider ==
    \E move \in ProviderMoves :
        /\ prov = move[1] /\ prov' = move[2]
        /\ ref \/ prov' = "expired"
        /\ cue' = TRUE
        /\ UNCHANGED <<status, ref, trans, pc, answer, delivered, taken, owed, faults>>

LoseWebhook ==
    /\ Fault("webhook") /\ cue
    /\ cue' = FALSE
    /\ UNCHANGED <<status, ref, prov, trans, pc, answer, delivered, taken, owed>>

-----------------------------------------------------------------------------
\* sync

\* POST_webhook; a payment without a provider_ref is left alone.
HearWebhook(p) ==
    /\ cue /\ cue' = FALSE
    /\ Goto(p, "idle", IF ref THEN "asking" ELSE "idle")
    /\ UNCHANGED <<status, ref, prov, trans, answer, delivered, taken, owed, faults>>

\* GET_return, which refreshes itself, and the admin's button.
Return(p) ==
    /\ ref
    /\ Goto(p, "idle", "asking")
    /\ UNCHANGED <<status, ref, prov, cue, trans, answer, delivered, taken, owed, faults>>

Answer(p, state) == answer' = [answer EXCEPT ![p] = state]

\* fetch_status
Fetch(p) ==
    /\ prov # "approved"
    /\ Goto(p, "asking", "acting")
    /\ Answer(p, IF prov \in Answers THEN prov ELSE "nothing")
    /\ UNCHANGED <<status, ref, prov, cue, trans, delivered, taken, owed, faults>>

\* PayPal's order is approved: the money is taken now, or the capture waits, is
\* declined or is refused (and the buyer may try again).
Capture(p) ==
    /\ prov = "approved"
    /\ Goto(p, "asking", "acting")
    /\ \/ /\ prov' \in {"paid", "pending", "failed"}
          /\ cue' = TRUE
          /\ Answer(p, prov')
       \/ Answer(p, "nothing") /\ UNCHANGED <<prov, cue>>
    /\ UNCHANGED <<status, ref, trans, delivered, taken, owed, faults>>

\* sync() logs a PaymentError and returns: the webhook is answered with "ok".
FetchFails(p) ==
    /\ ApiError
    /\ Goto(p, "asking", "idle")
    /\ UNCHANGED <<status, ref, prov, cue, trans, answer, delivered, taken, owed>>

\* Mutant: the status is read first and written without a condition.
ActPaid_Unconditional(p) ==
    /\ answer[p] = "paid"
    /\ Goto(p, "acting", "delivering")
    /\ status' = "paid"
    /\ UNCHANGED <<ref, prov, cue, trans, answer, delivered, taken, owed, faults>>

\* Mutant: a checkout that failed or expired is over.
ActPaid_OpenOnly(p) ==
    /\ answer[p] = "paid"
    /\ IF status \in Open
       THEN Goto(p, "acting", "delivering") /\ status' = "paid"
       ELSE Goto(p, "acting", "idle") /\ UNCHANGED status
    /\ UNCHANGED <<ref, prov, cue, trans, answer, delivered, taken, owed, faults>>

\* _apply_state: whoever's conditional UPDATE changes the row goes on.
ActPaid(p) ==
    /\ answer[p] = "paid"
    /\ IF status \in Open \cup {"failed", "expired"}
       THEN Goto(p, "acting", "delivering") /\ status' = "paid"
       ELSE Goto(p, "acting", "idle") /\ UNCHANGED status
    /\ UNCHANGED <<ref, prov, cue, trans, answer, delivered, taken, owed, faults>>

\* The conditional UPDATE of a refund.
TurnRefunded(p, from) ==
    IF status = "paid"
    THEN /\ Goto(p, from, "taking_back")
         /\ status' = "refunded"
         /\ owed' = (trans = "processed")
    ELSE Goto(p, from, "idle") /\ UNCHANGED <<status, owed>>

ActRefunded(p) ==
    /\ answer[p] = "refunded"
    /\ TurnRefunded(p, "acting")
    /\ UNCHANGED <<ref, prov, cue, trans, answer, delivered, taken, faults>>

\* Mutant: an answer of no known status is written too.
ActOther_Unknown(p) ==
    /\ answer[p] \in {"nothing", "pending", "failed", "expired"}
    /\ Goto(p, "acting", "idle")
    /\ status' = IF status \in Open THEN answer[p] ELSE status
    /\ UNCHANGED <<ref, prov, cue, trans, answer, delivered, taken, owed, faults>>

ActOther(p) ==
    /\ answer[p] \in {"nothing", "pending", "failed", "expired"}
    /\ Goto(p, "acting", "idle")
    /\ status' = IF answer[p] # "nothing" /\ status \in Open THEN answer[p] ELSE status
    /\ UNCHANGED <<ref, prov, cue, trans, answer, delivered, taken, owed, faults>>

-----------------------------------------------------------------------------
\* on_paid and on_refunded of gold.py.

\* complete_gold_purchase, under the account's lock: the gold ...
Deliver(p) ==
    /\ IF trans = "none"
       THEN Goto(p, "delivering", "recording") /\ delivered' = delivered + 1
       ELSE Goto(p, "delivering", "idle") /\ UNCHANGED delivered
    /\ UNCHANGED <<status, ref, prov, cue, trans, answer, taken, owed, faults>>

\* ... and then the row of the gold table.
Record(p) ==
    /\ Goto(p, "recording", "idle")
    /\ trans' = IF trans = "none" THEN "processed" ELSE trans
    /\ UNCHANGED <<status, ref, prov, cue, answer, delivered, taken, owed, faults>>

\* on_refunded reads the gold table.
TakeBack(p) ==
    /\ Goto(p, "taking_back", IF trans = "processed" THEN "reversing" ELSE "idle")
    /\ UNCHANGED <<status, ref, prov, cue, trans, answer, delivered, taken, owed, faults>>

\* Mutant: the gold of a reversed purchase is never subtracted.
Reverse_Skipped(p) ==
    /\ Goto(p, "reversing", "closing")
    /\ UNCHANGED <<status, ref, prov, cue, trans, answer, delivered, taken, owed, faults>>

\* reverse_gold_purchase, under the account's lock, then the gold table.
Reverse(p) ==
    /\ Goto(p, "reversing", "closing")
    /\ taken' = taken + 1
    /\ UNCHANGED <<status, ref, prov, cue, trans, answer, delivered, owed, faults>>

Close(p) ==
    /\ Goto(p, "closing", "idle")
    /\ trans' = "reversed"
    /\ UNCHANGED <<status, ref, prov, cue, answer, delivered, taken, owed, faults>>

-----------------------------------------------------------------------------
\* refund and mark_refunded.

\* Mutant: the row is marked before the provider refunds.
StartRefund_MarksFirst(p) ==
    /\ status = "paid"
    /\ Goto(p, "idle", "marking")
    /\ UNCHANGED <<status, ref, prov, cue, trans, answer, delivered, taken, owed, faults>>

\* An admin refunds a payment that was paid when its row was read.
StartRefund(p) ==
    /\ status = "paid"
    /\ Goto(p, "idle", "refunding")
    /\ UNCHANGED <<status, ref, prov, cue, trans, answer, delivered, taken, owed, faults>>

\* The provider refunds, once for each idempotency key.
ProviderRefunds(p) ==
    /\ prov \in {"paid", "refunded"}
    /\ Goto(p, "refunding", "marking")
    /\ prov' = "refunded"
    /\ cue' = (cue \/ prov = "paid")
    /\ UNCHANGED <<status, ref, trans, answer, delivered, taken, owed, faults>>

\* The refund is refused, or was made in the dashboard before.
RefundFails(p) ==
    /\ ApiError \/ (prov = "refunded" /\ UNCHANGED faults)
    /\ Goto(p, "refunding", "idle")
    /\ UNCHANGED <<status, ref, prov, cue, trans, answer, delivered, taken, owed>>

Mark(p) ==
    /\ TurnRefunded(p, "marking")
    /\ UNCHANGED <<ref, prov, cue, trans, answer, delivered, taken, faults>>

\* The admin marks a payment that was refunded in the provider's dashboard.
MarkByHand(p) ==
    /\ status = "paid" /\ prov = "refunded"
    /\ Goto(p, "idle", "marking")
    /\ UNCHANGED <<status, ref, prov, cue, trans, answer, delivered, taken, owed, faults>>

Die(p) ==
    /\ Fault("die") /\ pc[p] # "idle"
    /\ pc' = [pc EXCEPT ![p] = "idle"]
    /\ UNCHANGED <<status, ref, prov, cue, trans, answer, delivered, taken, owed>>

-----------------------------------------------------------------------------

Checkout(p) == Create(p) \/ CreateCheckout(p) \/ CheckoutFails(p) \/ SaveRef(p)

Sync(p) ==
    \/ Fetch(p) \/ Capture(p) \/ FetchFails(p)
    \/ ActPaid(p) \/ ActRefunded(p) \/ ActOther(p)
    \/ Deliver(p) \/ Record(p) \/ TakeBack(p) \/ Reverse(p) \/ Close(p)

Refund(p) == ProviderRefunds(p) \/ RefundFails(p) \/ Mark(p)

Next ==
    \/ Provider \/ LoseWebhook
    \/ \E p \in Procs :
          Checkout(p) \/ HearWebhook(p) \/ Return(p) \/ Sync(p)
          \/ StartRefund(p) \/ MarkByHand(p) \/ Refund(p) \/ Die(p)

Spec == Init /\ [][Next]_vars

\* Requests run to their end, and providers repeat a webhook until the site
\* answers it.  Nobody has to buy, to pay, to come back or to refund, and no
\* API has to fail.
Fairness ==
    /\ \A p \in Procs : WF_vars(Sync(p)) /\ WF_vars(Refund(p)) /\ WF_vars(SaveRef(p))
    /\ SF_vars(\E p \in Procs : HearWebhook(p))

FairSpec == Spec /\ Fairness

-----------------------------------------------------------------------------

TypeOK ==
    /\ status \in Statuses
    /\ ref \in BOOLEAN
    /\ prov \in {"none", "open", "approved"} \cup (Answers \ {"nothing"})
    /\ cue \in BOOLEAN
    /\ trans \in {"none", "processed", "reversed"}
    /\ pc \in [Procs -> {"idle", "checkout", "saving", "asking", "acting", "delivering",
                         "recording", "taking_back", "reversing", "closing",
                         "refunding", "marking"}]
    /\ answer \in [Procs -> Answers]
    /\ delivered \in Nat /\ taken \in Nat
    /\ owed \in BOOLEAN
    /\ faults \in Nat

\* Nobody is at work on the payment.
Quiet == \A p \in Procs : pc[p] = "idle"

\* "the purchase is delivered exactly once however many times the return page
\* and webhooks ask" (docs/gold-payments.md:65-66), and taken back at most once
\* and only if it was delivered: the half of the promise that a crash cannot
\* break.
DeliveredOnce == delivered <= 1 /\ taken <= delivered

\* "we never trust what we're told" (__init__.py:32): the row says paid only
\* if the provider has the money or had it, refunded only if the provider gave
\* it back, and gold is delivered only for money, however old the answers are
\* that the requests act on.
StatusIsTrue ==
    /\ status = "paid" => prov \in {"paid", "refunded"}
    /\ status = "refunded" => prov = "refunded"
    /\ delivered > 0 => prov \in {"paid", "refunded"}

\* Without faults nothing is left undone when nobody is at work: what was paid
\* is delivered, and gold on record when the payment became refunded is taken
\* back (gold.py:104-117), whoever's UPDATE it was that counted.
WorkIsDone ==
    Quiet /\ faults = 0 => /\ status = "paid" => delivered = 1
                           /\ owed => taken = 1

\* Without faults a payment the provider has the money for becomes paid, though
\* the buyer may never come back: the webhooks are enough.
PaidIsNoticed == prov = "paid" ~> status = "paid" \/ prov = "refunded" \/ faults > 0
=============================================================================
