----------------------------- MODULE AdPayments -----------------------------
(***************************************************************************)
(* One sponsored link with one campaign, and the payments for it:          *)
(* r2/lib/payments/ads.py, r2/lib/bids.py, r2/lib/promote.py.              *)
(*                                                                         *)
(* The advertiser pays the whole budget before the ad is reviewed.  A      *)
(* payment that arrives becomes a bid, and the campaign's transaction      *)
(* names the bid.  Whatever ends that (a new budget, another payment, a    *)
(* freebie, a rejection, a deletion, the provider's dashboard) is several  *)
(* writes to the provider, the payments table, the bids and the campaign,  *)
(* made by requests that take no common lock.  How a payment comes to be   *)
(* paid once, and refunded once, is the module Payments.                   *)
(***************************************************************************)
EXTENDS Integers, FiniteSets

CONSTANTS
    Requests,    \* web requests, and the hourly job, as processes
    Payments,    \* payments the advertiser may start
    Manual,      \* those of a provider that cannot refund (BitPay)
    Budgets,     \* budgets the campaign may have, in pennies
    Unspent,     \* what the refund page finds the ad did not spend
    None,        \* no payment; NO_TRANSACTION
    Free,        \* the transaction of a freebie
    Loads,       \* bounds: how many requests work at once, and in all
    MaxFaults    \* bound: refunds the provider refuses, and crashes

ASSUME AdAssumption ==
    /\ Manual \subseteq Payments
    /\ None \notin Payments /\ Free \notin Payments /\ None # Free
    /\ Budgets \subseteq Nat \ {0} /\ Budgets # {} /\ Unspent \in Nat \ {0}
    /\ \A l \in Loads : l \in [atonce : Nat, inall : Nat]
    /\ MaxFaults \in Nat

VARIABLES
    campaign,   \* the campaign: budget, trans, deleted, served, and whether
                \* PromotionWeights list it
    link,       \* the link: its promote_status, and whether it is deleted
    when,       \* where the campaign's dates are
    row,        \* row[p]: the payment's status, price and refunded_pennies
    sent,       \* sent[p]: pennies the provider has sent back
    keys,       \* keys[p]: idempotency keys of partial refunds it has seen
    bid,        \* bid[t]: status of transaction t's bid
    byhand,     \* payments somebody has been told to refund by hand
    req,        \* req[r]: what r does, where it is, and what it has read
    load,       \* the bounds of this behaviour
    work,       \* requests started
    refusals,   \* refunds the provider refused
    crashes,    \* requests that died in the middle
    overlap     \* two requests (the job aside) have been at work at once

vars == <<campaign, link, when, row, sent, keys, bid, byhand, req, load, work, refusals,
          crashes, overlap>>
money == <<row, sent, keys, byhand>>
past == <<load, work, overlap>>
faults == <<refusals, crashes>>

Transactions == Payments \cup {Free}
Steps == {"idle", "loading", "refusing", "refused", "voiding", "marking", "unbidding",
          "clearing", "booking", "attaching", "reviewing", "budgeting", "deleting",
          "freeing", "naming", "unpaying", "rejecting", "charging", "queueing",
          "promoting", "launching", "expiring", "returning", "noting", "closing"}
Operations == {"none", "pay", "edit", "delete", "free", "unpay", "reject", "accept",
               "job", "refund"}

\* PROMOTE_STATUS, in its order.
Statuses == <<"unpaid", "unseen", "accepted", "rejected", "pending", "promoted",
              "finished", "edited_live">>
Status == {Statuses[i] : i \in 1 .. 8}
Rank(s) == CHOOSE i \in 1 .. 8 : Statuses[i] = s

Campaign == [budget : Budgets, trans : Transactions \cup {None}, deleted : BOOLEAN,
             served : BOOLEAN, listed : BOOLEAN]
Link == [status : Status, deleted : BOOLEAN]
Row == [status : {"none", "open", "paid", "refunded"}, price : Budgets \cup {0},
        back : Nat]

NewAd == [status |-> "unpaid", deleted |-> FALSE]
Idle ==
    [op |-> "none", pc |-> "idle", pay |-> None, new |-> 0, trans |-> None,
     link |-> NewAd, live |-> FALSE, already |-> 0]

Init ==
    /\ \E b \in Budgets :
          campaign = [budget |-> b, trans |-> None, deleted |-> FALSE, served |-> FALSE,
                      listed |-> TRUE]
    /\ link = NewAd
    /\ when = "pending"
    /\ row = [p \in Payments |-> [status |-> "none", price |-> 0, back |-> 0]]
    /\ sent = [p \in Payments |-> 0]
    /\ keys = [p \in Payments |-> {}]
    /\ bid = [t \in Transactions |-> "none"]
    /\ byhand = {}
    /\ req = [r \in Requests |-> Idle]
    /\ load \in Loads
    /\ work = 0 /\ refusals = 0 /\ crashes = 0
    /\ overlap = FALSE

-----------------------------------------------------------------------------
\* promote.py's questions, of a link l and a campaign c.

IsRejected(l) == ~l.deleted /\ l.status = "rejected"
IsPromoted(l) == ~l.deleted /\ l.status = "promoted"
IsFinished(l) == ~l.deleted /\ l.status = "finished"
IsAccepted(l) ==
    ~l.deleted /\ l.status \in {"accepted", "pending", "promoted", "finished"}

IsCharged(t) == t # None /\ bid[t] \in {"charge", "refund"}
IsAcceptedPromo(l, c) == when = "running" /\ IsAccepted(l) /\ c.trans # None
IsScheduledPromo(l, c) == IsAcceptedPromo(l, c) /\ IsCharged(c.trans)
IsLivePromo(l, c) == IsPromoted(l) /\ IsScheduledPromo(l, c)

\* on_paid, checkout: the campaign is paid for.
PaidFor(c) == c.trans # None /\ bid[c.trans] = "charge"

-----------------------------------------------------------------------------
\* Starting a request, and going on in it.

Busy == {r \in Requests : req[r].pc # "idle"}

\* r starts op at step pc, with the campaign's transaction and the link in hand.
Begin(r, op, pc, p, new) ==
    /\ req[r].pc = "idle" /\ Cardinality(Busy) < load.atonce /\ work < load.inall
    /\ work' = work + 1
    /\ UNCHANGED load
    /\ overlap' = (overlap \/ (op # "job" /\ \E q \in Busy : req[q].op # "job"))
    /\ req' = [req EXCEPT ![r] =
                 [op |-> op, pc |-> pc, pay |-> p, new |-> new, trans |-> campaign.trans,
                  link |-> link', live |-> FALSE, already |-> 0]]

Goto(r, pc) == req' = [req EXCEPT ![r].pc = pc]
Done(r) == req' = [req EXCEPT ![r] = Idle]

\* The advertiser goes to the provider's page.
Checkout(p) ==
    /\ row[p].status = "none" /\ when = "pending"
    /\ ~campaign.deleted /\ ~link.deleted /\ ~PaidFor(campaign)
    /\ row' = [row EXCEPT ![p] = [status |-> "open", price |-> campaign.budget, back |-> 0]]
    /\ UNCHANGED <<campaign, link, when, sent, keys, bid, byhand, req, past, faults>>

\* A sync finds the payment paid; the request that wins the row calls on_paid.
Pay(r, p) ==
    /\ row[p].status = "open"
    /\ row' = [row EXCEPT ![p].status = "paid"]
    /\ UNCHANGED <<campaign, link, when, sent, keys, bid, byhand, faults>>
    /\ Begin(r, "pay", "loading", p, 0)

\* The payment is refunded in the provider's dashboard, or by an admin.
Unpay(r, p) ==
    /\ row[p].status = "paid"
    /\ row' = [row EXCEPT ![p].status = "refunded"]
    /\ sent' = [sent EXCEPT ![p] = row[p].price]
    /\ UNCHANGED <<campaign, link, when, keys, bid, byhand, faults>>
    /\ Begin(r, "unpay", "unpaying", p, 0)

\* POST_edit_campaign with another budget, which a live ad's may not be.
Edit(r, b) ==
    /\ ~campaign.deleted /\ b # campaign.budget
    /\ IsLivePromo(link, campaign) => campaign.trans = Free
    /\ UNCHANGED <<campaign, link, when, money, bid, faults>>
    /\ Begin(r, "edit", "voiding", None, b)

Delete(r) ==
    /\ ~campaign.deleted
    /\ campaign' = [campaign EXCEPT !.listed = FALSE]
    /\ UNCHANGED <<link, when, money, bid, faults>>
    /\ Begin(r, "delete", "voiding", None, 0)

GiveFree(r) ==
    /\ ~campaign.deleted /\ ~link.deleted
    /\ UNCHANGED <<campaign, link, when, money, bid, faults>>
    /\ Begin(r, "free", "voiding", None, 0)

\* reject_promotion; is_rejected comes first.
Reject(r) ==
    /\ ~link.deleted /\ ~IsRejected(link)
    /\ link' = [link EXCEPT !.status = "rejected"]
    /\ UNCHANGED <<campaign, when, money, bid, faults>>
    /\ Begin(r, "reject", "rejecting", None, 0)

\* POST_del: the ad is rejected unless it is live.
DeleteLink(r) ==
    /\ ~link.deleted
    /\ link' = [link EXCEPT !.deleted = TRUE,
                            !.status = IF @ = "promoted" THEN @ ELSE "rejected"]
    /\ UNCHANGED <<campaign, when, money, bid, faults>>
    /\ IF link.status = "promoted"
       THEN UNCHANGED <<req, past>>
       ELSE Begin(r, "reject", "rejecting", None, 0)

Accept(r) ==
    /\ ~link.deleted
    /\ link' = [link EXCEPT !.status = "accepted"]
    /\ UNCHANGED <<campaign, when, money, bid, faults>>
    /\ Begin(r, "accept", IF link.status = "edited_live" THEN "promoting" ELSE "charging",
             None, 0)

\* The advertiser changes a live ad.
EditLive ==
    /\ IsPromoted(link)
    /\ link' = [link EXCEPT !.status = "edited_live"]
    /\ UNCHANGED <<campaign, when, money, bid, req, past, faults>>

\* terminate_campaign: the end date becomes now, the budget stays (two commits,
\* which no step below tells apart).
Terminate ==
    /\ IsLivePromo(link, campaign)
    /\ when' = "over"
    /\ link' = [link EXCEPT !.status = "finished"]
    /\ UNCHANGED <<campaign, money, bid, req, past, faults>>

\* make_daily_promotions; a timer starts one at a time.
StartJob(r) ==
    /\ \A q \in Busy : req[q].op # "job"
    /\ UNCHANGED <<campaign, link, when, money, bid, faults>>
    /\ Begin(r, "job", "charging", None, 0)

\* POST_refund_campaign: the page offers what a completed campaign did not spend,
\* once, but the handler looks at none of that; a page that is out of date, or sent
\* twice, refunds all the same.  A freebie's bid has no payment behind it.
Refund(r) ==
    /\ campaign.trans # None
    /\ UNCHANGED <<campaign, link, when, money, bid, faults>>
    /\ Begin(r, "refund", IF campaign.trans = Free THEN "closing" ELSE "returning", None, 0)

\* Time passes; a live ad is shown.
Show ==
    /\ IsLivePromo(link, campaign) /\ ~campaign.served
    /\ campaign' = [campaign EXCEPT !.served = TRUE]
    /\ UNCHANGED <<link, when, money, bid, req, past, faults>>

DayPasses ==
    /\ \/ when = "pending" /\ when' = "running"
       \/ when = "running" /\ when' = "over"
    /\ UNCHANGED <<campaign, link, money, bid, req, past, faults>>

-----------------------------------------------------------------------------
\* void_campaign, with the campaign the request has in hand.

\* Mutant: a payment that replaces another is named before it has a bid.
After_NoBid(r) == CASE req[r].op = "pay" -> "attaching" [] req[r].op = "edit" -> "budgeting"
              [] req[r].op = "delete" -> "deleting" [] req[r].op = "free" -> "freeing"
              [] OTHER -> "ended"

After(r) == CASE req[r].op = "pay" -> "booking" [] req[r].op = "edit" -> "budgeting"
              [] req[r].op = "delete" -> "deleting" [] req[r].op = "free" -> "freeing"
              [] OTHER -> "ended"

\* The provider takes the rest of the price back to the buyer, or refuses.
Accepts(p) == sent' = [sent EXCEPT ![p] = row[p].price] /\ UNCHANGED <<byhand, refusals>>
Refuses(p) ==
    /\ refusals + crashes < MaxFaults
    /\ refusals' = refusals + 1
    /\ byhand' = byhand \cup {p}
    /\ UNCHANGED sent

Void(r) ==
    LET t == req[r].trans
    IN  /\ req[r].pc = "voiding"
        /\ bid' = IF t = Free THEN [bid EXCEPT ![t] = "void"] ELSE bid
        /\ \/ /\ t \notin Payments
              /\ Goto(r, IF t = Free THEN "clearing" ELSE After(r))
              /\ UNCHANGED <<sent, byhand, refusals>>
           \/ /\ t \in Payments /\ row[t].status = "refunded"
              /\ Goto(r, "unbidding")
              /\ UNCHANGED <<sent, byhand, refusals>>
           \/ /\ t \in Payments /\ row[t].status = "paid" /\ t \in Manual
              /\ byhand' = byhand \cup {t}
              /\ Goto(r, "unbidding")
              /\ UNCHANGED <<sent, refusals>>
           \/ /\ t \in Payments /\ row[t].status = "paid" /\ t \notin Manual
              /\ \/ Accepts(t) /\ Goto(r, "marking")
                 \/ Refuses(t) /\ Goto(r, "clearing")
        /\ UNCHANGED <<campaign, link, when, row, keys, past, crashes>>

\* mark_refunded, without take_back.
Mark(r) ==
    /\ req[r].pc = "marking"
    /\ row' = [row EXCEPT ![req[r].trans].status = "refunded"]
    /\ Goto(r, "unbidding")
    /\ UNCHANGED <<campaign, link, when, sent, keys, byhand, bid, past, faults>>

Unbid(r) ==
    /\ req[r].pc = "unbidding"
    /\ bid' = [bid EXCEPT ![req[r].trans] = "void"]
    /\ Goto(r, "clearing")
    /\ UNCHANGED <<campaign, link, when, money, past, faults>>

\* Mutant: the form's budget is committed with it, whatever the form.
Clear_Form(r) ==
    /\ req[r].pc = "clearing"
    /\ campaign' = [campaign EXCEPT !.trans = None, !.budget = req[r].new]
    /\ UNCHANGED <<link, when, money, bid, past, faults>>
    /\ IF After(r) = "ended" THEN Done(r) ELSE Goto(r, After(r))

Clear(r) ==
    /\ req[r].pc = "clearing"
    /\ campaign' = [campaign EXCEPT !.trans = None]
    /\ UNCHANGED <<link, when, money, bid, past, faults>>
    /\ IF After(r) = "ended" THEN Done(r) ELSE Goto(r, After(r))

-----------------------------------------------------------------------------
\* on_paid

\* Mutant: the price is not compared with the budget of now.
Load_AnyPrice(r) ==
    /\ req[r].pc = "loading"
    /\ req' = [req EXCEPT ![r].trans = campaign.trans, ![r].link = link,
                  ![r].pc = IF campaign.deleted \/ PaidFor(campaign) THEN "refusing"
                            ELSE "voiding"]
    /\ UNCHANGED <<campaign, link, when, money, bid, past, faults>>

\* The link and the campaign are loaded, and the payment is held against them.
Load(r) ==
    LET p == req[r].pay
    IN  /\ req[r].pc = "loading"
        /\ req' = [req EXCEPT ![r].trans = campaign.trans, ![r].link = link,
                      ![r].pc = IF \/ campaign.deleted \/ row[p].price # campaign.budget
                                   \/ PaidFor(campaign)
                                THEN "refusing" ELSE "voiding"]
        /\ UNCHANGED <<campaign, link, when, money, bid, past, faults>>

\* _refund_unwanted
Unwanted(r) ==
    LET p == req[r].pay
    IN  /\ req[r].pc = "refusing"
        /\ \/ p \notin Manual /\ Accepts(p) /\ Goto(r, "refused")
           \/ p \notin Manual /\ Refuses(p) /\ Done(r)
           \/ /\ p \in Manual /\ byhand' = byhand \cup {p} /\ Done(r)
              /\ UNCHANGED <<sent, refusals>>
        /\ UNCHANGED <<campaign, link, when, row, keys, bid, past, crashes>>

MarkUnwanted(r) ==
    /\ req[r].pc = "refused"
    /\ row' = [row EXCEPT ![req[r].pay].status = "refunded"]
    /\ Done(r)
    /\ UNCHANGED <<campaign, link, when, sent, keys, byhand, bid, past, faults>>

\* Bid._new, then charged(): two commits, which no step tells apart, since the
\* campaign does not name the bid yet.
Book(r) ==
    /\ req[r].pc = "booking"
    /\ bid' = [bid EXCEPT ![req[r].pay] = "charge"]
    /\ Goto(r, "attaching")
    /\ UNCHANGED <<campaign, link, when, money, past, faults>>

Attach(r) ==
    /\ req[r].pc = "attaching"
    /\ campaign' = [campaign EXCEPT !.trans = req[r].pay]
    /\ Goto(r, "reviewing")
    /\ UNCHANGED <<link, when, money, bid, past, faults>>

\* A finished ad needs no second review; else the status only moves forward.
StatusAfter(l) ==
    IF IsFinished(l) THEN "accepted"
    ELSE IF Rank(l.status) < Rank("unseen") THEN "unseen" ELSE l.status

Review(r) ==
    /\ req[r].pc = "reviewing"
    /\ link' = [link EXCEPT !.status = StatusAfter(req[r].link)]
    /\ UNCHANGED <<campaign, when, money, bid, past, faults>>
    /\ IF req[r].op = "free" THEN Goto(r, "naming") ELSE Done(r)

-----------------------------------------------------------------------------
\* The other operations, after the void or without one.

SetBudget(r) ==
    /\ req[r].pc = "budgeting"
    /\ campaign' = [campaign EXCEPT !.budget = req[r].new]
    /\ Done(r)
    /\ UNCHANGED <<link, when, money, bid, past, faults>>

SetDeleted(r) ==
    /\ req[r].pc = "deleting"
    /\ campaign' = [campaign EXCEPT !.deleted = TRUE]
    /\ Done(r)
    /\ UNCHANGED <<link, when, money, bid, past, faults>>

\* auth_freebie_transaction; the status is next, the campaign comes last.
FreeBid(r) ==
    /\ req[r].pc = "freeing"
    /\ bid' = [bid EXCEPT ![Free] = "auth"]
    /\ Goto(r, "reviewing")
    /\ UNCHANGED <<campaign, link, when, money, past, faults>>

Name(r) ==
    /\ req[r].pc = "naming"
    /\ campaign' = [campaign EXCEPT !.trans = Free]
    /\ Done(r)
    /\ UNCHANGED <<link, when, money, bid, past, faults>>

\* Mutant: only a bid that is not charged yet is voided.
OnRefunded_Auth(r) ==
    LET mine == ~campaign.deleted /\ campaign.trans = req[r].pay /\ bid[req[r].pay] = "auth"
    IN  /\ req[r].pc = "unpaying"
        /\ bid' = IF mine THEN [bid EXCEPT ![req[r].pay] = "void"] ELSE bid
        /\ UNCHANGED <<campaign, link, when, money, past, faults>>
        /\ IF mine THEN Goto(r, "clearing") ELSE Done(r)

\* on_refunded: a deleted campaign, or another transaction, is left alone.
OnRefunded(r) ==
    LET mine == ~campaign.deleted /\ campaign.trans = req[r].pay
    IN  /\ req[r].pc = "unpaying"
        /\ bid' = IF mine THEN [bid EXCEPT ![req[r].pay] = "void"] ELSE bid
        /\ UNCHANGED <<campaign, link, when, money, past, faults>>
        /\ IF mine THEN Goto(r, "clearing") ELSE Done(r)

\* refund_unserved_campaigns
Rejecting(r) ==
    /\ req[r].pc = "rejecting"
    /\ UNCHANGED <<campaign, link, when, money, bid, past, faults>>
    /\ IF /\ campaign.trans \in Payments /\ bid[campaign.trans] # "void"
          /\ ~campaign.deleted /\ ~campaign.served
       THEN req' = [req EXCEPT ![r].trans = campaign.trans, ![r].pc = "voiding"]
       ELSE Done(r)

\* charge_campaign, for an accepted ad: by the job when the campaign starts
\* today or tomorrow, by accept_promotion when it runs.
ToCharge(r) ==
    IF req[r].op = "job"
    THEN campaign.listed /\ IsAccepted(link) /\ when # "over" /\ campaign.trans # None
    ELSE ~campaign.deleted /\ IsAcceptedPromo(req[r].link, campaign)

Charge(r) ==
    LET due == ToCharge(r) /\ ~IsCharged(campaign.trans)
    IN  /\ req[r].pc = "charging"
        /\ \/ due /\ bid' = [bid EXCEPT ![campaign.trans] = "charge"]
              /\ req' = [req EXCEPT ![r].pc = "queueing",
                            ![r].link = IF req[r].op = "job" THEN link ELSE @]
           \/ (due => when = "pending") /\ UNCHANGED bid /\ Goto(r, "promoting")
        /\ UNCHANGED <<campaign, link, when, money, past, faults>>

\* The status, from the link in hand.
Queue(r) ==
    /\ req[r].pc = "queueing"
    /\ link' = IF IsPromoted(req[r].link) THEN link ELSE [link EXCEPT !.status = "pending"]
    /\ Goto(r, "promoting")
    /\ UNCHANGED <<campaign, when, money, bid, past, faults>>

\* Is it to be shown now?  The job looks again.
Promote(r) ==
    LET l == IF req[r].op = "job" THEN link ELSE req[r].link
        run == /\ IF req[r].op = "job" THEN campaign.listed ELSE ~campaign.deleted
               /\ IsScheduledPromo(l, campaign)
    IN  /\ req[r].pc = "promoting"
        /\ UNCHANGED <<campaign, link, when, money, bid, past, faults>>
        /\ IF run
           THEN req' = [req EXCEPT ![r].pc = "launching", ![r].link = l, ![r].live = TRUE]
           ELSE IF req[r].op = "job" THEN Goto(r, "expiring") ELSE Done(r)

\* promote_link
Launch(r) ==
    /\ req[r].pc = "launching"
    /\ link' = IF IsPromoted(req[r].link) THEN link ELSE [link EXCEPT !.status = "promoted"]
    /\ UNCHANGED <<campaign, when, money, bid, past, faults>>
    /\ IF req[r].op = "job" THEN Goto(r, "expiring") ELSE Done(r)

\* A promoted link that had nothing to show is finished.
Expire(r) ==
    /\ req[r].pc = "expiring"
    /\ link' = IF IsPromoted(link) /\ ~req[r].live
               THEN [link EXCEPT !.status = "finished"] ELSE link
    /\ UNCHANGED <<campaign, when, money, bid, past, faults>>
    /\ Done(r)

-----------------------------------------------------------------------------
\* refund_campaign: a part of the price, or all that is left of it.

Total(r) == req[r].already + Unspent

\* The provider sends a part back once per key.
SendPart(p, key) ==
    /\ key \in keys[p] \/ sent[p] + Unspent <= row[p].price
    /\ sent' = [sent EXCEPT ![p] = IF key \in keys[p] THEN @ ELSE @ + Unspent]
    /\ keys' = [keys EXCEPT ![p] = @ \cup {key}]

Return(r) ==
    LET p == req[r].trans
        already == row[p].back
        note(pc) == req' = [req EXCEPT ![r].pc = pc, ![r].already = already]
    IN  /\ req[r].pc = "returning"
        /\ \/ /\ row[p].status = "refunded"
              /\ note("closing") /\ UNCHANGED <<sent, keys, byhand>>
           \/ /\ row[p].status = "paid" /\ p \in Manual
              /\ byhand' = byhand \cup {p}
              /\ note("closing") /\ UNCHANGED <<sent, keys>>
           \/ /\ row[p].status = "paid" /\ p \notin Manual
              /\ already + Unspent < row[p].price
              /\ SendPart(p, already + Unspent)
              /\ note("noting") /\ UNCHANGED byhand
           \/ /\ row[p].status = "paid" /\ p \notin Manual
              /\ already + Unspent >= row[p].price
              /\ sent' = [sent EXCEPT ![p] = row[p].price]
              /\ note("noting") /\ UNCHANGED <<keys, byhand>>
        /\ UNCHANGED <<campaign, link, when, row, bid, past, faults>>

\* The provider refuses: the page says so.
ReturnFails(r) ==
    /\ req[r].pc = "returning"
    /\ row[req[r].trans].status = "paid" /\ req[r].trans \notin Manual
    /\ Done(r)
    /\ UNCHANGED <<campaign, link, when, money, bid, past, faults>>

\* A part is noted in the row's data; all of it marks the row.
Note(r) ==
    LET p == req[r].trans
    IN  /\ req[r].pc = "noting"
        /\ row' = IF Total(r) < row[p].price
                  THEN [row EXCEPT ![p].back = Total(r)]
                  ELSE [row EXCEPT ![p].status = "refunded"]
        /\ Goto(r, "closing")
        /\ UNCHANGED <<campaign, link, when, sent, keys, byhand, bid, past, faults>>

\* Bid.refund, and the campaign's refund_amount.
Close(r) ==
    /\ req[r].pc = "closing"
    /\ bid' = [bid EXCEPT ![req[r].trans] = "refund"]
    /\ UNCHANGED <<campaign, link, when, money, past, faults>>
    /\ Done(r)

-----------------------------------------------------------------------------

\* The process dies in the middle.
Crash(r) ==
    /\ req[r].pc # "idle" /\ refusals + crashes < MaxFaults
    /\ crashes' = crashes + 1
    /\ UNCHANGED <<campaign, link, when, money, bid, past, refusals>>
    /\ Done(r)

Start(r) ==
    \/ \E p \in Payments : Pay(r, p) \/ Unpay(r, p)
    \/ \E b \in Budgets : Edit(r, b)
    \/ Delete(r) \/ GiveFree(r) \/ Reject(r) \/ DeleteLink(r) \/ Accept(r)
    \/ StartJob(r) \/ Refund(r)

Step(r) ==
    \/ Void(r) \/ Mark(r) \/ Unbid(r) \/ Clear(r) \/ Load(r) \/ Unwanted(r)
    \/ MarkUnwanted(r) \/ Book(r) \/ Attach(r) \/ Review(r) \/ SetBudget(r)
    \/ SetDeleted(r) \/ FreeBid(r) \/ Name(r) \/ OnRefunded(r) \/ Rejecting(r)
    \/ Charge(r) \/ Queue(r) \/ Promote(r) \/ Launch(r) \/ Expire(r)
    \/ Return(r) \/ ReturnFails(r) \/ Note(r) \/ Close(r)

Next ==
    \/ \E p \in Payments : Checkout(p)
    \/ \E r \in Requests : Start(r) \/ Step(r) \/ Crash(r)
    \/ EditLive \/ Terminate \/ Show \/ DayPasses

Spec == Init /\ [][Next]_vars

-----------------------------------------------------------------------------

Request == [op : Operations, pc : Steps, pay : Payments \cup {None}, new : Budgets \cup {0},
            trans : Transactions \cup {None}, link : Link, live : BOOLEAN, already : Nat]

TypeOK ==
    /\ campaign \in Campaign
    /\ link \in Link
    /\ when \in {"pending", "running", "over"}
    /\ row \in [Payments -> Row]
    /\ sent \in [Payments -> Nat]
    /\ keys \in [Payments -> SUBSET Nat]
    /\ bid \in [Transactions -> {"none", "auth", "charge", "refund", "void"}]
    /\ byhand \subseteq Payments
    /\ req \in [Requests -> Request]
    /\ load \in Loads /\ work \in Nat /\ refusals \in Nat /\ crashes \in Nat
    /\ overlap \in BOOLEAN

Quiet == Busy = {}

\* A transaction that a campaign names has its bid, or get_transactions raises a
\* KeyError on every page of the ad; and a bid has a payment behind it that was
\* paid.  This holds whatever overlaps and dies (ads.py:162-169, promote.py:355).
TransactionsAreBacked ==
    /\ campaign.trans # None => bid[campaign.trans] # "none"
    /\ \A p \in Payments : bid[p] # "none" => row[p].status \in {"paid", "refunded"}

\* Money that is kept is the campaign's.  When no request is at work and none has
\* died, the row of a payment the site keeps never says more was refunded than the
\* provider sent back; and unless requests overlapped it says just that, and the
\* payment is the one the campaign runs on, at the campaign's budget, or somebody
\* has been told to refund it by hand.  Requests that overlap may both keep their
\* payment, and three refunds of one campaign may lose a note (the last writes what
\* the first sent): "How much of a paid payment has been refunded in part so far"
\* (payments/__init__.py:487) is then too little.
KeptMoneyIsTheCampaigns ==
    Quiet /\ crashes = 0 =>
        \A p \in Payments : row[p].status = "paid" =>
            /\ row[p].back <= sent[p]
            /\ overlap \/ row[p].back = sent[p]
            /\ overlap \/ p \in byhand
               \/ /\ campaign.trans = p /\ bid[p] \in {"charge", "refund"}
                  /\ ~campaign.deleted /\ row[p].price = campaign.budget

\* What is shown is paid for: when no request is at work, and none has overlapped
\* or died, a live campaign is a freebie or its payment has not been refunded
\* ("A refund made in the provider's dashboard unpays the campaign", ads.py:35).
\* One whose unspent part was returned counts as charged (bids.py:55), even if it
\* had not been shown yet and all of it was returned.
LiveIsPaidFor ==
    Quiet /\ crashes = 0 /\ ~overlap /\ IsLivePromo(link, campaign) =>
        campaign.trans = Free \/ bid[campaign.trans] = "refund"
        \/ row[campaign.trans].status = "paid"
=============================================================================
