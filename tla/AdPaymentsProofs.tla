--------------------------- MODULE AdPaymentsProofs ---------------------------
(* A campaign's transaction always has its bid, and a bid its payment, for any  *)
(* number of requests and payments, whatever overlaps and dies; and the money    *)
(* that is kept is the campaign's, where no requests overlap and none dies.      *)
EXTENDS AdPayments, TLAPS

Has(t) == bid[t] # "none"
IsPaid(p) == row[p].status \in {"paid", "refunded"}

\* What a request knows of the transaction and the payment it has in hand: its
\* transaction had a bid when it was read, and bids are never taken away; its
\* payment was paid; it names only what it has booked; the budget it commits is
\* one its form allows.
Knows(r) ==
    /\ req[r].trans # None => Has(req[r].trans)
    /\ req[r].op = "pay" => req[r].pay \in Payments /\ IsPaid(req[r].pay)
    /\ req[r].op # "pay" =>
          req[r].pc \notin {"loading", "refusing", "refused", "booking", "attaching"}
    /\ req[r].pc = "attaching" => Has(req[r].pay)
    /\ req[r].pc = "voiding" /\ req[r].trans = None =>
          req[r].op \in {"pay", "edit", "delete", "free"}
    /\ req[r].pc = "naming" => Has(Free)
    /\ req[r].op = "free" /\ req[r].pc = "reviewing" => Has(Free)
    /\ req[r].pc \in {"marking", "unbidding", "returning", "noting"} =>
          req[r].trans \in Payments
    /\ req[r].pc = "closing" => req[r].trans # None
    /\ req[r].pc = "unpaying" => req[r].pay \in Payments
    /\ req[r].op = "edit" => req[r].new \in Budgets
    /\ req[r].pc = "budgeting" => req[r].op = "edit"

RequestInv == \A r \in Requests : Knows(r)

AdInv == TypeOK /\ TransactionsAreBacked /\ RequestInv

\* Bids and payments never go back.
Grows ==
    /\ \A t \in Transactions : Has(t) => Has(t)'
    /\ \A p \in Payments : IsPaid(p) => IsPaid(p)'

\* What the other requests know stays true.
LEMMA OthersKnow ==
    ASSUME AdInv, Grows, NEW r \in Requests, Knows(r)',
           \A q \in Requests \ {r} : req'[q] = req[q]
    PROVE  RequestInv'
<1> SUFFICES ASSUME NEW q \in Requests, q # r PROVE Knows(q)'
  BY DEF RequestInv
<1>1. /\ req'[q] = req[q] /\ Knows(q)
      /\ req[q].trans \in Transactions \cup {None} /\ req[q].pay \in Payments \cup {None}
  BY DEF AdInv, RequestInv, TypeOK, Request
<1>2. Free \in Transactions /\ Payments \subseteq Transactions
  BY DEF Transactions
<1> QED BY <1>1, <1>2, AdAssumption DEF Knows, Grows

\* Requests that begin have what the campaign names in hand.
LEMMA Begins ==
    ASSUME AdInv, Grows, NEW r \in Requests, NEW op \in Operations, NEW pc \in Steps,
           NEW p \in Payments \cup {None}, NEW new \in Budgets \cup {0},
           Begin(r, op, pc, p, new), link' \in Link,
           op = "pay" => p \in Payments /\ IsPaid(p)',
           pc \in {"loading", "unpaying"} => p \in Payments /\ op \in {"pay", "unpay"},
           pc = "loading" => op = "pay",
           op = "edit" => new \in Budgets,
           pc = "voiding" => op \in {"edit", "delete", "free"},
           pc = "returning" => campaign.trans \in Payments,
           pc = "closing" => campaign.trans # None,
           pc \in {"loading", "unpaying", "voiding", "rejecting", "promoting", "charging",
                   "returning", "closing"}
    PROVE  /\ req' \in [Requests -> Request] /\ load' = load /\ work' \in Nat
           /\ overlap' \in BOOLEAN
           /\ RequestInv'
<1>1. req'[r] = [op |-> op, pc |-> pc, pay |-> p, new |-> new, trans |-> campaign.trans,
                 link |-> link', live |-> FALSE, already |-> 0]
      /\ \A q \in Requests \ {r} : req'[q] = req[q]
  BY DEF Begin, AdInv, TypeOK
<1>2. req' \in [Requests -> Request] /\ load' = load /\ work' \in Nat /\ overlap' \in BOOLEAN
  BY <1>1 DEF Begin, AdInv, TypeOK, Request, Campaign
<1>3. campaign.trans # None => bid'[campaign.trans] # "none"
  BY DEF AdInv, TypeOK, Campaign, TransactionsAreBacked, Grows, Has
<1>4. Knows(r)'
  BY <1>1, <1>3 DEF Knows, Has, IsPaid, Operations
<1> QED BY <1>1, <1>2, <1>4, OthersKnow

\* Everything but the requests is well typed.
StoresOK ==
    /\ campaign \in Campaign /\ link \in Link
    /\ when \in {"pending", "running", "over"}
    /\ row \in [Payments -> Row] /\ sent \in [Payments -> Nat]
    /\ keys \in [Payments -> SUBSET Nat]
    /\ bid \in [Transactions -> {"none", "auth", "charge", "refund", "void"}]
    /\ byhand \subseteq Payments
    /\ load \in Loads /\ work \in Nat /\ refusals \in Nat /\ crashes \in Nat
    /\ overlap \in BOOLEAN

\* The statuses, by name.
LEMMA StatusNames ==
    {"unpaid", "unseen", "accepted", "rejected", "pending", "promoted", "finished",
     "edited_live"} \subseteq Status
BY DEF Status, Statuses

\* A request that goes on to another step, or ends, is one.
LEMMA Moves ==
    ASSUME req \in [Requests -> Request], NEW r \in Requests, NEW pc \in Steps, Goto(r, pc)
    PROVE  /\ req' \in [Requests -> Request]
           /\ req'[r] = [req[r] EXCEPT !.pc = pc]
           /\ \A q \in Requests \ {r} : req'[q] = req[q]
BY DEF Goto, Request

LEMMA Ends ==
    ASSUME req \in [Requests -> Request], NEW r \in Requests, Done(r)
    PROVE  /\ req' \in [Requests -> Request]
           /\ req'[r] = Idle
           /\ \A q \in Requests \ {r} : req'[q] = req[q]
<1>1. NewAd \in Link
  BY StatusNames DEF NewAd, Link
<1>2. Idle \in Request
  BY <1>1 DEF Idle, Request, Operations, Steps
<1> QED BY <1>2 DEF Done

\* A row that is marked refunded is one.
LEMMA Marks ==
    ASSUME row \in [Payments -> Row], NEW p \in Payments,
           row' = [row EXCEPT ![p].status = "refunded"]
    PROVE  row' \in [Payments -> Row]
<1>1. row[p] \in Row
  OBVIOUS
<1>2. [row[p] EXCEPT !.status = "refunded"] \in Row
  BY <1>1 DEF Row
<1> QED BY <1>2

\* Each step of a request keeps the invariant.
LEMMA StepsKeep ==
    ASSUME AdInv, NEW r \in Requests, Step(r) \/ Crash(r)
    PROVE  AdInv'
<1>0. /\ StoresOK /\ req \in [Requests -> Request] /\ TransactionsAreBacked /\ Knows(r)
      /\ req[r].trans \in Transactions \cup {None} /\ req[r].pay \in Payments \cup {None}
      /\ req[r].new \in Budgets \cup {0} /\ req[r].link \in Link /\ req[r].already \in Nat
      /\ None \notin Payments /\ Free \notin Payments /\ None # Free
      /\ Budgets \subseteq Nat /\ Unspent \in Nat
  BY AdAssumption DEF AdInv, RequestInv, TypeOK, StoresOK, Request
<1>a. \A p \in Payments : row[p].price \in Nat /\ row[p].back \in Nat
  <2> SUFFICES ASSUME NEW p \in Payments PROVE row[p].price \in Nat /\ row[p].back \in Nat
    OBVIOUS
  <2>1. row[p] \in Row
    BY <1>0 DEF StoresOK
  <2>2. row[p].price \in Budgets \cup {0} /\ row[p].back \in Nat
    BY <2>1 DEF Row
  <2>3. Budgets \subseteq Nat
    BY AdAssumption
  <2>4. \A x \in Budgets \cup {0} : x \in Nat
    BY <2>3
  <2> QED BY <2>2, <2>4, Zenon
<1>1. CASE Void(r)
  <2>1. PICK pc \in Steps :
          /\ Goto(r, pc)
          /\ \/ pc = After(r) /\ req[r].trans = None
             \/ pc = "clearing"
             \/ pc \in {"marking", "unbidding"} /\ req[r].trans \in Payments
    BY <1>0, <1>1 DEF Void, After, Steps, Knows, Transactions
  <2>2. /\ req' \in [Requests -> Request]
        /\ req'[r] = [req[r] EXCEPT !.pc = pc]
        /\ \A q \in Requests \ {r} : req'[q] = req[q]
    BY <1>0, <2>1, Moves
  <2>3. StoresOK'
    <3>1. sent' \in [Payments -> Nat]
      BY <1>0, <1>a, <1>1 DEF Void, Accepts, Refuses, StoresOK
    <3>2. byhand' \subseteq Payments /\ refusals' \in Nat
      BY <1>0, <1>1 DEF Void, Accepts, Refuses, StoresOK
    <3>3. bid' \in [Transactions -> {"none", "auth", "charge", "refund", "void"}]
      BY <1>0, <1>1 DEF Void, StoresOK
    <3> QED BY <1>0, <1>1, <3>1, <3>2, <3>3 DEF Void, StoresOK, past
  <2>4. Grows
    BY <1>0, <1>1 DEF Void, StoresOK, Grows, Has, IsPaid, Transactions
  <2>5. Knows(r)'
    <3>1. After(r) # "ended" => After(r) \in {"booking", "budgeting", "deleting", "freeing"}
      BY DEF After
    <3>2. /\ After(r) = "booking" => req[r].op = "pay"
          /\ After(r) = "budgeting" => req[r].op = "edit"
          /\ pc # "ended"
      BY DEF After, Steps
    <3>3. row' = row
      BY <1>1 DEF Void
    <3> QED
      BY <1>0, <2>1, <2>2, <2>4, <3>1, <3>2, <3>3
         DEF Knows, Grows, Has, IsPaid, Request, Transactions
  <2>6. TransactionsAreBacked'
    BY <1>0, <1>1 DEF Void, StoresOK, TransactionsAreBacked, Campaign, Transactions
  <2> QED BY <2>2, <2>3, <2>4, <2>5, <2>6, OthersKnow DEF AdInv, TypeOK, StoresOK
<1>2. CASE Mark(r)
  <2>1. /\ req' \in [Requests -> Request]
        /\ \A q \in Requests \ {r} : req'[q] = req[q]
    BY <1>0, <1>2, Moves, Ends DEF Mark, Steps
  <2>2. StoresOK'
    <3>1. row' \in [Payments -> Row]
      BY <1>0, <1>2, Marks DEF Mark, StoresOK, Knows
    <3> QED BY <1>0, <1>2, <3>1 DEF Mark, StoresOK, past, faults
  <2>3. Grows /\ Knows(r)'
    BY <1>0, <1>2
       DEF Mark, StoresOK, Request, Row, Transactions, Knows, Grows, Has, IsPaid,
       TransactionsAreBacked, Goto, Done, Idle, money
  <2>4. TransactionsAreBacked'
    BY <1>0, <1>2
       DEF Mark, StoresOK, Campaign, Row, Transactions, Knows, Has, IsPaid,
       TransactionsAreBacked, money
  <2> QED BY <2>1, <2>2, <2>3, <2>4, OthersKnow DEF AdInv, TypeOK, StoresOK
<1>3. CASE Unbid(r)
  <2>1. /\ req' \in [Requests -> Request]
        /\ \A q \in Requests \ {r} : req'[q] = req[q]
    BY <1>0, <1>3, Moves, Ends DEF Unbid, Steps
  <2>2. StoresOK'
    BY <1>0, <1>3 DEF Unbid, StoresOK, Campaign, Link, Row, Transactions, Knows,
       money, past, faults
  <2>3. Grows /\ Knows(r)'
    BY <1>0, <1>3
       DEF Unbid, StoresOK, Request, Row, Transactions, Knows, Grows, Has, IsPaid,
       TransactionsAreBacked, Goto, Done, Idle, money
  <2>4. TransactionsAreBacked'
    BY <1>0, <1>3
       DEF Unbid, StoresOK, Campaign, Row, Transactions, Knows, Has, IsPaid,
       TransactionsAreBacked, money
  <2> QED BY <2>1, <2>2, <2>3, <2>4, OthersKnow DEF AdInv, TypeOK, StoresOK
<1>4. CASE Clear(r)
  <2>1. /\ req' \in [Requests -> Request]
        /\ \A q \in Requests \ {r} : req'[q] = req[q]
    BY <1>0, <1>4, Moves, Ends DEF Clear, After, Steps
  <2>2. StoresOK'
    BY <1>0, <1>4 DEF Clear, After, StoresOK, Campaign, Link, Row, Transactions, Knows,
       money, past, faults
  <2>3. Grows /\ Knows(r)'
    <3>1. row' = row /\ bid' = bid
      BY <1>4 DEF Clear, money
    <3>2. CASE Done(r)
      BY <1>0, <3>1, <3>2 DEF Knows, Grows, Has, IsPaid, Done, Idle
    <3>3. CASE Goto(r, After(r)) /\ After(r) # "ended"
      <4>1. \/ After(r) = "booking" /\ req[r].op = "pay"
            \/ After(r) = "budgeting" /\ req[r].op = "edit"
            \/ After(r) \in {"deleting", "freeing"}
        BY <3>3 DEF After
      <4>2. req'[r] = [req[r] EXCEPT !.pc = After(r)]
        BY <1>0, <3>3 DEF Goto
      <4> QED BY <1>0, <3>1, <4>1, <4>2 DEF Knows, Grows, Has, IsPaid, Request
    <3> QED BY <1>4, <3>2, <3>3 DEF Clear
  <2>4. TransactionsAreBacked'
    BY <1>0, <1>4
       DEF Clear, After, StoresOK, Campaign, Row, Transactions, Knows, Has, IsPaid,
       TransactionsAreBacked, money
  <2> QED BY <2>1, <2>2, <2>3, <2>4, OthersKnow DEF AdInv, TypeOK, StoresOK
<1>5. CASE Load(r)
  <2>1. /\ req' \in [Requests -> Request]
        /\ \A q \in Requests \ {r} : req'[q] = req[q]
    BY <1>0, <1>5 DEF Load, StoresOK, Campaign, Request, Steps
  <2>2. StoresOK'
    BY <1>0, <1>5 DEF Load, StoresOK, Campaign, Link, Row, Transactions, Knows,
       money, past, faults
  <2>3. Grows /\ Knows(r)'
    BY <1>0, <1>5
       DEF Load, StoresOK, Request, Row, Transactions, Knows, Grows, Has, IsPaid,
       TransactionsAreBacked, Goto, Done, Idle, money
  <2>4. TransactionsAreBacked'
    BY <1>0, <1>5
       DEF Load, StoresOK, Campaign, Row, Transactions, Knows, Has, IsPaid,
       TransactionsAreBacked, money
  <2> QED BY <2>1, <2>2, <2>3, <2>4, OthersKnow DEF AdInv, TypeOK, StoresOK
<1>6. CASE Unwanted(r)
  <2>0. req[r].pay \in Payments
    BY <1>0, <1>6 DEF Unwanted, Knows
  <2>1. /\ req' \in [Requests -> Request]
        /\ \A q \in Requests \ {r} : req'[q] = req[q]
    BY <1>0, <1>6, Moves, Ends DEF Unwanted, Accepts, Refuses, Steps
  <2>2. StoresOK'
    <3>1. sent' \in [Payments -> Nat]
      BY <1>0, <1>a, <2>0, <1>6 DEF Unwanted, Accepts, Refuses, StoresOK
    <3>2. byhand' \subseteq Payments /\ refusals' \in Nat
      BY <1>0, <2>0, <1>6 DEF Unwanted, Accepts, Refuses, StoresOK
    <3> QED BY <1>0, <1>6, <3>1, <3>2 DEF Unwanted, StoresOK, past
  <2>3. Grows /\ Knows(r)'
    <3>1. Goto(r, "refused") \/ Done(r)
      BY <1>6 DEF Unwanted
    <3>2. row' = row /\ bid' = bid /\ req[r].op = "pay"
      BY <1>0, <1>6 DEF Unwanted, Knows
    <3> QED
      BY <1>0, <3>1, <3>2 DEF Knows, Grows, Has, IsPaid, Request, Goto, Done, Idle
  <2>4. TransactionsAreBacked'
    BY <1>0, <1>6
       DEF Unwanted, Accepts, Refuses, StoresOK, Campaign, Row, Transactions, Knows, Has, IsPaid,
       TransactionsAreBacked, money
  <2> QED BY <2>1, <2>2, <2>3, <2>4, OthersKnow DEF AdInv, TypeOK, StoresOK
<1>7. CASE MarkUnwanted(r)
  <2>0. req[r].pay \in Payments
    BY <1>0, <1>7 DEF MarkUnwanted, Knows
  <2>1. /\ req' \in [Requests -> Request]
        /\ \A q \in Requests \ {r} : req'[q] = req[q]
    BY <1>0, <1>7, Moves, Ends DEF MarkUnwanted, Steps
  <2>2. StoresOK'
    <3>1. row' \in [Payments -> Row]
      BY <1>0, <1>7, <2>0, Marks DEF MarkUnwanted, StoresOK
    <3> QED BY <1>0, <1>7, <3>1 DEF MarkUnwanted, StoresOK, past, faults
  <2>3. Grows /\ Knows(r)'
    BY <1>0, <1>7
       DEF MarkUnwanted, StoresOK, Request, Row, Transactions, Knows, Grows, Has, IsPaid,
       TransactionsAreBacked, Goto, Done, Idle, money
  <2>4. TransactionsAreBacked'
    BY <1>0, <1>7
       DEF MarkUnwanted, StoresOK, Campaign, Row, Transactions, Knows, Has, IsPaid,
       TransactionsAreBacked, money
  <2> QED BY <2>1, <2>2, <2>3, <2>4, OthersKnow DEF AdInv, TypeOK, StoresOK
<1>8. CASE Book(r)
  <2>1. /\ req' \in [Requests -> Request]
        /\ \A q \in Requests \ {r} : req'[q] = req[q]
    BY <1>0, <1>8, Moves, Ends DEF Book, Steps
  <2>2. StoresOK'
    BY <1>0, <1>8 DEF Book, StoresOK, Campaign, Link, Row, Transactions, Knows,
       money, past, faults
  <2>3. Grows /\ Knows(r)'
    BY <1>0, <1>8
       DEF Book, StoresOK, Request, Row, Transactions, Knows, Grows, Has, IsPaid,
       TransactionsAreBacked, Goto, Done, Idle, money
  <2>4. TransactionsAreBacked'
    BY <1>0, <1>8
       DEF Book, StoresOK, Campaign, Row, Transactions, Knows, Has, IsPaid,
       TransactionsAreBacked, money
  <2> QED BY <2>1, <2>2, <2>3, <2>4, OthersKnow DEF AdInv, TypeOK, StoresOK
<1>9. CASE Attach(r)
  <2>1. /\ req' \in [Requests -> Request]
        /\ \A q \in Requests \ {r} : req'[q] = req[q]
    BY <1>0, <1>9, Moves, Ends DEF Attach, Steps
  <2>2. StoresOK'
    BY <1>0, <1>9 DEF Attach, StoresOK, Campaign, Link, Row, Transactions, Knows,
       money, past, faults
  <2>3. Grows /\ Knows(r)'
    BY <1>0, <1>9
       DEF Attach, StoresOK, Request, Row, Transactions, Knows, Grows, Has, IsPaid,
       TransactionsAreBacked, Goto, Done, Idle, money
  <2>4. TransactionsAreBacked'
    BY <1>0, <1>9
       DEF Attach, StoresOK, Campaign, Row, Transactions, Knows, Has, IsPaid,
       TransactionsAreBacked, money
  <2> QED BY <2>1, <2>2, <2>3, <2>4, OthersKnow DEF AdInv, TypeOK, StoresOK
<1>10. CASE Review(r)
  <2>1. /\ req' \in [Requests -> Request]
        /\ \A q \in Requests \ {r} : req'[q] = req[q]
    BY <1>0, <1>10, Moves, Ends DEF Review, StatusAfter, Steps
  <2>2. StoresOK'
    BY <1>0, <1>10, StatusNames DEF Review, StatusAfter, StoresOK, Campaign, Link, Row, Transactions, Knows,
       money, past, faults
  <2>3. Grows /\ Knows(r)'
    BY <1>0, <1>10
       DEF Review, StatusAfter, StoresOK, Request, Row, Transactions, Knows, Grows, Has, IsPaid,
       TransactionsAreBacked, Goto, Done, Idle, money
  <2>4. TransactionsAreBacked'
    BY <1>0, <1>10
       DEF Review, StatusAfter, StoresOK, Campaign, Row, Transactions, Knows, Has, IsPaid,
       TransactionsAreBacked, money
  <2> QED BY <2>1, <2>2, <2>3, <2>4, OthersKnow DEF AdInv, TypeOK, StoresOK
<1>11. CASE SetBudget(r)
  <2>1. /\ req' \in [Requests -> Request]
        /\ \A q \in Requests \ {r} : req'[q] = req[q]
    BY <1>0, <1>11, Moves, Ends DEF SetBudget, Steps
  <2>2. StoresOK'
    BY <1>0, <1>11 DEF SetBudget, StoresOK, Campaign, Link, Row, Transactions, Knows,
       money, past, faults
  <2>3. Grows /\ Knows(r)'
    BY <1>0, <1>11
       DEF SetBudget, StoresOK, Request, Row, Transactions, Knows, Grows, Has, IsPaid,
       TransactionsAreBacked, Goto, Done, Idle, money
  <2>4. TransactionsAreBacked'
    BY <1>0, <1>11
       DEF SetBudget, StoresOK, Campaign, Row, Transactions, Knows, Has, IsPaid,
       TransactionsAreBacked, money
  <2> QED BY <2>1, <2>2, <2>3, <2>4, OthersKnow DEF AdInv, TypeOK, StoresOK
<1>12. CASE SetDeleted(r)
  <2>1. /\ req' \in [Requests -> Request]
        /\ \A q \in Requests \ {r} : req'[q] = req[q]
    BY <1>0, <1>12, Moves, Ends DEF SetDeleted, Steps
  <2>2. StoresOK'
    BY <1>0, <1>12 DEF SetDeleted, StoresOK, Campaign, Link, Row, Transactions, Knows,
       money, past, faults
  <2>3. Grows /\ Knows(r)'
    BY <1>0, <1>12
       DEF SetDeleted, StoresOK, Request, Row, Transactions, Knows, Grows, Has, IsPaid,
       TransactionsAreBacked, Goto, Done, Idle, money
  <2>4. TransactionsAreBacked'
    BY <1>0, <1>12
       DEF SetDeleted, StoresOK, Campaign, Row, Transactions, Knows, Has, IsPaid,
       TransactionsAreBacked, money
  <2> QED BY <2>1, <2>2, <2>3, <2>4, OthersKnow DEF AdInv, TypeOK, StoresOK
<1>13. CASE FreeBid(r)
  <2>1. /\ req' \in [Requests -> Request]
        /\ \A q \in Requests \ {r} : req'[q] = req[q]
    BY <1>0, <1>13, Moves, Ends DEF FreeBid, Steps
  <2>2. StoresOK'
    BY <1>0, <1>13 DEF FreeBid, StoresOK, Campaign, Link, Row, Transactions, Knows,
       money, past, faults
  <2>3. Grows /\ Knows(r)'
    BY <1>0, <1>13
       DEF FreeBid, StoresOK, Request, Row, Transactions, Knows, Grows, Has, IsPaid,
       TransactionsAreBacked, Goto, Done, Idle, money
  <2>4. TransactionsAreBacked'
    BY <1>0, <1>13
       DEF FreeBid, StoresOK, Campaign, Row, Transactions, Knows, Has, IsPaid,
       TransactionsAreBacked, money
  <2> QED BY <2>1, <2>2, <2>3, <2>4, OthersKnow DEF AdInv, TypeOK, StoresOK
<1>14. CASE Name(r)
  <2>1. /\ req' \in [Requests -> Request]
        /\ \A q \in Requests \ {r} : req'[q] = req[q]
    BY <1>0, <1>14, Moves, Ends DEF Name, Steps
  <2>2. StoresOK'
    BY <1>0, <1>14 DEF Name, StoresOK, Campaign, Link, Row, Transactions, Knows,
       money, past, faults
  <2>3. Grows /\ Knows(r)'
    BY <1>0, <1>14
       DEF Name, StoresOK, Request, Row, Transactions, Knows, Grows, Has, IsPaid,
       TransactionsAreBacked, Goto, Done, Idle, money
  <2>4. TransactionsAreBacked'
    BY <1>0, <1>14
       DEF Name, StoresOK, Campaign, Row, Transactions, Knows, Has, IsPaid,
       TransactionsAreBacked, money
  <2> QED BY <2>1, <2>2, <2>3, <2>4, OthersKnow DEF AdInv, TypeOK, StoresOK
<1>15. CASE OnRefunded(r)
  <2>1. /\ req' \in [Requests -> Request]
        /\ \A q \in Requests \ {r} : req'[q] = req[q]
    BY <1>0, <1>15, Moves, Ends DEF OnRefunded, Steps
  <2>2. StoresOK'
    BY <1>0, <1>15 DEF OnRefunded, StoresOK, Campaign, Link, Row, Transactions, Knows,
       money, past, faults
  <2>3. Grows /\ Knows(r)'
    <3>1. Goto(r, "clearing") \/ Done(r)
      BY <1>15 DEF OnRefunded
    <3>2. Grows
      BY <1>0, <1>15 DEF OnRefunded, StoresOK, Grows, Has, IsPaid, Transactions, money
    <3> QED
      BY <1>0, <1>15, <3>1, <3>2, Moves, Ends
         DEF OnRefunded, Knows, Grows, Has, IsPaid, Request, Goto, Done, Idle, money, Transactions
  <2>4. TransactionsAreBacked'
    BY <1>0, <1>15
       DEF OnRefunded, StoresOK, Campaign, Row, Transactions, Knows, Has, IsPaid,
       TransactionsAreBacked, money
  <2> QED BY <2>1, <2>2, <2>3, <2>4, OthersKnow DEF AdInv, TypeOK, StoresOK
<1>16. CASE Rejecting(r)
  <2>1. /\ req' \in [Requests -> Request]
        /\ \A q \in Requests \ {r} : req'[q] = req[q]
    <3>1. \/ Done(r)
          \/ req' = [req EXCEPT ![r].trans = campaign.trans, ![r].pc = "voiding"]
      BY <1>16 DEF Rejecting
    <3>2. CASE Done(r)
      BY <1>0, <3>2, Ends
    <3>3. CASE ~Done(r)
      BY <1>0, <3>1, <3>3 DEF StoresOK, Campaign, Request, Steps
    <3> QED BY <3>2, <3>3
  <2>2. StoresOK'
    BY <1>0, <1>16 DEF Rejecting, StoresOK, Campaign, Link, Row, Transactions, Knows,
       money, past, faults
  <2>3. Grows /\ Knows(r)'
    BY <1>0, <1>16
       DEF Rejecting, StoresOK, Request, Row, Transactions, Knows, Grows, Has, IsPaid,
       TransactionsAreBacked, Goto, Done, Idle, money
  <2>4. TransactionsAreBacked'
    BY <1>0, <1>16
       DEF Rejecting, StoresOK, Campaign, Row, Transactions, Knows, Has, IsPaid,
       TransactionsAreBacked, money
  <2> QED BY <2>1, <2>2, <2>3, <2>4, OthersKnow DEF AdInv, TypeOK, StoresOK
<1>17. CASE Charge(r)
  <2>1. /\ req' \in [Requests -> Request]
        /\ \A q \in Requests \ {r} : req'[q] = req[q]
    <3>1. \/ Goto(r, "promoting")
          \/ \E l \in Link : req' = [req EXCEPT ![r].pc = "queueing", ![r].link = l]
      BY <1>0, <1>17 DEF Charge, StoresOK
    <3>2. CASE Goto(r, "promoting")
      BY <1>0, <3>2, Moves DEF Steps
    <3>3. CASE ~Goto(r, "promoting")
      BY <1>0, <3>1, <3>3 DEF Request, Steps
    <3> QED BY <3>2, <3>3
  <2>2. StoresOK'
    BY <1>0, <1>17 DEF Charge, ToCharge, IsAcceptedPromo, StoresOK, Campaign, Link, Row, Transactions, Knows,
       money, past, faults
  <2>3. Grows /\ Knows(r)'
    <3>1. Grows
      BY <1>0, <1>17
         DEF Charge, ToCharge, IsAcceptedPromo, StoresOK, Row, Transactions, Grows, Has, IsPaid,
             money
    <3>2. /\ req'[r].op = req[r].op /\ req'[r].pay = req[r].pay /\ req'[r].new = req[r].new
          /\ req'[r].trans = req[r].trans /\ req'[r].pc \in {"queueing", "promoting"}
      BY <1>0, <1>17 DEF Charge, Goto, Request
    <3>3. /\ req[r].trans \in Transactions \cup {None}
          /\ req[r].pay \in Payments \cup {None}
      BY <1>0 DEF StoresOK, Request
    <3>4. Payments \subseteq Transactions
      BY DEF Transactions
    <3> QED BY <1>0, <3>1, <3>2, <3>3, <3>4 DEF Knows, Grows
  <2>4. TransactionsAreBacked'
    BY <1>0, <1>17
       DEF Charge, ToCharge, IsAcceptedPromo, StoresOK, Campaign, Row, Transactions, Knows, Has, IsPaid,
       TransactionsAreBacked, money
  <2> QED BY <2>1, <2>2, <2>3, <2>4, OthersKnow DEF AdInv, TypeOK, StoresOK
<1>18. CASE Queue(r)
  <2>1. /\ req' \in [Requests -> Request]
        /\ \A q \in Requests \ {r} : req'[q] = req[q]
    BY <1>0, <1>18, Moves, Ends DEF Queue, Steps
  <2>2. StoresOK'
    BY <1>0, <1>18, StatusNames DEF Queue, StoresOK, Campaign, Link, Row, Transactions, Knows,
       money, past, faults
  <2>3. Grows /\ Knows(r)'
    BY <1>0, <1>18
       DEF Queue, StoresOK, Request, Row, Transactions, Knows, Grows, Has, IsPaid,
       TransactionsAreBacked, Goto, Done, Idle, money
  <2>4. TransactionsAreBacked'
    BY <1>0, <1>18
       DEF Queue, StoresOK, Campaign, Row, Transactions, Knows, Has, IsPaid,
       TransactionsAreBacked, money
  <2> QED BY <2>1, <2>2, <2>3, <2>4, OthersKnow DEF AdInv, TypeOK, StoresOK
<1>19. CASE Promote(r)
  <2>1. /\ req' \in [Requests -> Request]
        /\ \A q \in Requests \ {r} : req'[q] = req[q]
    <3>1. \/ Goto(r, "expiring") \/ Done(r)
          \/ \E l \in Link :
                req' = [req EXCEPT ![r].pc = "launching", ![r].link = l, ![r].live = TRUE]
      BY <1>0, <1>19 DEF Promote, StoresOK
    <3>2. CASE Goto(r, "expiring")
      BY <1>0, <3>2, Moves DEF Steps
    <3>3. CASE Done(r)
      BY <1>0, <3>3, Ends
    <3>4. CASE ~Goto(r, "expiring") /\ ~Done(r)
      <4>1. PICK l \in Link :
                req' = [req EXCEPT ![r].pc = "launching", ![r].link = l, ![r].live = TRUE]
        BY <3>1, <3>4
      <4>2. "launching" \in Steps /\ TRUE \in BOOLEAN
        BY DEF Steps
      <4>3. req'[r] = [req[r] EXCEPT !.pc = "launching", !.link = l, !.live = TRUE]
        BY <1>0, <4>1 DEF Request
      <4>4. req'[r] \in Request
        <5>1. req[r] \in Request
          BY <1>0
        <5> QED BY <4>2, <4>3, <5>1 DEF Request
      <4>5. /\ DOMAIN req' = Requests
            /\ \A q \in Requests \ {r} : req'[q] = req[q]
        BY <1>0, <4>1
      <4>6. req' = [q \in Requests |-> req'[q]]
        BY <1>0, <4>1
      <4> QED BY <1>0, <4>4, <4>5, <4>6
    <3> QED BY <3>2, <3>3, <3>4
  <2>2. StoresOK'
    BY <1>0, <1>19 DEF Promote, StoresOK, Campaign, Link, Row, Transactions, Knows,
       money, past, faults
  <2>3. Grows /\ Knows(r)'
    BY <1>0, <1>19
       DEF Promote, StoresOK, Request, Row, Transactions, Knows, Grows, Has, IsPaid,
       TransactionsAreBacked, Goto, Done, Idle, money
  <2>4. TransactionsAreBacked'
    BY <1>0, <1>19
       DEF Promote, StoresOK, Campaign, Row, Transactions, Knows, Has, IsPaid,
       TransactionsAreBacked, money
  <2> QED BY <2>1, <2>2, <2>3, <2>4, OthersKnow DEF AdInv, TypeOK, StoresOK
<1>20. CASE Launch(r)
  <2>1. /\ req' \in [Requests -> Request]
        /\ \A q \in Requests \ {r} : req'[q] = req[q]
    BY <1>0, <1>20, Moves, Ends DEF Launch, Steps
  <2>2. StoresOK'
    BY <1>0, <1>20, StatusNames DEF Launch, StoresOK, Campaign, Link, Row, Transactions, Knows,
       money, past, faults
  <2>3. Grows /\ Knows(r)'
    BY <1>0, <1>20
       DEF Launch, StoresOK, Request, Row, Transactions, Knows, Grows, Has, IsPaid,
       TransactionsAreBacked, Goto, Done, Idle, money
  <2>4. TransactionsAreBacked'
    BY <1>0, <1>20
       DEF Launch, StoresOK, Campaign, Row, Transactions, Knows, Has, IsPaid,
       TransactionsAreBacked, money
  <2> QED BY <2>1, <2>2, <2>3, <2>4, OthersKnow DEF AdInv, TypeOK, StoresOK
<1>21. CASE Expire(r)
  <2>1. /\ req' \in [Requests -> Request]
        /\ \A q \in Requests \ {r} : req'[q] = req[q]
    BY <1>0, <1>21, Moves, Ends DEF Expire, Steps
  <2>2. StoresOK'
    BY <1>0, <1>21, StatusNames DEF Expire, StoresOK, Campaign, Link, Row, Transactions, Knows,
       money, past, faults
  <2>3. Grows /\ Knows(r)'
    BY <1>0, <1>21
       DEF Expire, StoresOK, Request, Row, Transactions, Knows, Grows, Has, IsPaid,
       TransactionsAreBacked, Goto, Done, Idle, money
  <2>4. TransactionsAreBacked'
    BY <1>0, <1>21
       DEF Expire, StoresOK, Campaign, Row, Transactions, Knows, Has, IsPaid,
       TransactionsAreBacked, money
  <2> QED BY <2>1, <2>2, <2>3, <2>4, OthersKnow DEF AdInv, TypeOK, StoresOK
<1>22. CASE Return(r)
  <2>1. /\ req' \in [Requests -> Request]
        /\ \A q \in Requests \ {r} : req'[q] = req[q]
    <3>1. PICK pc \in {"closing", "noting"}, a \in Nat :
             req' = [req EXCEPT ![r].pc = pc, ![r].already = a]
      BY <1>0, <1>22 DEF Return, StoresOK, Row
    <3>2. pc \in Steps
      BY DEF Steps
    <3>3. req'[r] = [req[r] EXCEPT !.pc = pc, !.already = a]
      BY <1>0, <3>1 DEF Request
    <3>4. req'[r] \in Request
      <4>1. req[r] \in Request /\ a \in Nat
        BY <1>0, <3>1
      <4> QED BY <3>2, <3>3, <4>1 DEF Request
    <3>5. \A q \in Requests \ {r} : req'[q] = req[q]
      BY <1>0, <3>1
    <3>6. req' = [q \in Requests |-> req'[q]]
      BY <1>0, <3>1
    <3> QED BY <1>0, <3>4, <3>5, <3>6
  <2>2. StoresOK'
    BY <1>0, <1>22 DEF Return, SendPart, StoresOK, Campaign, Link, Row, Transactions, Knows,
       money, past, faults
  <2>3. Grows /\ Knows(r)'
    <3>1. \E pc \in {"closing", "noting"}, a \in Nat :
             req' = [req EXCEPT ![r].pc = pc, ![r].already = a]
      BY <1>0, <1>22 DEF Return, StoresOK, Row
    <3>2. row' = row /\ bid' = bid /\ req[r].pc = "returning"
      BY <1>22 DEF Return
    <3> QED
      BY <1>0, <3>1, <3>2 DEF Knows, Grows, Has, IsPaid, Request
  <2>4. TransactionsAreBacked'
    BY <1>0, <1>22
       DEF Return, SendPart, StoresOK, Campaign, Row, Transactions, Knows, Has, IsPaid,
       TransactionsAreBacked, money
  <2> QED BY <2>1, <2>2, <2>3, <2>4, OthersKnow DEF AdInv, TypeOK, StoresOK
<1>23. CASE ReturnFails(r)
  <2>1. /\ req' \in [Requests -> Request]
        /\ \A q \in Requests \ {r} : req'[q] = req[q]
    BY <1>0, <1>23, Moves, Ends DEF ReturnFails, Steps
  <2>2. StoresOK'
    BY <1>0, <1>23 DEF ReturnFails, StoresOK, Campaign, Link, Row, Transactions, Knows,
       money, past, faults
  <2>3. Grows /\ Knows(r)'
    BY <1>0, <1>23
       DEF ReturnFails, StoresOK, Request, Row, Transactions, Knows, Grows, Has, IsPaid,
       TransactionsAreBacked, Goto, Done, Idle, money
  <2>4. TransactionsAreBacked'
    BY <1>0, <1>23
       DEF ReturnFails, StoresOK, Campaign, Row, Transactions, Knows, Has, IsPaid,
       TransactionsAreBacked, money
  <2> QED BY <2>1, <2>2, <2>3, <2>4, OthersKnow DEF AdInv, TypeOK, StoresOK
<1>24. CASE Note(r)
  <2>1. /\ req' \in [Requests -> Request]
        /\ \A q \in Requests \ {r} : req'[q] = req[q]
    BY <1>0, <1>24, Moves, Ends DEF Note, Total, Steps
  <2>2. StoresOK'
    BY <1>0, <1>24 DEF Note, Total, StoresOK, Campaign, Link, Row, Transactions, Knows,
       money, past, faults
  <2>3. Grows /\ Knows(r)'
    BY <1>0, <1>24
       DEF Note, Total, StoresOK, Request, Row, Transactions, Knows, Grows, Has, IsPaid,
       TransactionsAreBacked, Goto, Done, Idle, money
  <2>4. TransactionsAreBacked'
    BY <1>0, <1>24
       DEF Note, Total, StoresOK, Campaign, Row, Transactions, Knows, Has, IsPaid,
       TransactionsAreBacked, money
  <2> QED BY <2>1, <2>2, <2>3, <2>4, OthersKnow DEF AdInv, TypeOK, StoresOK
<1>25. CASE Close(r)
  <2>1. /\ req' \in [Requests -> Request]
        /\ \A q \in Requests \ {r} : req'[q] = req[q]
    BY <1>0, <1>25, Moves, Ends DEF Close, Steps
  <2>2. StoresOK'
    BY <1>0, <1>25 DEF Close, StoresOK, Campaign, Link, Row, Transactions, Knows,
       money, past, faults
  <2>3. Grows /\ Knows(r)'
    BY <1>0, <1>25
       DEF Close, StoresOK, Request, Row, Transactions, Knows, Grows, Has, IsPaid,
       TransactionsAreBacked, Goto, Done, Idle, money
  <2>4. TransactionsAreBacked'
    BY <1>0, <1>25
       DEF Close, StoresOK, Campaign, Row, Transactions, Knows, Has, IsPaid,
       TransactionsAreBacked, money
  <2> QED BY <2>1, <2>2, <2>3, <2>4, OthersKnow DEF AdInv, TypeOK, StoresOK
<1>26. CASE Crash(r)
  <2>1. /\ req' \in [Requests -> Request]
        /\ \A q \in Requests \ {r} : req'[q] = req[q]
    BY <1>0, <1>26, Moves, Ends DEF Crash, Steps
  <2>2. StoresOK'
    BY <1>0, <1>26 DEF Crash, StoresOK, Campaign, Link, Row, Transactions, Knows,
       money, past, faults
  <2>3. Grows /\ Knows(r)'
    BY <1>0, <1>26
       DEF Crash, StoresOK, Request, Row, Transactions, Knows, Grows, Has, IsPaid,
       TransactionsAreBacked, Goto, Done, Idle, money
  <2>4. TransactionsAreBacked'
    BY <1>0, <1>26
       DEF Crash, StoresOK, Campaign, Row, Transactions, Knows, Has, IsPaid,
       TransactionsAreBacked, money
  <2> QED BY <2>1, <2>2, <2>3, <2>4, OthersKnow DEF AdInv, TypeOK, StoresOK
<1> QED
  BY <1>1, <1>2, <1>3, <1>4, <1>5, <1>6, <1>7, <1>8, <1>9, <1>10, <1>11, <1>12, <1>13, <1>14, <1>15, <1>16, <1>17, <1>18, <1>19, <1>20, <1>21, <1>22, <1>23, <1>24, <1>25, <1>26 DEF Step

\* The steps and the operations a request begins with.
LEMMA StepNames ==
    /\ {"loading", "unpaying", "voiding", "rejecting", "promoting", "charging",
        "returning", "closing"} \subseteq Steps
    /\ {"pay", "edit", "delete", "free", "unpay", "reject", "accept", "job",
        "refund"} \subseteq Operations
BY DEF Steps, Operations

\* A step that no request takes keeps it if it keeps bids and payments.
LEMMA OthersKeep ==
    ASSUME AdInv, Grows, UNCHANGED req, StoresOK', TransactionsAreBacked'
    PROVE  AdInv'
<1>1. \A r \in Requests : Knows(r)'
  <2> SUFFICES ASSUME NEW r \in Requests PROVE Knows(r)'
    OBVIOUS
  <2>1. Knows(r) /\ req[r].trans \in Transactions \cup {None}
        /\ req[r].pay \in Payments \cup {None}
    BY DEF AdInv, RequestInv, TypeOK, Request
  <2>2. Free \in Transactions /\ Payments \subseteq Transactions
    BY DEF Transactions
  <2> QED BY <2>1, <2>2, AdAssumption DEF Knows, Grows
<1> QED BY <1>1 DEF AdInv, RequestInv, TypeOK, StoresOK

\* A beginning counts, and nothing else outside the request.
LEMMA Counts ==
    ASSUME work \in Nat, overlap \in BOOLEAN,
           NEW r, NEW op, NEW pc, NEW p, NEW new, Begin(r, op, pc, p, new)
    PROVE  load' = load /\ work' \in Nat /\ overlap' \in BOOLEAN
BY DEF Begin

\* So does each beginning of a request.
LEMMA StartsKeep ==
    ASSUME AdInv, NEW r \in Requests, Start(r)
    PROVE  AdInv'
<1>0. /\ StoresOK /\ TransactionsAreBacked /\ req \in [Requests -> Request]
      /\ None \notin Payments /\ Free \notin Payments /\ None # Free
      /\ load \in Loads
  BY AdAssumption DEF AdInv, TypeOK, StoresOK
<1>1. ASSUME NEW p \in Payments, Pay(r, p) PROVE AdInv'
  <2>1. StoresOK' /\ Grows /\ TransactionsAreBacked'
    <3>1. load' = load /\ work' \in Nat /\ overlap' \in BOOLEAN
      BY <1>0, <1>1, Counts DEF Pay, StoresOK
    <3>a. Grows /\ TransactionsAreBacked'
      BY <1>0, <1>1 DEF Pay, StoresOK, Campaign, Row, Transactions, Grows, Has, IsPaid,
         TransactionsAreBacked, money
    <3> QED BY <3>a, <1>0, <1>1, <3>1 DEF Pay, StoresOK, Row, faults
  <2>2. req' \in [Requests -> Request] /\ RequestInv'
    BY <1>0, <1>1, <2>1, Begins, StepNames
       DEF Pay, StoresOK, Operations, IsPaid
  <2> QED BY <2>1, <2>2 DEF AdInv, TypeOK, StoresOK
<1>2. ASSUME NEW p \in Payments, Unpay(r, p) PROVE AdInv'
  <2>1. StoresOK' /\ Grows /\ TransactionsAreBacked'
    <3>1. load' = load /\ work' \in Nat /\ overlap' \in BOOLEAN
      BY <1>0, <1>2, Counts DEF Unpay, StoresOK
    <3>a. Grows /\ TransactionsAreBacked'
      BY <1>0, <1>2 DEF Unpay, StoresOK, Campaign, Row, Transactions, Grows, Has, IsPaid,
         TransactionsAreBacked, money
    <3>2. sent' \in [Payments -> Nat]
      <4>1. row[p] \in Row
        BY <1>0 DEF StoresOK
      <4>2. row[p].price \in Budgets \cup {0}
        BY <4>1 DEF Row
      <4>3. \A x \in Budgets \cup {0} : x \in Nat
        BY AdAssumption
      <4>4. row[p].price \in Nat
        BY <4>2, <4>3, Zenon
      <4> QED BY <1>0, <1>2, <4>4 DEF Unpay, StoresOK
    <3> QED BY <3>a, <1>0, <1>2, <3>1, <3>2 DEF Unpay, StoresOK, Row, faults
  <2>2. req' \in [Requests -> Request] /\ RequestInv'
    BY <1>0, <1>2, <2>1, Begins, StepNames
       DEF Unpay, StoresOK, Operations, IsPaid
  <2> QED BY <2>1, <2>2 DEF AdInv, TypeOK, StoresOK
<1>3. ASSUME NEW b \in Budgets, Edit(r, b) PROVE AdInv'
  <2>1. StoresOK' /\ Grows /\ TransactionsAreBacked'
    BY <1>0, <1>3, StatusNames
       DEF Edit, Begin, StoresOK, Campaign, Link, Row, Transactions, Grows, Has, IsPaid,
           TransactionsAreBacked, money, faults
  <2>2. req' \in [Requests -> Request] /\ RequestInv'
    BY <1>0, <1>3, <2>1, Begins, StepNames
       DEF Edit, StoresOK, Operations, IsPaid
  <2> QED BY <2>1, <2>2 DEF AdInv, TypeOK, StoresOK
<1>4. ASSUME Delete(r) PROVE AdInv'
  <2>1. StoresOK' /\ Grows /\ TransactionsAreBacked'
    <3>1. load' = load /\ work' \in Nat /\ overlap' \in BOOLEAN
      BY <1>0, <1>4, Counts DEF Delete, StoresOK
    <3>a. Grows /\ TransactionsAreBacked'
      BY <1>0, <1>4 DEF Delete, StoresOK, Campaign, Row, Transactions, Grows, Has, IsPaid,
         TransactionsAreBacked, money
    <3> QED BY <3>a, <1>0, <1>4, <3>1 DEF Delete, StoresOK, Campaign, money, faults
  <2>2. req' \in [Requests -> Request] /\ RequestInv'
    BY <1>0, <1>4, <2>1, Begins, StepNames
       DEF Delete, StoresOK, Operations, IsPaid
  <2> QED BY <2>1, <2>2 DEF AdInv, TypeOK, StoresOK
<1>5. ASSUME GiveFree(r) PROVE AdInv'
  <2>1. StoresOK' /\ Grows /\ TransactionsAreBacked'
    BY <1>0, <1>5, StatusNames
       DEF GiveFree, Begin, StoresOK, Campaign, Link, Row, Transactions, Grows, Has, IsPaid,
           TransactionsAreBacked, money, faults
  <2>2. req' \in [Requests -> Request] /\ RequestInv'
    BY <1>0, <1>5, <2>1, Begins, StepNames
       DEF GiveFree, StoresOK, Operations, IsPaid
  <2> QED BY <2>1, <2>2 DEF AdInv, TypeOK, StoresOK
<1>6. ASSUME Reject(r) PROVE AdInv'
  <2>1. StoresOK' /\ Grows /\ TransactionsAreBacked'
    BY <1>0, <1>6, StatusNames
       DEF Reject, Begin, StoresOK, Campaign, Link, Row, Transactions, Grows, Has, IsPaid,
           TransactionsAreBacked, money, faults
  <2>2. req' \in [Requests -> Request] /\ RequestInv'
    BY <1>0, <1>6, <2>1, Begins, StepNames
       DEF Reject, StoresOK, Operations, IsPaid
  <2> QED BY <2>1, <2>2 DEF AdInv, TypeOK, StoresOK
<1>7. ASSUME DeleteLink(r) PROVE AdInv'
  <2>1. StoresOK'
    <3>1. load' = load /\ work' \in Nat /\ overlap' \in BOOLEAN
      BY <1>0, <1>7, Counts DEF DeleteLink, StoresOK, past
    <3>2. link' \in Link
      BY <1>0, <1>7, StatusNames DEF DeleteLink, StoresOK, Link
    <3> QED BY <1>0, <1>7, <3>1, <3>2 DEF DeleteLink, StoresOK, money, faults
  <2>2. Grows /\ TransactionsAreBacked'
    BY <1>0, <1>7 DEF DeleteLink, Grows, Has, IsPaid, TransactionsAreBacked, money
  <2>3. CASE link.status = "promoted"
    <3>1. UNCHANGED req
      BY <1>7, <2>3 DEF DeleteLink
    <3> QED BY <2>1, <2>2, <3>1, OthersKeep
  <2>4. CASE link.status # "promoted"
    <3>1. Begin(r, "reject", "rejecting", None, 0) /\ link' \in Link
      BY <1>7, <2>1, <2>4 DEF DeleteLink, StoresOK
    <3>2. req' \in [Requests -> Request] /\ RequestInv'
      BY <2>2, <3>1, Begins, StepNames
    <3> QED BY <2>1, <2>2, <3>2 DEF AdInv, TypeOK, StoresOK
  <2> QED BY <2>3, <2>4
<1>8. ASSUME Accept(r) PROVE AdInv'
  <2>1. StoresOK' /\ Grows /\ TransactionsAreBacked'
    BY <1>0, <1>8, StatusNames
       DEF Accept, Begin, StoresOK, Campaign, Link, Row, Transactions, Grows, Has, IsPaid,
           TransactionsAreBacked, money, faults
  <2>2. req' \in [Requests -> Request] /\ RequestInv'
    BY <1>0, <1>8, <2>1, Begins, StepNames
       DEF Accept, StoresOK, Operations, IsPaid
  <2> QED BY <2>1, <2>2 DEF AdInv, TypeOK, StoresOK
<1>9. ASSUME StartJob(r) PROVE AdInv'
  <2>1. StoresOK' /\ Grows /\ TransactionsAreBacked'
    BY <1>0, <1>9, StatusNames
       DEF StartJob, Begin, StoresOK, Campaign, Link, Row, Transactions, Grows, Has, IsPaid,
           TransactionsAreBacked, money, faults
  <2>2. req' \in [Requests -> Request] /\ RequestInv'
    BY <1>0, <1>9, <2>1, Begins, StepNames
       DEF StartJob, StoresOK, Operations, IsPaid
  <2> QED BY <2>1, <2>2 DEF AdInv, TypeOK, StoresOK
<1>10. ASSUME Refund(r) PROVE AdInv'
  <2>1. StoresOK' /\ Grows /\ TransactionsAreBacked'
    BY <1>0, <1>10, StatusNames
       DEF Refund, Begin, StoresOK, Campaign, Link, Row, Transactions, Grows, Has, IsPaid,
           TransactionsAreBacked, money, faults
  <2>2. req' \in [Requests -> Request] /\ RequestInv'
    <3>1. CASE campaign.trans = Free
      <4>1. Begin(r, "refund", "closing", None, 0)
        BY <1>10, <3>1 DEF Refund
      <4> QED BY <1>0, <1>10, <2>1, <4>1, Begins, StepNames DEF Refund, StoresOK
    <3>2. CASE campaign.trans # Free
      <4>1. Begin(r, "refund", "returning", None, 0)
        BY <1>10, <3>2 DEF Refund
      <4>2. campaign.trans \in Payments
        BY <1>0, <1>10, <3>2 DEF Refund, StoresOK, Campaign, Transactions
      <4> QED BY <1>0, <1>10, <2>1, <4>1, <4>2, Begins, StepNames DEF Refund, StoresOK
    <3> QED BY <3>1, <3>2
  <2> QED BY <2>1, <2>2 DEF AdInv, TypeOK, StoresOK
<1> QED
  BY <1>1, <1>2, <1>3, <1>4, <1>5, <1>6, <1>7, <1>8, <1>9, <1>10 DEF Start

\* The invariant is inductive.
LEMMA Inductive == AdInv /\ [Next]_vars => AdInv'
<1> SUFFICES ASSUME AdInv, [Next]_vars PROVE AdInv'
  OBVIOUS
<1>0. StoresOK /\ TransactionsAreBacked
  BY DEF AdInv, TypeOK, StoresOK
<1>1. ASSUME NEW p \in Payments, Checkout(p) PROVE AdInv'
  <2>1. StoresOK'
    BY <1>0, <1>1 DEF Checkout, StoresOK, Campaign, Row, past, faults
  <2>2. Grows /\ TransactionsAreBacked'
    BY <1>0, <1>1 DEF Checkout, StoresOK, Grows, Has, IsPaid, TransactionsAreBacked
  <2> QED BY <1>1, <2>1, <2>2, OthersKeep DEF Checkout
<1>2. CASE EditLive \/ Terminate \/ Show \/ DayPasses
  <2>1. StoresOK'
    BY <1>0, <1>2, StatusNames DEF EditLive, Terminate, Show, DayPasses, StoresOK, Campaign, Link,
       money, past, faults
  <2>2. Grows /\ TransactionsAreBacked' /\ UNCHANGED req
    BY <1>0, <1>2 DEF EditLive, Terminate, Show, DayPasses, StoresOK, Campaign, Grows, Has,
       IsPaid, TransactionsAreBacked, money
  <2> QED BY <2>1, <2>2, OthersKeep
<1>3. CASE UNCHANGED vars
  BY <1>0, <1>3, OthersKeep DEF vars, StoresOK, Grows, Has, IsPaid, TransactionsAreBacked
<1> QED
  BY <1>1, <1>2, <1>3, StartsKeep, StepsKeep DEF Next

\* It holds at the start.
LEMMA Initially == Init => AdInv
<1> SUFFICES ASSUME Init PROVE AdInv
  OBVIOUS
<1>1. NewAd \in Link
  BY StatusNames DEF NewAd, Link
<1>2. Idle \in Request
  BY <1>1 DEF Idle, Request, Operations, Steps
<1>3. TypeOK
  <2>1. campaign \in Campaign /\ link \in Link
    BY <1>1 DEF Init, Campaign
  <2>2. row \in [Payments -> Row] /\ sent \in [Payments -> Nat]
        /\ keys \in [Payments -> SUBSET Nat]
    BY DEF Init, Row
  <2> QED BY <1>2, <2>1, <2>2 DEF Init, TypeOK
<1>4. TransactionsAreBacked /\ RequestInv
  BY DEF Init, TransactionsAreBacked, RequestInv, Knows, Idle, Transactions
<1> QED BY <1>3, <1>4 DEF AdInv

\* Every reachable state is well typed, for any numbers of requests, payments and
\* budgets.
THEOREM TypeCorrect == Spec => []TypeOK
BY Initially, Inductive, PTL DEF Spec, AdInv

\* A campaign's transaction has its bid, and a bid its payment, whatever overlaps,
\* fails and dies.
THEOREM AlwaysBacked == Spec => []TransactionsAreBacked
BY Initially, Inductive, PTL DEF Spec, AdInv

-----------------------------------------------------------------------------
\* The money.

\* A request's fields after a step of its own, or of another request.
LEMMA GoesTo ==
    ASSUME req \in [Requests -> Request], NEW r \in Requests, NEW pc, Goto(r, pc)
    PROVE  /\ req'[r].pc = pc /\ req'[r].op = req[r].op /\ req'[r].pay = req[r].pay
           /\ req'[r].new = req[r].new /\ req'[r].trans = req[r].trans
           /\ req'[r].link = req[r].link /\ req'[r].already = req[r].already
           /\ \A q \in Requests : q # r => req'[q] = req[q]
BY DEF Goto, Request

LEMMA IsDone ==
    ASSUME req \in [Requests -> Request], NEW r \in Requests, Done(r)
    PROVE  /\ req'[r].pc = "idle" /\ req'[r].op = "none"
           /\ \A q \in Requests : q # r => req'[q] = req[q]
BY DEF Done, Idle

LEMMA Began ==
    ASSUME req \in [Requests -> Request], NEW r \in Requests, NEW op, NEW pc, NEW p, NEW new,
           Begin(r, op, pc, p, new)
    PROVE  /\ req[r].pc = "idle"
           /\ req'[r].pc = pc /\ req'[r].op = op /\ req'[r].pay = p
           /\ req'[r].new = new /\ req'[r].trans = campaign.trans
           /\ \A q \in Requests : q # r => req'[q] = req[q]
BY DEF Begin

\* The row never says more was refunded than the provider sent back, which is never
\* more than the price; a key the provider has seen names money it has sent.
Books(p) ==
    /\ row[p].back <= sent[p] /\ sent[p] <= row[p].price
    /\ \A k \in keys[p] : k <= sent[p]
    /\ row[p].status \in {"none", "open"} => sent[p] = 0

\* What a request is about to note was sent.
Noted(r) ==
    req[r].pc = "noting" /\ Total(r) < row[req[r].trans].price =>
        Total(r) <= sent[req[r].trans]

MoneyInv == (\A p \in Payments : Books(p)) /\ (\A r \in Requests : Noted(r))

\* What types say of a payment and of the one a request notes.
LEMMA MoneyTypes ==
    ASSUME AdInv
    PROVE  /\ \A p \in Payments :
                 /\ row[p].price \in Nat /\ row[p].back \in Nat /\ sent[p] \in Nat
                 /\ keys[p] \subseteq Nat
                 /\ row[p].status \in {"none", "open", "paid", "refunded"}
                 /\ row[p] = [status |-> row[p].status, price |-> row[p].price,
                              back |-> row[p].back]
           /\ \A r \in Requests :
                 /\ req[r].already \in Nat /\ Total(r) \in Nat
                 /\ req[r].pc \in {"marking", "unbidding", "returning", "noting"} =>
                       req[r].trans \in Payments
                 /\ req[r].trans \in Payments => IsPaid(req[r].trans)
                 /\ req[r].op = "pay" => req[r].pay \in Payments /\ IsPaid(req[r].pay)
           /\ Unspent \in Nat
<1>1. \A p \in Payments : row[p] \in Row /\ sent[p] \in Nat /\ keys[p] \subseteq Nat
  BY DEF AdInv, TypeOK
<1>2. \A b \in Budgets \cup {0} : b \in Nat
  BY AdAssumption
<1>3. \A x \in Row : /\ x.price \in Budgets \cup {0} /\ x.back \in Nat
                     /\ x.status \in {"none", "open", "paid", "refunded"}
                     /\ x = [status |-> x.status, price |-> x.price, back |-> x.back]
  BY DEF Row
<1>4. \A p \in Payments : row[p].price \in Nat
  BY <1>1, <1>2, <1>3, Zenon
<1>5. Unspent \in Nat
  BY AdAssumption
<1>6. ASSUME NEW r \in Requests
      PROVE  /\ req[r].already \in Nat /\ Total(r) \in Nat
             /\ req[r].pc \in {"marking", "unbidding", "returning", "noting"} =>
                   req[r].trans \in Payments
             /\ req[r].trans \in Payments => IsPaid(req[r].trans)
             /\ req[r].op = "pay" => req[r].pay \in Payments /\ IsPaid(req[r].pay)
  <2>1. req[r] \in Request /\ Knows(r)
    BY DEF AdInv, TypeOK, RequestInv
  <2>2. req[r].already \in Nat
    BY <2>1 DEF Request
  <2> QED BY <1>5, <2>1, <2>2, AdAssumption
         DEF Knows, Total, AdInv, TransactionsAreBacked, Has, IsPaid
<1> QED BY <1>1, <1>3, <1>4, <1>5, <1>6

\* A step of r that only sends more of p, or notes what was sent, keeps the books.
LEMMA MoneyMoves ==
    ASSUME AdInv, MoneyInv,
           \A p \in Payments :
              /\ Books(p)'
              /\ sent[p] <= sent'[p] /\ sent'[p] \in Nat
              /\ IsPaid(p) => row'[p].price = row[p].price,
           \A q \in Requests :
              \/ Noted(q)'
              \/ /\ req'[q].pc = "noting" => req[q].pc = "noting"
                 /\ req'[q].trans = req[q].trans /\ req'[q].already = req[q].already
    PROVE  MoneyInv'
<1> SUFFICES ASSUME NEW q \in Requests,
                    req'[q].pc = "noting" => req[q].pc = "noting",
                    req'[q].trans = req[q].trans, req'[q].already = req[q].already
             PROVE  Noted(q)'
  BY DEF MoneyInv
<1>1. Total(q)' = Total(q)
  BY DEF Total
<1>2. SUFFICES ASSUME req'[q].pc = "noting", Total(q) < row'[req[q].trans].price
               PROVE  Total(q) <= sent'[req[q].trans]
  BY <1>1 DEF Noted
<1> DEFINE p == req[q].trans
<1>3. p \in Payments /\ IsPaid(p) /\ Total(q) \in Nat /\ sent[p] \in Nat
  BY <1>2, MoneyTypes
<1>4. row'[p].price = row[p].price /\ sent[p] <= sent'[p] /\ sent'[p] \in Nat
  BY <1>3
<1>5. Total(q) <= sent[p]
  BY <1>2, <1>4 DEF MoneyInv, Noted
<1> QED BY <1>3, <1>4, <1>5

\* A step that moves no money keeps them.
LEMMA MoneyStays ==
    ASSUME AdInv, MoneyInv, UNCHANGED <<row, sent, keys>>,
           \A q \in Requests :
              req'[q].pc = "noting" =>
                 /\ req[q].pc = "noting"
                 /\ req'[q].trans = req[q].trans /\ req'[q].already = req[q].already
    PROVE  MoneyInv'
<1>1. \A p \in Payments : Books(p)'
  BY DEF MoneyInv, Books
<1>2. ASSUME NEW q \in Requests, req'[q].pc = "noting" PROVE Noted(q)'
  <2>1. Total(q)' = Total(q)
    BY <1>2 DEF Total
  <2> QED BY <1>2, <2>1 DEF MoneyInv, Noted
<1> QED BY <1>1, <1>2 DEF MoneyInv, Noted

\* Every step keeps the money.
LEMMA MoneyInductive ==
    ASSUME AdInv, MoneyInv, [Next]_vars
    PROVE  MoneyInv'
<1>0. /\ row \in [Payments -> Row] /\ sent \in [Payments -> Nat]
      /\ keys \in [Payments -> SUBSET Nat] /\ req \in [Requests -> Request]
      /\ \A p \in Payments : Books(p)
      /\ None \notin Payments
  BY AdAssumption DEF AdInv, TypeOK, MoneyInv
<1>1. ASSUME NEW p \in Payments, Checkout(p) PROVE MoneyInv'
  <2>1. /\ row' = [row EXCEPT ![p] =
                      [status |-> "open", price |-> campaign.budget, back |-> 0]]
        /\ row[p].status = "none" /\ UNCHANGED <<sent, keys, req>> /\ campaign.budget \in Nat
    <3>1. campaign.budget \in Budgets /\ Budgets \subseteq Nat
      BY AdAssumption DEF AdInv, TypeOK, Campaign
    <3> QED BY <1>1, <3>1 DEF Checkout
  <2>2. ASSUME NEW t \in Payments PROVE Books(t)'
    BY <1>0, <2>1, MoneyTypes DEF Books
  <2>3. ASSUME NEW t \in Payments, IsPaid(t) PROVE row'[t].price = row[t].price
    BY <1>0, <2>1, <2>3 DEF IsPaid
  <2> QED BY <1>0, <2>1, <2>2, <2>3, MoneyMoves, MoneyTypes
<1>2. ASSUME NEW r \in Requests, NEW p \in Payments, Pay(r, p) \/ Unpay(r, p) PROVE MoneyInv'
  <2>1. /\ \/ row' = [row EXCEPT ![p].status = "paid"] /\ row[p].status = "open" /\ sent' = sent
           \/ /\ row' = [row EXCEPT ![p].status = "refunded"] /\ row[p].status = "paid"
              /\ sent' = [sent EXCEPT ![p] = row[p].price]
        /\ keys' = keys
    BY <1>2 DEF Pay, Unpay
  <2>2. /\ req'[r].pc # "noting" /\ \A q \in Requests : q # r => req'[q] = req[q]
    BY <1>0, <1>2, Began DEF Pay, Unpay
  <2>3. ASSUME NEW t \in Payments
        PROVE  /\ Books(t)' /\ row'[t].price = row[t].price
               /\ sent[t] <= sent'[t] /\ sent'[t] \in Nat
    BY <1>0, <2>1, MoneyTypes DEF Books
  <2>4. Noted(r)'
    BY <2>2 DEF Noted
  <2> QED BY <2>2, <2>3, <2>4, MoneyMoves
<1>3. ASSUME NEW r \in Requests, Void(r) \/ Unwanted(r) PROVE MoneyInv'
  <2>1. PICK p \in Payments \cup {None} :
           /\ \/ sent' = sent
              \/ p \in Payments /\ IsPaid(p) /\ sent' = [sent EXCEPT ![p] = row[p].price]
           /\ UNCHANGED <<row, keys>>
           /\ req'[r].pc # "noting" /\ \A q \in Requests : q # r => req'[q] = req[q]
    <3>1. CASE Void(r)
      <4>1. PICK pc : Goto(r, pc) /\ pc \in {After(r), "clearing", "unbidding", "marking"}
        BY <3>1 DEF Void
      <4>2. pc # "noting"
        BY <4>1 DEF After
      <4>3. req'[r].pc # "noting" /\ \A q \in Requests : q # r => req'[q] = req[q]
        BY <1>0, <4>1, <4>2, GoesTo
      <4>4. /\ UNCHANGED <<row, keys>>
            /\ \/ sent' = sent
               \/ /\ req[r].trans \in Payments
                  /\ sent' = [sent EXCEPT ![req[r].trans] = row[req[r].trans].price]
        BY <3>1 DEF Void, Accepts, Refuses
      <4> QED BY <4>3, <4>4, MoneyTypes
    <3>2. CASE Unwanted(r)
      <4>1. req[r].pay \in Payments /\ IsPaid(req[r].pay)
        BY <3>2 DEF Unwanted, AdInv, RequestInv, Knows
      <4>2. req'[r].pc # "noting" /\ \A q \in Requests : q # r => req'[q] = req[q]
        BY <1>0, <3>2, GoesTo, IsDone DEF Unwanted
      <4>3. /\ UNCHANGED <<row, keys>>
            /\ sent' = sent \/ sent' = [sent EXCEPT ![req[r].pay] = row[req[r].pay].price]
        BY <3>2 DEF Unwanted, Accepts, Refuses
      <4> QED BY <4>1, <4>2, <4>3
    <3> QED BY <1>3, <3>1, <3>2
  <2>2. ASSUME NEW t \in Payments
        PROVE  /\ Books(t)' /\ row'[t].price = row[t].price
               /\ sent[t] <= sent'[t] /\ sent'[t] \in Nat
    <3>1. CASE p = t /\ IsPaid(t) /\ sent' = [sent EXCEPT ![p] = row[p].price]
      <4>1. sent'[t] = row[t].price
        BY <1>0, <3>1
      <4> QED BY <1>0, <2>1, <4>1, MoneyTypes DEF Books, IsPaid
    <3>2. CASE sent'[t] = sent[t]
      BY <1>0, <2>1, <3>2, MoneyTypes DEF Books
    <3> QED BY <1>0, <2>1, <3>1, <3>2
  <2>3. Noted(r)'
    BY <2>1 DEF Noted
  <2> QED BY <2>1, <2>2, <2>3, MoneyMoves
<1>4. ASSUME NEW r \in Requests, Mark(r) \/ MarkUnwanted(r) PROVE MoneyInv'
  <2>1. PICK p \in Payments :
           /\ row' = [row EXCEPT ![p].status = "refunded"]
           /\ UNCHANGED <<sent, keys>>
           /\ req'[r].pc # "noting" /\ \A q \in Requests : q # r => req'[q] = req[q]
    <3>1. CASE Mark(r)
      <4>1. req[r].trans \in Payments
        BY <3>1, MoneyTypes DEF Mark
      <4>2. req'[r].pc # "noting" /\ \A q \in Requests : q # r => req'[q] = req[q]
        BY <1>0, <3>1, GoesTo DEF Mark
      <4> QED BY <3>1, <4>1, <4>2 DEF Mark
    <3>2. CASE MarkUnwanted(r)
      BY <1>0, <3>2, IsDone DEF MarkUnwanted, AdInv, RequestInv, Knows
    <3> QED BY <1>4, <3>1, <3>2
  <2>2. ASSUME NEW t \in Payments
        PROVE  /\ Books(t)' /\ row'[t].price = row[t].price
               /\ sent[t] <= sent'[t] /\ sent'[t] \in Nat
    BY <1>0, <2>1, MoneyTypes DEF Books
  <2>3. Noted(r)'
    BY <2>1 DEF Noted
  <2> QED BY <2>1, <2>2, <2>3, MoneyMoves
<1>5. ASSUME NEW r \in Requests, Return(r) PROVE MoneyInv'
  <2> DEFINE p == req[r].trans
             key == row[p].back + Unspent
  <2>1. p \in Payments /\ row' = row /\ Books(p)
    BY <1>0, <1>5, MoneyTypes DEF Return
  <2>2. /\ \A q \in Requests : q # r => req'[q] = req[q]
        /\ req'[r].trans = p /\ req'[r].already = row[p].back
        /\ req'[r].pc \in {"noting", "closing"}
    BY <1>0, <1>5 DEF Return, Request
  <2>3. Total(r)' = key
    BY <2>2 DEF Total
  <2>4. /\ row[p].price \in Nat /\ row[p].back \in Nat /\ sent[p] \in Nat /\ keys[p] \subseteq Nat
        /\ key \in Nat /\ row[p].back <= sent[p] /\ sent[p] <= row[p].price /\ Unspent \in Nat
        /\ \A k \in keys[p] : k <= sent[p]
        /\ IsPaid(p)
    <3>1. row[p].price \in Nat /\ row[p].back \in Nat /\ sent[p] \in Nat /\ keys[p] \subseteq Nat
          /\ Unspent \in Nat /\ IsPaid(p)
      BY <1>5, <2>1, MoneyTypes
    <3> QED BY <2>1, <3>1 DEF Books
  <2>5. \/ UNCHANGED <<sent, keys>> /\ req'[r].pc = "closing"
        \/ /\ sent' = [sent EXCEPT ![p] = IF key \in keys[p] THEN @ ELSE @ + Unspent]
           /\ keys' = [keys EXCEPT ![p] = @ \cup {key}]
           /\ key \in keys[p] \/ sent[p] + Unspent <= row[p].price
        \/ /\ sent' = [sent EXCEPT ![p] = row[p].price] /\ keys' = keys
           /\ key >= row[p].price
    BY <1>0, <1>5 DEF Return, SendPart, Request
  <2> HIDE DEF p, key
  <2>6. /\ sent[p] <= sent'[p] /\ sent'[p] <= row[p].price /\ sent'[p] \in Nat
        /\ \A k \in keys'[p] : k <= sent'[p]
    <3>1. CASE UNCHANGED <<sent, keys>>
      BY <2>4, <3>1
    <3>2. CASE /\ sent' = [sent EXCEPT ![p] = IF key \in keys[p] THEN @ ELSE @ + Unspent]
               /\ keys' = [keys EXCEPT ![p] = @ \cup {key}]
               /\ key \in keys[p] \/ sent[p] + Unspent <= row[p].price
      <4>1. sent'[p] = (IF key \in keys[p] THEN sent[p] ELSE sent[p] + Unspent)
            /\ keys'[p] = keys[p] \cup {key}
        BY <1>0, <2>1, <3>2
      <4>2. key = row[p].back + Unspent
        BY DEF key
      <4>3. CASE key \in keys[p]
        BY <2>4, <4>1, <4>3
      <4>4. CASE key \notin keys[p]
        <5>1. sent'[p] = sent[p] + Unspent /\ sent[p] + Unspent <= row[p].price
          BY <3>2, <4>1, <4>4
        <5>2. key <= sent'[p] /\ sent[p] <= sent'[p]
          BY <2>4, <4>2, <5>1
        <5>3. \A k \in keys[p] : k <= sent'[p]
          BY <2>4, <5>1
        <5> QED BY <2>4, <4>1, <5>1, <5>2, <5>3
      <4> QED BY <4>3, <4>4
    <3>3. CASE sent' = [sent EXCEPT ![p] = row[p].price] /\ keys' = keys
      <4>1. sent'[p] = row[p].price
        BY <1>0, <2>1, <3>3
      <4> QED BY <2>4, <3>3, <4>1
    <3> QED BY <2>5, <3>1, <3>2, <3>3
  <2>7. \A t \in Payments : t # p => sent'[t] = sent[t] /\ keys'[t] = keys[t]
    BY <1>0, <2>1, <2>5
  <2>8. ASSUME NEW t \in Payments
        PROVE  /\ Books(t)' /\ row'[t].price = row[t].price
               /\ sent[t] <= sent'[t] /\ sent'[t] \in Nat
    <3>1. CASE t = p
      BY <2>1, <2>4, <2>6, <3>1 DEF Books, IsPaid
    <3>2. CASE t # p
      BY <1>0, <2>1, <2>7, <3>2, MoneyTypes DEF Books
    <3> QED BY <3>1, <3>2
  <2>9. Noted(r)'
    <3>1. SUFFICES ASSUME req'[r].pc = "noting", key < row[p].price PROVE key <= sent'[p]
      BY <2>1, <2>2, <2>3 DEF Noted
    <3>2. keys'[p] = keys[p] \cup {key}
      <4>1. ~(key >= row[p].price)
        BY <2>4, <3>1
      <4> QED BY <1>0, <2>1, <2>5, <3>1, <4>1
    <3> QED BY <2>6, <3>2
  <2> QED BY <2>2, <2>8, <2>9, MoneyMoves
<1>6. ASSUME NEW r \in Requests, Note(r) PROVE MoneyInv'
  <2> DEFINE p == req[r].trans
  <2>1. /\ p \in Payments /\ IsPaid(p) /\ Noted(r) /\ Total(r) \in Nat
        /\ req[r].pc = "noting" /\ row[p].price \in Nat
    BY <1>6, MoneyTypes DEF Note, MoneyInv
  <2>2. req'[r].pc = "closing" /\ \A q \in Requests : q # r => req'[q] = req[q]
    BY <1>0, <1>6, GoesTo DEF Note
  <2>3. /\ UNCHANGED <<sent, keys>>
        /\ \/ row' = [row EXCEPT ![p].back = Total(r)] /\ Total(r) <= sent[p]
           \/ row' = [row EXCEPT ![p].status = "refunded"]
    BY <1>6, <2>1 DEF Note, Noted
  <2>4. ASSUME NEW t \in Payments
        PROVE  /\ Books(t)' /\ row'[t].price = row[t].price
               /\ sent[t] <= sent'[t] /\ sent'[t] \in Nat
    BY <1>0, <2>1, <2>3, MoneyTypes DEF Books, IsPaid
  <2>5. Noted(r)'
    BY <2>2 DEF Noted
  <2> QED BY <2>2, <2>4, <2>5, MoneyMoves
<1>7. ASSUME NEW r \in Requests,
             \/ \E b \in Budgets : Edit(r, b)
             \/ Delete(r) \/ GiveFree(r) \/ Reject(r) \/ DeleteLink(r) \/ Accept(r)
             \/ StartJob(r) \/ Refund(r)
      PROVE  MoneyInv'
  <2>1. UNCHANGED <<row, sent, keys>>
    BY <1>7 DEF Edit, Delete, GiveFree, Reject, DeleteLink, Accept, StartJob, Refund, money
  <2>2. \/ req' = req
        \/ req'[r].pc # "noting" /\ \A q \in Requests : q # r => req'[q] = req[q]
    BY <1>0, <1>7, Began
       DEF Edit, Delete, GiveFree, Reject, DeleteLink, Accept, StartJob, Refund
  <2> QED BY <2>1, <2>2, MoneyStays
<1>8. ASSUME NEW r \in Requests,
             \/ Unbid(r) \/ Clear(r) \/ Load(r) \/ Book(r) \/ Attach(r) \/ Review(r)
             \/ SetBudget(r) \/ SetDeleted(r) \/ FreeBid(r) \/ Name(r) \/ OnRefunded(r)
             \/ Rejecting(r) \/ Charge(r) \/ Queue(r) \/ Promote(r) \/ Launch(r) \/ Expire(r)
             \/ ReturnFails(r) \/ Close(r) \/ Crash(r)
      PROVE  MoneyInv'
  <2>1. UNCHANGED <<row, sent, keys>>
    BY <1>8 DEF Unbid, Clear, Load, Book, Attach, Review, SetBudget, SetDeleted, FreeBid, Name,
       OnRefunded, Rejecting, Charge, Queue, Promote, Launch, Expire, ReturnFails, Close, Crash,
       money
  <2>2. req'[r].pc # "noting" /\ \A q \in Requests : q # r => req'[q] = req[q]
    <3>1. After(r) # "noting"
      BY DEF After
    <3>2. CASE Unbid(r) \/ Clear(r) \/ Book(r) \/ Attach(r) \/ Review(r)
               \/ SetBudget(r) \/ SetDeleted(r) \/ FreeBid(r) \/ Name(r) \/ OnRefunded(r)
               \/ Queue(r) \/ Launch(r) \/ Expire(r) \/ ReturnFails(r) \/ Close(r) \/ Crash(r)
      BY <1>0, <3>1, <3>2, GoesTo, IsDone DEF Unbid, Clear, Book, Attach, Review, SetBudget,
         SetDeleted, FreeBid, Name, OnRefunded, Queue, Launch, Expire, ReturnFails, Close, Crash
    <3>3. CASE Load(r)
      BY <1>0, <3>3 DEF Load, Request
    <3>4. CASE Rejecting(r) \/ Charge(r) \/ Promote(r)
      BY <1>0, <3>4, GoesTo, IsDone DEF Rejecting, Charge, Promote, Request
    <3> QED BY <1>8, <3>2, <3>3, <3>4
  <2> QED BY <2>1, <2>2, MoneyStays
<1>9. CASE EditLive \/ Terminate \/ Show \/ DayPasses \/ UNCHANGED vars
  <2>1. UNCHANGED <<row, sent, keys, req>>
    BY <1>9 DEF EditLive, Terminate, Show, DayPasses, vars, money
  <2> QED BY <2>1, MoneyStays
<1> QED
  BY <1>1, <1>2, <1>3, <1>4, <1>5, <1>6, <1>7, <1>8, <1>9 DEF Next, Start, Step

-----------------------------------------------------------------------------
\* Requests that do not overlap.

\* The job changes no transaction, so only the others count.
JobSteps == {"charging", "queueing", "promoting", "launching", "expiring"}
JobInv == \A r \in Requests : req[r].op = "job" => req[r].pc \in JobSteps

Solo == crashes = 0 /\ ~overlap
Works(r) == req[r].pc # "idle" /\ req[r].op # "job"
Kept(p) == row[p].status = "paid"

Voiding == {"voiding", "marking", "unbidding", "clearing"}
Paying == {"loading", "refusing", "refused", "voiding", "marking", "unbidding", "clearing",
           "booking", "attaching"}

\* The campaign runs on p.
Mine(p) ==
    /\ campaign.trans = p /\ bid[p] \in {"charge", "refund"}
    /\ ~campaign.deleted /\ row[p].price = campaign.budget

\* What a request that works alone can count on: the transaction in its hand is still
\* the campaign's; a payment it takes away is refunded, or told, before the campaign
\* loses it; where it writes a new one the campaign has none; its own payment is paid,
\* without a bid until it books one, and is for the budget of the campaign.
Grip(r) ==
    LET x == req[r]
    IN  /\ x.pc \in Voiding \cup {"returning", "noting", "closing", "unpaying"} =>
              x.trans = campaign.trans
        /\ x.pc = "marking" => Kept(x.trans)
        /\ x.pc \in {"unbidding", "clearing"} /\ x.trans \in Payments =>
              ~Kept(x.trans) \/ x.trans \in byhand
        /\ x.pc \in {"booking", "attaching", "budgeting", "deleting", "freeing", "naming"} =>
              campaign.trans = None
        /\ x.pc = "reviewing" /\ x.op = "free" => campaign.trans = None
        /\ x.op = "pay" /\ x.pc \in Paying => Kept(x.pay)
        /\ x.op = "pay" /\ x.pc \in Paying \ {"attaching"} => bid[x.pay] = "none"
        /\ x.op = "pay" /\ x.pc \in Voiding \cup {"booking", "attaching"} =>
              ~campaign.deleted /\ row[x.pay].price = campaign.budget
        /\ x.pc = "attaching" => bid[x.pay] = "charge"
        /\ x.op = "free" \/ x.pc = "naming" => ~campaign.deleted
        /\ x.op = "pay" => x.pc \notin {"unpaying", "rejecting"}
        /\ x.pc = "unpaying" => ~Kept(x.pay)
        /\ x.pc = "noting" =>
              /\ Kept(x.trans)
              /\ Total(r) < row[x.trans].price => sent[x.trans] = Total(r)

\* r has p's payment in hand, is about to note what was sent of p, or is about to take
\* p, or its charge, from the campaign.
Holding(r, p) == Works(r) /\ req[r].op = "pay" /\ req[r].pay = p /\ req[r].pc \in Paying
Sending(r, p) ==
    /\ Works(r)
    /\ \/ req[r].pc \in {"marking", "noting"} /\ req[r].trans = p
       \/ req[r].pc = "refused" /\ req[r].pay = p
Ending(r, p) ==
    /\ Works(r)
    /\ \/ req[r].pc \in {"unbidding", "clearing", "closing"} /\ req[r].trans = p
       \/ req[r].pc = "unpaying" /\ req[r].pay = p

AloneInv == Solo =>
    /\ \A q, r \in Requests : Works(q) /\ Works(r) => q = r
    /\ \A r \in Requests : Works(r) => Grip(r)
    /\ campaign.deleted => campaign.trans = None
    /\ \A p \in Payments : Kept(p) =>
          /\ p \in byhand \/ Mine(p) \/ \E r \in Requests : Holding(r, p)
          /\ sent[p] = row[p].back \/ \E r \in Requests : Sending(r, p)
    /\ campaign.trans \in Payments =>
          \/ Kept(campaign.trans)
          \/ bid[campaign.trans] = "refund"
          \/ \E r \in Requests : Ending(r, campaign.trans)

\* The same, of the one request that works.
Only(r) == \A q \in Requests : q # r => ~Works(q)
One(r) ==
    /\ Works(r) => Grip(r)
    /\ campaign.deleted => campaign.trans = None
    /\ \A p \in Payments : Kept(p) =>
          /\ p \in byhand \/ Mine(p) \/ Holding(r, p)
          /\ sent[p] = row[p].back \/ Sending(r, p)
    /\ campaign.trans \in Payments =>
          \/ Kept(campaign.trans)
          \/ bid[campaign.trans] = "refund"
          \/ Ending(r, campaign.trans)

LEMMA ToOne ==
    ASSUME AloneInv, Solo, NEW r \in Requests, Only(r)
    PROVE  One(r)
BY DEF AloneInv, Only, One, Holding, Sending, Ending

LEMMA FromOne ==
    ASSUME NEW r \in Requests, Only(r)', One(r)'
    PROVE  AloneInv'
<1>1. \A q, s \in Requests : Works(q)' /\ Works(s)' => q = s
  BY DEF Only
<1>2. \A q \in Requests : Works(q)' => Grip(q)'
  BY DEF Only, One
<1> QED BY <1>1, <1>2 DEF AloneInv, One

\* If there is one, it is alone.
LEMMA OnlyOne ==
    ASSUME AloneInv, Solo, NEW r \in Requests, Works(r)
    PROVE  Only(r)
BY DEF AloneInv, Only

LEMMA StillOnly ==
    ASSUME NEW r \in Requests, Only(r), \A q \in Requests : q # r => req'[q] = req[q]
    PROVE  Only(r)'
BY DEF Only, Works

\* A step that moves nothing of this leaves it.
LEMMA OneKept ==
    ASSUME NEW r \in Requests, One(r), UNCHANGED <<row, sent>>,
           \A p \in Payments : bid'[p] = bid[p],
           byhand \subseteq byhand',
           campaign'.trans = campaign.trans, campaign'.deleted = campaign.deleted,
           campaign'.budget = campaign.budget,
           Works(r)' => Grip(r)',
           \A p \in Payments : /\ Kept(p) /\ Holding(r, p) => Holding(r, p)' \/ p \in byhand'
                               /\ Sending(r, p) => Sending(r, p)'
                               /\ campaign.trans = p /\ Ending(r, p) => Ending(r, p)'
    PROVE  One(r)'
<1>1. ASSUME NEW p \in Payments
      PROVE  (Kept(p)' <=> Kept(p)) /\ (Mine(p)' <=> Mine(p))
  BY DEF Kept, Mine
<1>2. \A p \in Payments : Kept(p)' =>
          /\ p \in byhand' \/ Mine(p)' \/ Holding(r, p)'
          /\ sent'[p] = row'[p].back \/ Sending(r, p)'
  BY <1>1 DEF One
<1>3. campaign'.trans \in Payments =>
          \/ Kept(campaign.trans)'
          \/ bid'[campaign'.trans] = "refund"
          \/ Ending(r, campaign.trans)'
  BY <1>1 DEF One
<1>4. \A p : (Kept(p)' <=> row'[p].status = "paid")
  BY DEF Kept
<1> QED BY <1>2, <1>3, <1>4 DEF One, Kept, Ending

\* Each step of a request that works alone keeps what it can count on.
LEMMA WorkerSteps ==
    ASSUME AdInv, MoneyInv, NEW r \in Requests, Works(r), One(r), Step(r)
    PROVE  One(r)'
<1>0. /\ row \in [Payments -> Row] /\ sent \in [Payments -> Nat]
      /\ keys \in [Payments -> SUBSET Nat] /\ req \in [Requests -> Request]
      /\ campaign \in Campaign /\ byhand \subseteq Payments
      /\ bid \in [Transactions -> {"none", "auth", "charge", "refund", "void"}]
      /\ Payments \subseteq Transactions /\ Free \in Transactions
      /\ None \notin Payments /\ Free \notin Payments /\ None # Free
      /\ Knows(r) /\ TransactionsAreBacked
      /\ campaign.trans \in Transactions \cup {None}
  BY AdAssumption DEF AdInv, TypeOK, RequestInv, Transactions, Campaign
<1>g. Grip(r) /\ req[r].pc # "idle" /\ req[r].op # "job"
  BY DEF One, Works
<1>d. campaign.deleted => campaign.trans = None
  BY DEF One
<1>p. \A p \in Payments : Kept(p) =>
          /\ p \in byhand \/ Mine(p) \/ Holding(r, p)
          /\ sent[p] = row[p].back \/ Sending(r, p)
  BY DEF One
<1>l. campaign.trans \in Payments =>
          \/ Kept(campaign.trans)
          \/ bid[campaign.trans] = "refund"
          \/ Ending(r, campaign.trans)
  BY DEF One
<1>1. CASE Void(r)
  <2> DEFINE t == req[r].trans
  <2>1. /\ req[r].pc = "voiding" /\ UNCHANGED <<campaign, row>> /\ t = campaign.trans
        /\ t \in Payments => IsPaid(t)
        /\ req[r].op = "pay" => req[r].pay \in Payments
    BY <1>1, <1>g, MoneyTypes DEF Void, Grip, Voiding
  <2>2. CASE t \notin Payments
    <3>1. /\ UNCHANGED <<sent, byhand>> /\ \A p \in Payments : bid'[p] = bid[p]
          /\ Goto(r, IF t = Free THEN "clearing" ELSE After(r))
      BY <1>0, <1>1, <2>2 DEF Void
    <3>2. /\ req'[r].op = req[r].op /\ req'[r].pay = req[r].pay /\ req'[r].trans = t
          /\ t = Free => req'[r].pc = "clearing"
          /\ t = None => /\ req'[r].pc = After(r)
                         /\ req'[r].op \in {"pay", "edit", "delete", "free"}
          /\ t \in {None, Free}
      BY <1>0, <2>1, <2>2, <3>1, GoesTo DEF Knows, Transactions
    <3>3. /\ req'[r].pc \in {"clearing", "booking", "budgeting", "deleting", "freeing"}
          /\ req'[r].pc = "booking" => req[r].op = "pay"
          /\ req[r].op = "pay" => req'[r].pc \in {"clearing", "booking"}
          /\ req'[r].pc # "clearing" => t = None
      BY <1>0, <3>2 DEF After
    <3>4. Grip(r)'
      BY <1>0, <1>g, <2>1, <2>2, <3>1, <3>2, <3>3 DEF Grip, Kept, Voiding, Paying
    <3>5. \A p \in Payments : /\ Holding(r, p) => Holding(r, p)'
                              /\ ~Sending(r, p) /\ ~Ending(r, p)
      BY <1>g, <2>1, <3>2, <3>3 DEF Holding, Sending, Ending, Works, Paying
    <3> QED BY <2>1, <3>1, <3>4, <3>5, OneKept
  <2>3. CASE t \in Payments /\ (row[t].status = "refunded" \/ t \in Manual)
    <3>1. /\ UNCHANGED <<sent, bid>> /\ Goto(r, "unbidding")
          /\ byhand' = byhand \/ byhand' = byhand \cup {t}
          /\ Kept(t) => byhand' = byhand \cup {t}
      BY <1>0, <1>1, <2>3 DEF Void, Kept
    <3>2. /\ req'[r].op = req[r].op /\ req'[r].pay = req[r].pay /\ req'[r].trans = t
          /\ req'[r].pc = "unbidding"
      BY <1>0, <3>1, GoesTo
    <3>4. Grip(r)'
      BY <1>0, <1>g, <2>1, <2>3, <3>1, <3>2 DEF Grip, Kept, Voiding, Paying
    <3>5. \A p \in Payments : /\ Holding(r, p) => Holding(r, p)'
                              /\ ~Sending(r, p) /\ ~Ending(r, p)
      BY <1>g, <2>1, <3>2 DEF Holding, Sending, Ending, Works, Paying
    <3> QED BY <2>1, <3>1, <3>4, <3>5, OneKept
  <2>4. CASE t \in Payments /\ row[t].status = "paid" /\ t \notin Manual
    <3>1. \/ sent' = [sent EXCEPT ![t] = row[t].price] /\ Goto(r, "marking")
             /\ UNCHANGED <<bid, byhand>>
          \/ sent' = sent /\ Goto(r, "clearing") /\ UNCHANGED bid /\ byhand' = byhand \cup {t}
      BY <1>0, <1>1, <2>4 DEF Void, Accepts, Refuses
    <3>2. /\ req'[r].op = req[r].op /\ req'[r].pay = req[r].pay /\ req'[r].trans = t
          /\ req'[r].pc \in {"marking", "clearing"}
      BY <1>0, <3>1, GoesTo
    <3>3. req'[r].pc = "clearing" => t \in byhand' /\ sent' = sent
      BY <1>0, <3>1, GoesTo
    <3>4. Grip(r)'
      BY <1>0, <1>g, <2>1, <2>4, <3>1, <3>2, <3>3 DEF Grip, Kept, Voiding, Paying
    <3>5. ASSUME NEW p \in Payments, Kept(p)'
          PROVE  /\ p \in byhand' \/ Mine(p)' \/ Holding(r, p)'
                 /\ sent'[p] = row'[p].back \/ Sending(r, p)'
      <4>1. Kept(p) /\ byhand \subseteq byhand' /\ ~Sending(r, p)
        BY <1>0, <2>1, <3>1, <3>5 DEF Kept, Sending
      <4>2. Mine(p)' <=> Mine(p)
        BY <2>1, <3>1 DEF Mine
      <4>3. Holding(r, p) => Holding(r, p)'
        BY <1>g, <3>2 DEF Holding, Works, Paying
      <4>4. sent'[p] = row'[p].back \/ Sending(r, p)'
        <5>1. CASE p = t /\ req'[r].pc = "marking"
          BY <1>g, <3>2, <5>1 DEF Sending, Works
        <5>2. CASE p # t \/ req'[r].pc = "clearing"
          BY <1>0, <1>p, <2>1, <3>1, <3>3, <4>1, <5>2
        <5> QED BY <3>2, <5>1, <5>2
      <4> QED BY <1>p, <4>1, <4>2, <4>3, <4>4
    <3>6. Kept(campaign.trans)' /\ campaign' = campaign
      BY <2>1, <2>4 DEF Kept
    <3> QED BY <1>d, <3>4, <3>5, <3>6 DEF One, Kept
  <2> QED BY <2>1, <2>2, <2>3, <2>4 DEF IsPaid
<1>b. ASSUME NEW t \in Payments, campaign.trans = t
      PROVE  bid[t] # "none"
  BY <1>0, <1>b DEF TransactionsAreBacked
<1>2. CASE Mark(r)
  <2> DEFINE t == req[r].trans
  <2>1. /\ req[r].pc = "marking" /\ t = campaign.trans /\ t \in Payments /\ bid[t] # "none"
        /\ UNCHANGED <<campaign, sent, byhand, bid>>
        /\ row' = [row EXCEPT ![t].status = "refunded"]
        /\ req[r].op = "pay" => req[r].pay \in Payments /\ bid[req[r].pay] = "none"
    BY <1>2, <1>b, <1>g, MoneyTypes DEF Mark, Grip, Voiding, Paying
  <2>2. /\ req'[r].op = req[r].op /\ req'[r].pay = req[r].pay /\ req'[r].trans = t
        /\ req'[r].pc = "unbidding"
    BY <1>0, <1>2, GoesTo DEF Mark
  <2>3. /\ row'[t].status = "refunded"
        /\ \A p \in Payments : p # t => row'[p] = row[p]
    BY <1>0, <2>1 DEF Row
  <2>4. Grip(r)'
    BY <1>0, <1>g, <2>1, <2>2, <2>3 DEF Grip, Kept, Voiding, Paying
  <2>5. ASSUME NEW p \in Payments, Kept(p)'
        PROVE  /\ p \in byhand' \/ Mine(p)' \/ Holding(r, p)'
               /\ sent'[p] = row'[p].back \/ Sending(r, p)'
    <3>1. p # t /\ row'[p] = row[p] /\ Kept(p)
      BY <2>3, <2>5 DEF Kept
    <3>2. (Mine(p)' <=> Mine(p)) /\ (Holding(r, p) => Holding(r, p)') /\ ~Sending(r, p)
      BY <1>g, <2>1, <2>2, <3>1 DEF Mine, Holding, Sending, Works, Paying
    <3> QED BY <1>p, <2>1, <3>1, <3>2
  <2>6. Ending(r, campaign.trans)' /\ campaign' = campaign
    BY <1>g, <2>1, <2>2 DEF Ending, Works
  <2> QED BY <1>d, <2>4, <2>5, <2>6 DEF One
<1>3. CASE Unbid(r)
  <2> DEFINE t == req[r].trans
  <2>1. /\ req[r].pc = "unbidding" /\ t = campaign.trans /\ t \in Payments /\ bid[t] # "none"
        /\ UNCHANGED <<campaign, row, sent, byhand>>
        /\ ~Kept(t) \/ t \in byhand
        /\ bid' = [bid EXCEPT ![t] = "void"]
        /\ req[r].op = "pay" => req[r].pay \in Payments /\ bid[req[r].pay] = "none"
    BY <1>3, <1>b, <1>g, MoneyTypes DEF Unbid, Grip, Voiding, Paying, money
  <2>2. /\ req'[r].op = req[r].op /\ req'[r].pay = req[r].pay /\ req'[r].trans = t
        /\ req'[r].pc = "clearing"
    BY <1>0, <1>3, GoesTo DEF Unbid
  <2>3. \A p \in Payments : p # t => bid'[p] = bid[p]
    BY <1>0, <2>1
  <2>4. Grip(r)'
    BY <1>0, <1>g, <2>1, <2>2, <2>3 DEF Grip, Kept, Voiding, Paying
  <2>5. ASSUME NEW p \in Payments, Kept(p)'
        PROVE  /\ p \in byhand' \/ Mine(p)' \/ Holding(r, p)'
               /\ sent'[p] = row'[p].back \/ Sending(r, p)'
    <3>1. Kept(p) /\ ~Sending(r, p) /\ (Holding(r, p) => Holding(r, p)')
      BY <1>g, <2>1, <2>2, <2>5 DEF Kept, Holding, Sending, Works, Paying
    <3>2. CASE p = t
      BY <1>p, <2>1, <3>1, <3>2
    <3>3. CASE p # t
      <4>1. ~Mine(p)
        BY <2>1, <3>3 DEF Mine
      <4> QED BY <1>p, <2>1, <3>1, <4>1
    <3> QED BY <3>2, <3>3
  <2>6. Ending(r, campaign.trans)' /\ campaign' = campaign
    BY <1>g, <2>1, <2>2 DEF Ending, Works
  <2> QED BY <1>d, <2>4, <2>5, <2>6 DEF One
<1>4. CASE Clear(r)
  <2> DEFINE t == req[r].trans
  <2>1. /\ req[r].pc = "clearing" /\ t = campaign.trans
        /\ t \in Payments => ~Kept(t) \/ t \in byhand
        /\ campaign' = [campaign EXCEPT !.trans = None]
        /\ UNCHANGED <<row, sent, byhand, bid>>
        /\ IF After(r) = "ended" THEN Done(r) ELSE Goto(r, After(r))
    BY <1>4, <1>g DEF Clear, Grip, Voiding, money
  <2>2. /\ campaign'.trans = None /\ campaign'.deleted = campaign.deleted
        /\ campaign'.budget = campaign.budget
    BY <1>0, <2>1 DEF Campaign
  <2>3. CASE After(r) = "ended"
    <3>1. req[r].op # "pay" /\ ~Works(r)' /\ ~Holding(r, req[r].pay)
      BY <1>0, <2>1, <2>3, IsDone DEF After, Works, Holding
    <3>2. ASSUME NEW p \in Payments, Kept(p)'
          PROVE  p \in byhand' /\ sent'[p] = row'[p].back
      <4>1. Kept(p) /\ ~Holding(r, p) /\ ~Sending(r, p)
        BY <2>1, <3>1, <3>2 DEF Kept, Holding, Sending
      <4>2. Mine(p) => p \in byhand
        BY <2>1, <4>1 DEF Mine
      <4> QED BY <1>p, <2>1, <4>1, <4>2
    <3> QED BY <1>0, <2>2, <3>1, <3>2 DEF One
  <2>4. CASE After(r) # "ended"
    <3>1. /\ req'[r].op = req[r].op /\ req'[r].pay = req[r].pay /\ req'[r].trans = t
          /\ req'[r].pc \in {"booking", "budgeting", "deleting", "freeing"}
          /\ req'[r].pc = "booking" <=> req[r].op = "pay"
      BY <1>0, <2>1, <2>4, GoesTo DEF After
    <3>2. Grip(r)'
      BY <1>0, <1>g, <2>1, <2>2, <3>1 DEF Grip, Kept, Voiding, Paying
    <3>3. ASSUME NEW p \in Payments, Kept(p)'
          PROVE  /\ p \in byhand' \/ Holding(r, p)'
                 /\ sent'[p] = row'[p].back
      <4>1. Kept(p) /\ (Holding(r, p) => Holding(r, p)') /\ ~Sending(r, p)
        BY <1>g, <2>1, <3>1, <3>3 DEF Kept, Holding, Sending, Works, Paying
      <4>2. Mine(p) => p \in byhand
        BY <2>1, <4>1 DEF Mine
      <4> QED BY <1>p, <2>1, <4>1, <4>2
    <3> QED BY <1>0, <2>2, <3>2, <3>3 DEF One
  <2> QED BY <2>3, <2>4
<1>5. CASE Load(r)
  <2> DEFINE p == req[r].pay
  <2>1. /\ req[r].pc = "loading" /\ req[r].op = "pay" /\ p \in Payments
        /\ UNCHANGED <<campaign, row, sent, byhand, bid>>
        /\ Kept(p) /\ bid[p] = "none"
    BY <1>0, <1>5, <1>g DEF Load, Grip, Paying, Knows, money
  <2>2. /\ req'[r].op = "pay" /\ req'[r].pay = p /\ req'[r].trans = campaign.trans
        /\ \/ req'[r].pc = "refusing"
           \/ /\ req'[r].pc = "voiding"
              /\ ~campaign.deleted /\ row[p].price = campaign.budget
    BY <1>0, <1>5, <2>1 DEF Load, Request
  <2>3. Grip(r)'
    BY <2>1, <2>2 DEF Grip, Kept, Voiding, Paying
  <2>4. \A q \in Payments : /\ Holding(r, q) => Holding(r, q)'
                            /\ ~Sending(r, q) /\ ~Ending(r, q)
    BY <1>g, <2>1, <2>2 DEF Holding, Sending, Ending, Works, Paying
  <2> QED BY <2>1, <2>3, <2>4, OneKept
<1>6. CASE Unwanted(r)
  <2> DEFINE p == req[r].pay
  <2>1. /\ req[r].pc = "refusing" /\ req[r].op = "pay" /\ p \in Payments
        /\ UNCHANGED <<campaign, row, bid>>
        /\ Kept(p) /\ bid[p] = "none"
        /\ \A q \in Payments : ~Sending(r, q) /\ ~Ending(r, q)
    BY <1>0, <1>6, <1>g DEF Unwanted, Grip, Paying, Knows, Sending, Ending
  <2>2. \/ sent' = [sent EXCEPT ![p] = row[p].price] /\ Goto(r, "refused") /\ byhand' = byhand
        \/ sent' = sent /\ Done(r) /\ byhand' = byhand \cup {p}
    BY <1>6 DEF Unwanted, Accepts, Refuses
  <2>3. CASE sent' = [sent EXCEPT ![p] = row[p].price] /\ Goto(r, "refused") /\ byhand' = byhand
    <3>1. req'[r].op = "pay" /\ req'[r].pay = p /\ req'[r].pc = "refused"
      BY <1>0, <2>1, <2>3, GoesTo
    <3>2. Grip(r)'
      BY <2>1, <3>1 DEF Grip, Kept, Voiding, Paying
    <3>3. ASSUME NEW q \in Payments, Kept(q)'
          PROVE  /\ q \in byhand' \/ Mine(q)' \/ Holding(r, q)'
                 /\ sent'[q] = row'[q].back \/ Sending(r, q)'
      <4>1. Kept(q) /\ (Mine(q)' <=> Mine(q)) /\ (Holding(r, q) => Holding(r, q)')
        BY <2>1, <3>1, <3>3 DEF Kept, Mine, Holding, Works, Paying
      <4>2. CASE q = p
        <5>1. Sending(r, q)'
          BY <3>1, <4>2 DEF Sending, Works
        <5> QED BY <1>p, <2>3, <4>1, <5>1
      <4>3. CASE q # p
        <5>1. sent'[q] = sent[q]
          BY <1>0, <2>3, <4>3
        <5> QED BY <1>p, <2>1, <2>3, <4>1, <5>1
      <4> QED BY <4>2, <4>3
    <3>4. campaign.trans \in Payments =>
              Kept(campaign.trans)' \/ bid'[campaign.trans] = "refund"
      BY <1>l, <2>1 DEF Kept
    <3> QED BY <1>d, <2>1, <3>2, <3>3, <3>4 DEF One, Kept
  <2>4. CASE sent' = sent /\ Done(r) /\ byhand' = byhand \cup {p}
    <3>1. ~Works(r)'
      BY <1>0, <2>4, IsDone DEF Works
    <3>2. \A q \in Payments : Holding(r, q) => q \in byhand'
      BY <2>4 DEF Holding
    <3> QED BY <2>1, <2>4, <3>1, <3>2, OneKept
  <2> QED BY <2>2, <2>3, <2>4
<1>7. CASE MarkUnwanted(r)
  <2> DEFINE p == req[r].pay
  <2>1. /\ req[r].pc = "refused" /\ req[r].op = "pay" /\ p \in Payments
        /\ UNCHANGED <<campaign, sent, byhand, bid>>
        /\ row' = [row EXCEPT ![p].status = "refunded"]
        /\ bid[p] = "none" /\ campaign.trans # p
        /\ Done(r)
    BY <1>0, <1>7, <1>b, <1>g DEF MarkUnwanted, Grip, Paying, Knows
  <2>2. /\ row'[p].status = "refunded"
        /\ \A q \in Payments : q # p => row'[q] = row[q]
        /\ ~Works(r)'
    BY <1>0, <2>1, IsDone DEF Row, Works
  <2>3. ASSUME NEW q \in Payments, Kept(q)'
        PROVE  /\ q \in byhand' \/ Mine(q)'
               /\ sent'[q] = row'[q].back
    <3>1. q # p /\ row'[q] = row[q] /\ Kept(q)
      BY <2>2, <2>3 DEF Kept
    <3>2. (Mine(q)' <=> Mine(q)) /\ ~Holding(r, q) /\ ~Sending(r, q)
      BY <2>1, <3>1 DEF Mine, Holding, Sending
    <3> QED BY <1>p, <2>1, <3>1, <3>2
  <2>4. campaign.trans \in Payments =>
            Kept(campaign.trans)' \/ bid'[campaign.trans] = "refund"
    <3>1. \A q : ~Ending(r, q)
      BY <2>1 DEF Ending
    <3> QED BY <1>l, <2>1, <2>2, <3>1 DEF Kept
  <2> QED BY <1>d, <2>1, <2>2, <2>3, <2>4 DEF One, Kept
<1>8. CASE Book(r)
  <2> DEFINE p == req[r].pay
  <2>1. /\ req[r].pc = "booking" /\ req[r].op = "pay" /\ p \in Payments
        /\ UNCHANGED <<campaign, row, sent, byhand>>
        /\ bid' = [bid EXCEPT ![p] = "charge"]
        /\ campaign.trans = None
    BY <1>0, <1>8, <1>g DEF Book, Grip, Knows, money
  <2>2. req'[r].op = "pay" /\ req'[r].pay = p /\ req'[r].pc = "attaching" /\ bid'[p] = "charge"
    BY <1>0, <1>8, <2>1, GoesTo DEF Book
  <2>3. Grip(r)'
    BY <1>g, <2>1, <2>2 DEF Grip, Kept, Voiding, Paying
  <2>4. ASSUME NEW q \in Payments, Kept(q)'
        PROVE  /\ q \in byhand' \/ Holding(r, q)'
               /\ sent'[q] = row'[q].back
    <3>1. Kept(q) /\ ~Mine(q) /\ ~Sending(r, q) /\ (Holding(r, q) => Holding(r, q)')
      BY <1>0, <2>1, <2>2, <2>4 DEF Kept, Mine, Sending, Holding, Works, Paying
    <3> QED BY <1>p, <2>1, <3>1
  <2> QED BY <1>0, <2>1, <2>3, <2>4 DEF One
<1>9. CASE Attach(r)
  <2> DEFINE p == req[r].pay
  <2>1. /\ req[r].pc = "attaching" /\ req[r].op = "pay" /\ p \in Payments
        /\ UNCHANGED <<row, sent, byhand, bid>>
        /\ campaign' = [campaign EXCEPT !.trans = p]
        /\ campaign.trans = None /\ Kept(p) /\ bid[p] = "charge"
        /\ ~campaign.deleted /\ row[p].price = campaign.budget
    BY <1>0, <1>9, <1>g DEF Attach, Grip, Knows, Paying, money
  <2>2. /\ req'[r].op = "pay" /\ req'[r].pc = "reviewing"
        /\ campaign'.trans = p /\ campaign'.deleted = campaign.deleted
        /\ campaign'.budget = campaign.budget
    BY <1>0, <1>9, <2>1, GoesTo DEF Attach, Campaign
  <2>3. Grip(r)'
    BY <2>1, <2>2 DEF Grip, Voiding, Paying
  <2>4. ASSUME NEW q \in Payments, Kept(q)'
        PROVE  /\ q \in byhand' \/ Mine(q)'
               /\ sent'[q] = row'[q].back
    <3>1. Kept(q) /\ ~Mine(q) /\ ~Sending(r, q) /\ (Holding(r, q) => q = p)
      BY <1>0, <2>1, <2>4 DEF Kept, Mine, Sending, Holding
    <3>2. q = p => Mine(q)'
      BY <2>1, <2>2 DEF Mine
    <3> QED BY <1>p, <2>1, <3>1, <3>2
  <2>5. Kept(campaign.trans)'
    BY <2>1, <2>2 DEF Kept
  <2> QED BY <2>1, <2>2, <2>3, <2>4, <2>5 DEF One
<1>10. CASE Review(r)
  <2>1. /\ req[r].pc = "reviewing" /\ UNCHANGED <<campaign, row, sent, byhand, bid>>
        /\ \A q \in Payments : ~Holding(r, q) /\ ~Sending(r, q) /\ ~Ending(r, q)
    BY <1>10 DEF Review, Holding, Sending, Ending, Paying, money
  <2>2. Works(r)' => Grip(r)'
    <3>1. CASE req[r].op = "free"
      <4>1. req'[r].op = "free" /\ req'[r].pc = "naming" /\ campaign.trans = None
        BY <1>0, <1>10, <1>g, <2>1, <3>1, GoesTo DEF Review, Grip
      <4> QED BY <1>g, <2>1, <3>1, <4>1 DEF Grip, Voiding, Paying
    <3>2. CASE req[r].op # "free"
      BY <1>0, <1>10, <3>2, IsDone DEF Review, Works
    <3> QED BY <3>1, <3>2
  <2> QED BY <2>1, <2>2, OneKept
<1>11. CASE SetBudget(r) \/ SetDeleted(r) \/ Name(r)
  <2>1. /\ req[r].pc \in {"budgeting", "deleting", "naming"}
        /\ UNCHANGED <<row, sent, byhand, bid>>
        /\ campaign.trans = None
        /\ req[r].pc = "naming" => ~campaign.deleted
        /\ \A q \in Payments : ~Mine(q) /\ ~Holding(r, q) /\ ~Sending(r, q)
    BY <1>0, <1>11, <1>g
       DEF SetBudget, SetDeleted, Name, Grip, Mine, Holding, Sending, Paying, money
  <2>2. /\ campaign'.trans \in {None, Free}
        /\ campaign'.deleted => campaign'.trans = None
    BY <1>0, <1>11, <2>1 DEF SetBudget, SetDeleted, Name, Campaign
  <2>3. ~Works(r)'
    BY <1>0, <1>11, IsDone DEF SetBudget, SetDeleted, Name, Works
  <2>4. ASSUME NEW q \in Payments, Kept(q)'
        PROVE  q \in byhand' /\ sent'[q] = row'[q].back
    <3>1. Kept(q)
      BY <2>1, <2>4 DEF Kept
    <3> QED BY <1>p, <2>1, <3>1
  <2> QED BY <1>0, <2>2, <2>3, <2>4 DEF One
<1>12. CASE FreeBid(r)
  <2>1. /\ req[r].pc = "freeing" /\ UNCHANGED <<campaign, row, sent, byhand>>
        /\ \A q \in Payments : bid'[q] = bid[q]
        /\ \A q \in Payments : ~Holding(r, q) /\ ~Sending(r, q) /\ ~Ending(r, q)
        /\ campaign.trans = None
    BY <1>0, <1>12, <1>g DEF FreeBid, Holding, Sending, Ending, Grip, Paying, money
  <2>2. req'[r].op = req[r].op /\ req'[r].pc = "reviewing"
    BY <1>0, <1>12, GoesTo DEF FreeBid
  <2>3. Grip(r)'
    BY <1>g, <2>1, <2>2 DEF Grip, Voiding, Paying
  <2> QED BY <2>1, <2>3, OneKept
<1>13. CASE OnRefunded(r)
  <2> DEFINE p == req[r].pay
  <2>1. /\ req[r].pc = "unpaying" /\ p \in Payments /\ ~Kept(p)
        /\ req[r].trans = campaign.trans /\ req[r].op # "pay"
        /\ UNCHANGED <<campaign, row, sent, byhand>>
        /\ \A q \in Payments : ~Holding(r, q) /\ ~Sending(r, q)
    BY <1>0, <1>13, <1>g DEF OnRefunded, Grip, Knows, Holding, Sending, money
  <2>2. CASE ~campaign.deleted /\ campaign.trans = p
    <3>1. bid' = [bid EXCEPT ![p] = "void"] /\ Goto(r, "clearing")
      BY <1>13, <2>2 DEF OnRefunded
    <3>2. /\ req'[r].op = req[r].op /\ req'[r].trans = p
          /\ req'[r].pc = "clearing"
      BY <1>0, <2>1, <2>2, <3>1, GoesTo
    <3>3. Grip(r)'
      BY <1>g, <2>1, <2>2, <3>2 DEF Grip, Kept, Voiding, Paying
    <3>4. ASSUME NEW q \in Payments, Kept(q)'
          PROVE  q \in byhand' /\ sent'[q] = row'[q].back
      <4>1. Kept(q) /\ ~Mine(q)
        BY <2>1, <2>2, <3>4 DEF Kept, Mine
      <4> QED BY <1>p, <2>1, <4>1
    <3>5. Ending(r, campaign.trans)' /\ campaign' = campaign
      BY <1>g, <2>1, <2>2, <3>2 DEF Ending, Works
    <3> QED BY <1>d, <3>3, <3>4, <3>5 DEF One
  <2>3. CASE ~(~campaign.deleted /\ campaign.trans = p)
    <3>1. bid' = bid /\ Done(r)
      BY <1>13, <2>3 DEF OnRefunded
    <3>2. ~Works(r)'
      BY <1>0, <3>1, IsDone DEF Works
    <3>3. campaign.trans # p
      BY <1>0, <1>d, <2>1, <2>3
    <3>4. ~Ending(r, campaign.trans)
      BY <2>1, <3>3 DEF Ending
    <3> QED BY <2>1, <3>1, <3>2, <3>4, OneKept
  <2> QED BY <2>2, <2>3
<1>14. CASE Rejecting(r)
  <2>1. /\ req[r].pc = "rejecting" /\ UNCHANGED <<campaign, row, sent, byhand, bid>>
        /\ \A q \in Payments : ~Holding(r, q) /\ ~Sending(r, q) /\ ~Ending(r, q)
        /\ req[r].op # "pay"
    BY <1>14, <1>g DEF Rejecting, Holding, Sending, Ending, Grip, Paying, money
  <2>2. Works(r)' => Grip(r)'
    <3>1. CASE req' = [req EXCEPT ![r].trans = campaign.trans, ![r].pc = "voiding"]
      <4>1. /\ req'[r].op = req[r].op /\ req'[r].trans = campaign.trans
            /\ req'[r].pc = "voiding"
        BY <1>0, <3>1 DEF Request
      <4> QED BY <1>g, <2>1, <4>1 DEF Grip, Voiding, Paying
    <3>2. CASE Done(r)
      BY <1>0, <3>2, IsDone DEF Works
    <3> QED BY <1>14, <3>1, <3>2 DEF Rejecting
  <2> QED BY <2>1, <2>2, OneKept
<1>15. CASE Charge(r)
  <2>1. /\ req[r].pc = "charging" /\ UNCHANGED <<campaign, row, sent, byhand>>
        /\ \A q \in Payments : ~Holding(r, q) /\ ~Sending(r, q) /\ ~Ending(r, q)
        /\ \/ bid' = bid /\ Goto(r, "promoting")
           \/ /\ bid' = [bid EXCEPT ![campaign.trans] = "charge"]
              /\ campaign.trans # None /\ bid[campaign.trans] \notin {"charge", "refund"}
              /\ req' = [req EXCEPT ![r].pc = "queueing", ![r].link = @]
    BY <1>0, <1>15, <1>g DEF Charge, ToCharge, IsAcceptedPromo, IsCharged, Holding, Sending, Ending,
       Paying, money
  <2>2. req'[r].op = req[r].op /\ req'[r].pc \in {"promoting", "queueing"}
    BY <1>0, <2>1, GoesTo DEF Request
  <2>3. Grip(r)'
    BY <1>g, <2>1, <2>2 DEF Grip, Voiding, Paying
  <2>4. CASE bid' = bid
    BY <2>1, <2>3, <2>4, OneKept
  <2>5. CASE /\ bid' = [bid EXCEPT ![campaign.trans] = "charge"]
             /\ campaign.trans # None /\ bid[campaign.trans] \notin {"charge", "refund"}
    <3>1. ASSUME NEW q \in Payments, Kept(q)'
          PROVE  q \in byhand' /\ sent'[q] = row'[q].back
      <4>1. Kept(q) /\ ~Mine(q)
        BY <2>1, <2>5, <3>1 DEF Kept, Mine
      <4> QED BY <1>p, <2>1, <4>1
    <3>2. campaign.trans \in Payments => Kept(campaign.trans)'
      BY <1>l, <2>1, <2>5 DEF Kept
    <3> QED BY <1>d, <2>1, <2>3, <3>1, <3>2 DEF One, Kept
  <2> QED BY <2>1, <2>4, <2>5
<1>16. CASE Queue(r) \/ Promote(r) \/ Launch(r) \/ Expire(r) \/ ReturnFails(r)
  <2>1. /\ req[r].pc \in {"queueing", "promoting", "launching", "expiring", "returning"}
        /\ UNCHANGED <<campaign, row, sent, byhand, bid>>
        /\ \A q \in Payments : ~Holding(r, q) /\ ~Sending(r, q) /\ ~Ending(r, q)
    BY <1>16 DEF Queue, Promote, Launch, Expire, ReturnFails, Holding, Sending, Ending, Paying, money
  <2>2. Works(r)' => /\ req'[r].op = req[r].op
                     /\ req'[r].pc \in {"promoting", "launching", "expiring"}
    <3>1. CASE Queue(r) \/ Launch(r) \/ Expire(r) \/ ReturnFails(r)
      BY <1>0, <3>1, GoesTo, IsDone DEF Queue, Launch, Expire, ReturnFails, Works
    <3>2. CASE Promote(r)
      <4>1. CASE req'[r].pc = "idle"
        BY <4>1 DEF Works
      <4>2. CASE req'[r].pc # "idle"
        BY <1>0, <3>2, <4>2, GoesTo, IsDone DEF Promote, Request
      <4> QED BY <4>1, <4>2
    <3> QED BY <1>16, <3>1, <3>2
  <2>3. Works(r)' => Grip(r)'
    BY <1>g, <2>1, <2>2 DEF Grip, Voiding, Paying
  <2> QED BY <2>1, <2>3, OneKept
<1>17. CASE Return(r)
  <2> DEFINE t == req[r].trans
             key == row[t].back + Unspent
  <2>1. /\ req[r].pc = "returning" /\ t = campaign.trans /\ t \in Payments
        /\ UNCHANGED <<campaign, row, bid>>
        /\ \A q \in Payments : ~Holding(r, q) /\ ~Sending(r, q) /\ ~Ending(r, q)
    BY <1>17, <1>g, MoneyTypes DEF Return, Grip, Holding, Sending, Ending, Paying
  <2>2. /\ req'[r].op = req[r].op /\ req'[r].trans = t /\ req'[r].already = row[t].back
        /\ req'[r].pc \in {"noting", "closing"} /\ Total(r)' = key
    BY <1>0, <1>17 DEF Return, Request, Total
  <2>3. CASE req'[r].pc = "closing"
    <3>1. sent' = sent /\ byhand \subseteq byhand'
      BY <1>0, <1>17, <2>3 DEF Return, Request
    <3>2. Grip(r)'
      <4>1. campaign'.deleted = campaign.deleted /\ campaign'.trans = campaign.trans
        BY <2>1
      <4> QED BY <1>g, <2>1, <2>2, <2>3, <4>1 DEF Grip, Voiding, Paying
    <3> QED BY <2>1, <3>1, <3>2, OneKept
  <2>4. CASE req'[r].pc = "noting"
    <3>1. /\ Kept(t) /\ byhand' = byhand
          /\ \/ key < row[t].price /\ SendPart(t, key)
             \/ key >= row[t].price /\ sent' = [sent EXCEPT ![t] = row[t].price]
      BY <1>0, <1>17, <2>4 DEF Return, Request, Kept
    <3>2. sent[t] = row[t].back
      BY <1>p, <2>1, <3>1
    <3>3. /\ row[t].back \in Nat /\ Unspent \in Nat \ {0} /\ sent[t] \in Nat
          /\ \A k \in keys[t] : k <= sent[t] /\ k \in Nat
          /\ row[t].price \in Nat
      BY <2>1, MoneyTypes, AdAssumption DEF MoneyInv, Books
    <3>4. key \notin keys[t]
      BY <3>2, <3>3
    <3>5. key < row[t].price => sent'[t] = key
      BY <1>0, <2>1, <3>1, <3>2, <3>3, <3>4 DEF SendPart
    <3>6. \A q \in Payments : q # t => sent'[q] = sent[q]
      BY <1>0, <2>1, <3>1 DEF SendPart
    <3>7. Grip(r)'
      <4> HIDE DEF key
      <4>1. Total(r)' < row'[req'[r].trans].price =>
               sent'[req'[r].trans] = Total(r)'
        BY <2>1, <2>2, <3>5
      <4>2. Kept(req[r].trans)'
        BY <2>1, <2>2, <3>1 DEF Kept
      <4> QED BY <1>g, <2>1, <2>2, <2>4, <4>1, <4>2 DEF Grip, Voiding, Paying
    <3>8. ASSUME NEW q \in Payments, Kept(q)'
          PROVE  /\ q \in byhand' \/ Mine(q)'
                 /\ sent'[q] = row'[q].back \/ Sending(r, q)'
      <4>1. Kept(q) /\ (Mine(q)' <=> Mine(q))
        BY <2>1, <3>8 DEF Kept, Mine
      <4>2. q = t => Sending(r, q)'
        BY <1>g, <2>2, <2>4 DEF Sending, Works
      <4> QED BY <1>p, <2>1, <3>1, <3>6, <4>1, <4>2
    <3>9. Kept(campaign.trans)'
      BY <2>1, <3>1 DEF Kept
    <3> QED BY <1>d, <2>1, <3>7, <3>8, <3>9 DEF One
  <2> QED BY <2>2, <2>3, <2>4
<1>18. CASE Note(r)
  <2> DEFINE t == req[r].trans
  <2>1. /\ req[r].pc = "noting" /\ t = campaign.trans /\ t \in Payments
        /\ UNCHANGED <<campaign, sent, byhand, bid>>
        /\ Kept(t) /\ \A q \in Payments : ~Holding(r, q) /\ (Sending(r, q) => q = t)
        /\ \/ row' = [row EXCEPT ![t].back = Total(r)] /\ sent[t] = Total(r)
           \/ row' = [row EXCEPT ![t].status = "refunded"]
    BY <1>18, <1>g, MoneyTypes DEF Note, Grip, Holding, Sending, Paying
  <2>2. /\ req'[r].op = req[r].op /\ req'[r].trans = t
        /\ req'[r].pc = "closing"
    BY <1>0, <1>18, GoesTo DEF Note
  <2>3. /\ \A q \in Payments : q # t => row'[q] = row[q]
        /\ row'[t].price = row[t].price
        /\ row'[t].status = "paid" => row'[t].back = sent[t]
    BY <1>0, <2>1 DEF Row
  <2>4. Grip(r)'
    BY <1>g, <2>1, <2>2 DEF Grip, Voiding, Paying
  <2>5. ASSUME NEW q \in Payments, Kept(q)'
        PROVE  /\ q \in byhand' \/ Mine(q)'
               /\ sent'[q] = row'[q].back
    <3>1. Kept(q) /\ (Mine(q)' <=> Mine(q))
      BY <2>1, <2>3, <2>5 DEF Kept, Mine
    <3>2. sent'[q] = row'[q].back
      <4>1. CASE q = t
        BY <2>1, <2>3, <2>5, <4>1 DEF Kept
      <4>2. CASE q # t
        BY <1>p, <2>1, <2>3, <3>1, <4>2
      <4> QED BY <4>1, <4>2
    <3> QED BY <1>p, <2>1, <3>1, <3>2
  <2>6. Ending(r, campaign.trans)' /\ campaign' = campaign
    BY <1>g, <2>1, <2>2 DEF Ending, Works
  <2> QED BY <1>d, <2>4, <2>5, <2>6 DEF One
<1>19. CASE Close(r)
  <2> DEFINE t == req[r].trans
  <2>1. /\ req[r].pc = "closing" /\ t = campaign.trans
        /\ UNCHANGED <<campaign, row, sent, byhand>>
        /\ bid' = [bid EXCEPT ![t] = "refund"]
        /\ \A q \in Payments : ~Holding(r, q) /\ ~Sending(r, q)
    BY <1>19, <1>g DEF Close, Grip, Holding, Sending, Paying, money
  <2>0. t \in Transactions
    <3>1. t # None
      BY <1>0, <2>1 DEF RequestInv, Knows
    <3>2. t \in Transactions \cup {None}
      BY <1>0 DEF Request
    <3> QED BY <3>1, <3>2
  <2>2. ~Works(r)'
    BY <1>0, <1>19, IsDone DEF Close, Works
  <2>3. bid'[t] = "refund" /\ \A q \in Payments : q # t => bid'[q] = bid[q]
    BY <1>0, <2>0, <2>1
  <2>4. ASSUME NEW q \in Payments, Kept(q)'
        PROVE  /\ q \in byhand' \/ Mine(q)'
               /\ sent'[q] = row'[q].back
    <3>1. Kept(q) /\ (Mine(q) => Mine(q)')
      BY <2>1, <2>3, <2>4 DEF Kept, Mine
    <3> QED BY <1>p, <2>1, <3>1
  <2>5. campaign' = campaign /\ bid'[campaign.trans] = "refund"
    BY <2>1, <2>3
  <2> QED BY <1>d, <2>2, <2>4, <2>5 DEF One
<1> QED
  BY <1>1, <1>2, <1>3, <1>4, <1>5, <1>6, <1>7, <1>8, <1>9, <1>10, <1>11, <1>12, <1>13, <1>14,
     <1>15, <1>16, <1>17, <1>18, <1>19 DEF Step

\* What moves no payment that is kept, and no request that works, changes nothing of
\* this; a bid of the campaign's may become charged.
LEMMA AloneKept ==
    ASSUME AdInv, AloneInv, Solo, UNCHANGED sent, byhand' = byhand,
           \A p \in Payments : /\ Kept(p)' <=> Kept(p)
                               /\ Kept(p) => row'[p] = row[p],
           campaign'.trans = campaign.trans, campaign'.deleted = campaign.deleted,
           campaign'.budget = campaign.budget,
           \A p \in Payments :
              \/ bid'[p] = bid[p]
              \/ /\ p = campaign.trans /\ bid[p] \notin {"charge", "refund"}
                 /\ bid'[p] = "charge",
           \A q \in Requests : /\ Works(q)' <=> Works(q)
                               /\ Works(q) => req'[q] = req[q]
    PROVE  AloneInv'
<1>0. None \notin Payments /\ TransactionsAreBacked /\ RequestInv
  BY AdAssumption DEF AdInv
<1>1. /\ \A q, r \in Requests : Works(q) /\ Works(r) => q = r
      /\ \A r \in Requests : Works(r) => Grip(r)
      /\ campaign.deleted => campaign.trans = None
      /\ \A p \in Payments : Kept(p) =>
            /\ p \in byhand \/ Mine(p) \/ \E r \in Requests : Holding(r, p)
            /\ sent[p] = row[p].back \/ \E r \in Requests : Sending(r, p)
      /\ campaign.trans \in Payments =>
            \/ Kept(campaign.trans)
            \/ bid[campaign.trans] = "refund"
            \/ \E r \in Requests : Ending(r, campaign.trans)
  BY DEF AloneInv
<1>2. ASSUME NEW q \in Requests, Works(q)' PROVE Grip(q)'
  <2>1. Grip(q) /\ req'[q] = req[q] /\ Knows(q)
    BY <1>0, <1>1, <1>2 DEF RequestInv
  <2>2. req[q].op = "pay" /\ req[q].pc \in Paying => bid'[req[q].pay] = bid[req[q].pay]
    BY <1>0, <2>1 DEF Grip, Knows, TransactionsAreBacked, Paying
  <2>3. /\ req[q].op = "pay" /\ req[q].pc \in Paying => row'[req[q].pay] = row[req[q].pay]
        /\ req[q].pc \in {"marking", "noting"} => row'[req[q].trans] = row[req[q].trans]
    BY <2>1 DEF Grip, Knows
  <2>4. /\ req[q].pc = "unpaying" => (Kept(req[q].pay)' <=> Kept(req[q].pay))
        /\ req[q].trans \in Payments => (Kept(req[q].trans)' <=> Kept(req[q].trans))
        /\ req[q].pc \in {"noting", "marking"} => req[q].trans \in Payments
        /\ Total(q)' = Total(q)
        /\ req[q].pc = "attaching" => req[q].op = "pay"
    BY <2>1 DEF Knows, Total, Kept
  <2>5. /\ req[q].op = "pay" /\ req[q].pc \in Paying => Kept(req[q].pay)'
    BY <2>1, <2>3 DEF Grip, Kept
  <2> QED BY <2>1, <2>2, <2>3, <2>4, <2>5 DEF Grip, Voiding, Paying, Kept
<1>3. ASSUME NEW p \in Payments, Kept(p)'
      PROVE  /\ p \in byhand' \/ Mine(p)' \/ \E r \in Requests : Holding(r, p)'
             /\ sent'[p] = row'[p].back \/ \E r \in Requests : Sending(r, p)'
  <2>1. Kept(p) /\ row'[p] = row[p]
    BY <1>3
  <2>2. \A r \in Requests : (Holding(r, p) => Holding(r, p)') /\ (Sending(r, p) => Sending(r, p)')
    BY DEF Holding, Sending
  <2>3. Mine(p) => Mine(p)'
    BY <2>1 DEF Mine
  <2> QED BY <1>1, <2>1, <2>2, <2>3
<1>4. ASSUME campaign.trans \in Payments
      PROVE  \/ Kept(campaign.trans)'
             \/ bid'[campaign'.trans] = "refund"
             \/ \E r \in Requests : Ending(r, campaign.trans)'
  <2>1. \A r \in Requests : Ending(r, campaign.trans) => Ending(r, campaign.trans)'
    BY DEF Ending
  <2>2. Kept(campaign.trans) => Kept(campaign.trans)'
    BY <1>4 DEF Kept
  <2> QED BY <1>1, <1>4, <2>1, <2>2
<1>5. \A q, r \in Requests : Works(q)' /\ Works(r)' => q = r
  BY <1>1
<1> QED BY <1>1, <1>2, <1>3, <1>4, <1>5 DEF AloneInv

\* A request, not the job, that starts where none has overlapped is alone.
LEMMA StartsAlone ==
    ASSUME AdInv, AloneInv, NEW r \in Requests,
           NEW op, NEW pc, NEW p, NEW new, Begin(r, op, pc, p, new),
           op # "job", Solo', crashes' = crashes
    PROVE  /\ Only(r)' /\ ~Works(r) /\ One(r)
           /\ req'[r].pc = pc /\ req'[r].op = op /\ req'[r].pay = p
           /\ req'[r].trans = campaign.trans
<1>1. /\ req \in [Requests -> Request]
      /\ overlap' = (overlap \/ (op # "job" /\ \E q \in Busy : req[q].op # "job"))
  BY DEF AdInv, TypeOK, Begin
<1>2. Solo /\ \A q \in Requests : ~Works(q)
  BY <1>1 DEF Solo, Works, Busy
<1>3. /\ \A q \in Requests : q # r => req'[q] = req[q]
      /\ req'[r].pc = pc /\ req'[r].op = op /\ req'[r].pay = p
      /\ req'[r].trans = campaign.trans
  BY <1>1, Began
<1>4. Only(r) /\ One(r)
  BY <1>2, ToOne DEF Only
<1> QED BY <1>2, <1>3, <1>4, StillOnly

\* Requests that start keep it.
LEMMA AloneStarts ==
    ASSUME AdInv, MoneyInv, AloneInv, NEW r \in Requests, Start(r), Solo'
    PROVE  AloneInv'
<1>0. /\ row \in [Payments -> Row] /\ sent \in [Payments -> Nat]
      /\ req \in [Requests -> Request] /\ campaign \in Campaign
      /\ None \notin Payments /\ Free \notin Payments /\ None # Free
      /\ TransactionsAreBacked
  BY AdAssumption DEF AdInv, TypeOK
<1>1. ASSUME NEW p \in Payments, Pay(r, p) PROVE AloneInv'
  <2>1. /\ Begin(r, "pay", "loading", p, 0) /\ crashes' = crashes
        /\ UNCHANGED <<campaign, sent, byhand, bid>>
        /\ row' = [row EXCEPT ![p].status = "paid"] /\ row[p].status = "open"
    BY <1>1 DEF Pay, faults
  <2>2. /\ Only(r)' /\ ~Works(r) /\ One(r)
        /\ req'[r].pc = "loading" /\ req'[r].op = "pay" /\ req'[r].pay = p
    BY <2>1, StartsAlone
  <2>3. /\ row'[p].status = "paid" /\ row'[p].back = row[p].back
        /\ \A q \in Payments : q # p => row'[q] = row[q]
        /\ bid[p] = "none" /\ campaign.trans # p
        /\ sent[p] = row[p].back
    <3>1. bid[p] = "none" /\ campaign.trans # p
      BY <1>0, <2>1 DEF TransactionsAreBacked
    <3>2. sent[p] = row[p].back
      <4>1. Books(p) /\ row[p].back \in Nat
        BY MoneyTypes DEF MoneyInv
      <4> QED BY <2>1, <4>1 DEF Books
    <3> QED BY <1>0, <2>1, <3>1, <3>2 DEF Row
  <2>4. Grip(r)'
    BY <2>1, <2>2, <2>3 DEF Grip, Kept, Voiding, Paying
  <2>5. ASSUME NEW q \in Payments, Kept(q)'
        PROVE  /\ q \in byhand' \/ Mine(q)' \/ Holding(r, q)'
               /\ sent'[q] = row'[q].back
    <3>1. CASE q = p
      <4>1. Holding(r, q)'
        BY <2>2, <3>1 DEF Holding, Works, Paying
      <4> QED BY <2>1, <2>3, <3>1, <4>1
    <3>2. CASE q # p
      <4>1. /\ Kept(q) /\ row'[q] = row[q] /\ (Mine(q)' <=> Mine(q))
            /\ ~Holding(r, q) /\ ~Sending(r, q)
        BY <2>1, <2>2, <2>3, <2>5, <3>2 DEF Kept, Mine, Holding, Sending
      <4> QED BY <2>1, <2>2, <4>1 DEF One
    <3> QED BY <3>1, <3>2
  <2>6. campaign.trans \in Payments =>
            Kept(campaign.trans)' \/ bid'[campaign.trans] = "refund"
    BY <2>1, <2>2, <2>3 DEF One, Kept, Ending
  <2>7. One(r)'
    BY <2>1, <2>2, <2>4, <2>5, <2>6 DEF One, Kept
  <2> QED BY <2>2, <2>7, FromOne
<1>2. ASSUME NEW p \in Payments, Unpay(r, p) PROVE AloneInv'
  <2>1. /\ Begin(r, "unpay", "unpaying", p, 0) /\ crashes' = crashes
        /\ UNCHANGED <<campaign, byhand, bid>>
        /\ row' = [row EXCEPT ![p].status = "refunded"]
        /\ sent' = [sent EXCEPT ![p] = row[p].price]
    BY <1>2 DEF Unpay, faults
  <2>2. /\ Only(r)' /\ ~Works(r) /\ One(r)
        /\ req'[r].pc = "unpaying" /\ req'[r].op = "unpay" /\ req'[r].pay = p
        /\ req'[r].trans = campaign.trans
    BY <2>1, StartsAlone
  <2>3. /\ row'[p].status = "refunded"
        /\ \A q \in Payments : q # p => row'[q] = row[q] /\ sent'[q] = sent[q]
    BY <1>0, <2>1 DEF Row
  <2>4. Grip(r)'
    BY <2>1, <2>2, <2>3 DEF Grip, Kept, Voiding, Paying
  <2>5. ASSUME NEW q \in Payments, Kept(q)'
        PROVE  /\ q \in byhand' \/ Mine(q)'
               /\ sent'[q] = row'[q].back
    <3>1. q # p
      BY <2>3, <2>5 DEF Kept
    <3>2. /\ Kept(q) /\ row'[q] = row[q] /\ (Mine(q)' <=> Mine(q))
          /\ ~Holding(r, q) /\ ~Sending(r, q)
      BY <2>1, <2>2, <2>3, <2>5, <3>1 DEF Kept, Mine, Holding, Sending
    <3> QED BY <2>1, <2>2, <2>3, <3>1, <3>2 DEF One
  <2>6. ASSUME campaign.trans \in Payments
        PROVE  \/ Kept(campaign.trans)' \/ bid'[campaign.trans] = "refund"
               \/ Ending(r, campaign.trans)'
    <3>1. CASE campaign.trans = p
      BY <2>1, <2>2, <3>1 DEF Ending, Works
    <3>2. CASE campaign.trans # p
      BY <2>1, <2>2, <2>3, <2>6, <3>2 DEF One, Kept, Ending
    <3> QED BY <3>1, <3>2
  <2>7. One(r)'
    BY <2>1, <2>2, <2>4, <2>5, <2>6 DEF One, Kept, Ending
  <2> QED BY <2>2, <2>7, FromOne
<1>3. ASSUME NEW op \in {"edit", "delete", "free", "reject", "accept", "refund"},
             NEW pc \in {"voiding", "rejecting", "charging", "promoting", "returning", "closing"},
             NEW new, Begin(r, op, pc, None, new), crashes' = crashes,
             UNCHANGED <<row, sent, byhand, bid>>,
             campaign'.trans = campaign.trans, campaign'.deleted = campaign.deleted,
             campaign'.budget = campaign.budget,
             op = "free" => ~campaign.deleted
      PROVE  AloneInv'
  <2>1. /\ Only(r)' /\ ~Works(r) /\ One(r)
        /\ req'[r].pc = pc /\ req'[r].op = op /\ req'[r].trans = campaign.trans
    BY <1>3, StartsAlone
  <2>2. Grip(r)'
    BY <1>3, <2>1 DEF Grip, Voiding, Paying
  <2>3. \A p \in Payments : ~Holding(r, p) /\ ~Sending(r, p) /\ ~Ending(r, p)
    BY <2>1 DEF Holding, Sending, Ending
  <2>4. One(r)'
    BY <1>3, <2>1, <2>2, <2>3, OneKept
  <2> QED BY <2>1, <2>4, FromOne
<1>4. CASE \/ \E b \in Budgets : Edit(r, b)
           \/ Delete(r) \/ GiveFree(r) \/ Reject(r) \/ Accept(r) \/ Refund(r)
  <2>1. /\ crashes' = crashes /\ UNCHANGED <<row, sent, byhand, bid>>
        /\ campaign'.trans = campaign.trans /\ campaign'.deleted = campaign.deleted
        /\ campaign'.budget = campaign.budget
    BY <1>0, <1>4 DEF Edit, Delete, GiveFree, Reject, Accept, Refund, money, faults, Campaign
  <2>2. \E op \in {"edit", "delete", "free", "reject", "accept", "refund"},
           pc \in {"voiding", "rejecting", "charging", "promoting", "returning", "closing"},
           new \in Int :
              Begin(r, op, pc, None, new) /\ (op = "free" => ~campaign.deleted)
    <3>1. \A b \in Budgets : b \in Int
      BY AdAssumption
    <3>2. CASE \E b \in Budgets : Edit(r, b)
      BY <3>1, <3>2 DEF Edit
    <3>3. CASE Delete(r)
      BY <3>3 DEF Delete
    <3>4. CASE GiveFree(r)
      BY <3>4 DEF GiveFree
    <3>5. CASE Reject(r)
      BY <3>5 DEF Reject
    <3>6. CASE Accept(r)
      BY <3>6 DEF Accept
    <3>7. CASE Refund(r)
      BY <3>7 DEF Refund
    <3> QED BY <1>4, <3>2, <3>3, <3>4, <3>5, <3>6, <3>7
  <2> QED BY <1>3, <2>1, <2>2
<1>5. CASE DeleteLink(r)
  <2>1. UNCHANGED <<campaign, row, sent, byhand, bid>> /\ crashes' = crashes
    BY <1>5 DEF DeleteLink, money, faults
  <2>2. CASE link.status # "promoted"
    BY <1>3, <1>5, <2>1, <2>2 DEF DeleteLink
  <2>3. CASE link.status = "promoted"
    <3>1. UNCHANGED <<req, overlap>>
      BY <1>5, <2>3 DEF DeleteLink, past
    <3> QED BY <2>1, <3>1, AloneKept DEF Solo, Kept, Works
  <2> QED BY <2>2, <2>3
<1>6. CASE StartJob(r)
  <2>1. /\ Begin(r, "job", "charging", None, 0) /\ crashes' = crashes
        /\ UNCHANGED <<campaign, row, sent, byhand, bid>>
    BY <1>6 DEF StartJob, money, faults
  <2>2. /\ req[r].pc = "idle" /\ req'[r].op = "job"
        /\ \A q \in Requests : q # r => req'[q] = req[q]
        /\ overlap' = overlap
    <3>1. overlap' = overlap
      BY <2>1 DEF Begin, AdInv, TypeOK
    <3> QED BY <1>0, <2>1, <3>1, Began
  <2> QED BY <2>1, <2>2, AloneKept DEF Solo, Kept, Works
<1> QED BY <1>1, <1>2, <1>4, <1>5, <1>6 DEF Start

\* What every step of a request leaves alone.
LEMMA StepFrame ==
    ASSUME AdInv, NEW r \in Requests, Step(r)
    PROVE  /\ req[r].pc # "idle" /\ \A q \in Requests : q # r => req'[q] = req[q]
           /\ overlap' = overlap /\ crashes' = crashes
<1>0. req \in [Requests -> Request]
  BY DEF AdInv, TypeOK
<1>1. CASE Void(r) \/ Mark(r) \/ Unbid(r) \/ Clear(r) \/ Unwanted(r)
           \/ MarkUnwanted(r) \/ Book(r) \/ Attach(r) \/ Review(r) \/ SetBudget(r)
           \/ SetDeleted(r) \/ FreeBid(r) \/ Name(r) \/ OnRefunded(r)
  BY <1>0, <1>1, GoesTo, IsDone
     DEF Void, Accepts, Refuses, Mark, Unbid, Clear, Unwanted, MarkUnwanted, Book, Attach,
         Review, SetBudget, SetDeleted, FreeBid, Name, OnRefunded, past, faults
<1>2. CASE Queue(r) \/ Launch(r) \/ Expire(r) \/ ReturnFails(r) \/ Note(r) \/ Close(r)
  BY <1>0, <1>2, GoesTo, IsDone DEF Queue, Launch, Expire, ReturnFails, Note, Close, past, faults
<1>3. CASE Load(r) \/ Rejecting(r) \/ Charge(r) \/ Promote(r) \/ Return(r)
  BY <1>0, <1>3, GoesTo, IsDone DEF Load, Rejecting, Charge, Promote, Return, past, faults
<1> QED BY <1>1, <1>2, <1>3 DEF Step

\* The job takes its own steps.
LEMMA JobInductive ==
    ASSUME AdInv, JobInv, [Next]_vars
    PROVE  JobInv'
<1>0. req \in [Requests -> Request]
  BY DEF AdInv, TypeOK
<1>1. ASSUME NEW r \in Requests, req'[r].op = "job" => req'[r].pc \in JobSteps,
             \A q \in Requests : q # r => req'[q] = req[q]
      PROVE  JobInv'
  BY <1>1 DEF JobInv
<1>2. ASSUME NEW r \in Requests, Start(r) PROVE JobInv'
  <2>1. CASE UNCHANGED req
    BY <2>1 DEF JobInv
  <2>2. CASE \E p \in Payments : Pay(r, p) \/ Unpay(r, p)
    BY <1>0, <1>1, <2>2, Began DEF Pay, Unpay, JobSteps
  <2>3. CASE \/ \E b \in Budgets : Edit(r, b)
             \/ Delete(r) \/ GiveFree(r) \/ Reject(r) \/ Accept(r)
             \/ StartJob(r) \/ Refund(r)
    BY <1>0, <1>1, <2>3, Began DEF Edit, Delete, GiveFree, Reject, Accept, StartJob, Refund, JobSteps
  <2>4. CASE DeleteLink(r)
    BY <1>0, <1>1, <2>1, <2>4, Began DEF DeleteLink
  <2> QED BY <1>2, <2>2, <2>3, <2>4 DEF Start
<1>3. ASSUME NEW r \in Requests, Step(r) PROVE JobInv'
  <2>1. \A q \in Requests : q # r => req'[q] = req[q]
    BY <1>3, StepFrame
  <2>2. CASE Charge(r) \/ Promote(r)
    <3>1. req'[r].pc \in {"queueing", "promoting", "launching", "expiring"} \/ req'[r].op = "none"
      BY <1>0, <2>2, GoesTo, IsDone DEF Charge, Promote, Request
    <3> QED BY <1>1, <2>1, <3>1 DEF JobSteps
  <2>3. CASE Queue(r) \/ Launch(r) \/ Expire(r)
    <3>1. req'[r].pc \in {"promoting", "expiring"} \/ req'[r].op = "none"
      BY <1>0, <2>3, GoesTo, IsDone DEF Queue, Launch, Expire
    <3> QED BY <1>1, <2>1, <3>1 DEF JobSteps
  <2>4. CASE Void(r) \/ Mark(r) \/ Unbid(r) \/ Clear(r) \/ Unwanted(r)
             \/ MarkUnwanted(r) \/ Book(r) \/ Attach(r) \/ Review(r) \/ SetBudget(r)
             \/ SetDeleted(r) \/ FreeBid(r) \/ Name(r) \/ OnRefunded(r)
             \/ ReturnFails(r) \/ Note(r) \/ Close(r)
    <3>1. req[r].op # "job"
      BY <2>4 DEF JobInv, JobSteps, Void, Mark, Unbid, Clear, Unwanted, MarkUnwanted, Book, Attach,
         Review, SetBudget, SetDeleted, FreeBid, Name, OnRefunded, ReturnFails, Note, Close
    <3>2. req'[r].op = req[r].op \/ req'[r].op = "none"
      BY <1>0, <2>4, GoesTo, IsDone
         DEF Void, Mark, Unbid, Clear, Unwanted, MarkUnwanted, Book, Attach,
         Review, SetBudget, SetDeleted, FreeBid, Name, OnRefunded, ReturnFails, Note, Close
    <3> QED BY <1>1, <2>1, <3>1, <3>2
  <2>5. CASE Load(r) \/ Rejecting(r) \/ Return(r)
    <3>1. req[r].op # "job"
      BY <2>5 DEF JobInv, JobSteps, Load, Rejecting, Return
    <3>2. req'[r].op = req[r].op \/ req'[r].op = "none"
      BY <1>0, <2>5, IsDone DEF Load, Rejecting, Return, Request
    <3> QED BY <1>1, <2>1, <3>1, <3>2
  <2> QED BY <1>3, <2>2, <2>3, <2>4, <2>5 DEF Step
<1>4. ASSUME NEW r \in Requests, Crash(r) PROVE JobInv'
  BY <1>0, <1>1, <1>4, IsDone DEF Crash
<1>5. ASSUME \/ \E p \in Payments : Checkout(p)
             \/ EditLive \/ Terminate \/ Show \/ DayPasses \/ UNCHANGED vars
      PROVE  JobInv'
  BY <1>5 DEF Checkout, EditLive, Terminate, Show, DayPasses, vars, JobInv
<1> QED BY <1>2, <1>3, <1>4, <1>5 DEF Next

\* Every step keeps it.
LEMMA AloneInductive ==
    ASSUME AdInv, MoneyInv, JobInv, AloneInv, [Next]_vars
    PROVE  AloneInv'
<1> SUFFICES ASSUME Solo' PROVE AloneInv'
  BY DEF AloneInv
<1>0. /\ row \in [Payments -> Row] /\ req \in [Requests -> Request] /\ campaign \in Campaign
      /\ bid \in [Transactions -> {"none", "auth", "charge", "refund", "void"}]
      /\ Payments \subseteq Transactions /\ crashes \in Nat
  BY DEF AdInv, TypeOK, Transactions
<1>1. ASSUME NEW r \in Requests, Step(r) PROVE AloneInv'
  <2>1. /\ req[r].pc # "idle" /\ \A q \in Requests : q # r => req'[q] = req[q]
        /\ Solo
    BY <1>1, StepFrame DEF Solo
  <2>2. CASE Works(r)
    <3>1. Only(r) /\ One(r)
      BY <2>1, <2>2, OnlyOne, ToOne
    <3> QED BY <1>1, <2>1, <2>2, <3>1, StillOnly, WorkerSteps, FromOne
  <2>3. CASE ~Works(r)
    <3>1. req[r].op = "job" /\ req[r].pc \in JobSteps
      BY <2>1, <2>3 DEF Works, JobInv
    <3>2. Charge(r) \/ Queue(r) \/ Promote(r) \/ Launch(r) \/ Expire(r)
      BY <1>1, <3>1 DEF Step, JobSteps, Void, Mark, Unbid, Clear, Load, Unwanted, MarkUnwanted,
         Book, Attach, Review, SetBudget, SetDeleted, FreeBid, Name, OnRefunded, Rejecting,
         Return, ReturnFails, Note, Close
    <3>3. UNCHANGED <<campaign, row, sent, byhand>>
      BY <3>2 DEF Charge, Queue, Promote, Launch, Expire, money
    <3>4. ~Works(r)'
      <4>1. req'[r].op = "job" \/ req'[r].pc = "idle"
        BY <1>0, <3>1, <3>2, GoesTo, IsDone DEF Charge, Queue, Promote, Launch, Expire, Request
      <4> QED BY <4>1 DEF Works
    <3>5. \A p \in Payments :
             \/ bid'[p] = bid[p]
             \/ /\ p = campaign.trans /\ bid[p] \notin {"charge", "refund"}
                /\ bid'[p] = "charge"
      BY <1>0, <3>1, <3>2
         DEF Charge, ToCharge, IsCharged, Queue, Promote, Launch, Expire
    <3>6. \A q \in Requests : /\ Works(q)' <=> Works(q)
                              /\ Works(q) => req'[q] = req[q]
      BY <2>1, <2>3, <3>4 DEF Works
    <3> QED BY <2>1, <3>3, <3>5, <3>6, AloneKept DEF Kept
  <2> QED BY <2>2, <2>3
<1>2. ASSUME NEW r \in Requests, Crash(r) PROVE AloneInv'
  BY <1>0, <1>2 DEF Crash, Solo
<1>3. ASSUME NEW p \in Payments, Checkout(p) PROVE AloneInv'
  <2>1. UNCHANGED <<campaign, sent, byhand, bid, req, overlap, crashes>>
    BY <1>3 DEF Checkout, past, faults
  <2>2. \A q \in Payments : (Kept(q)' <=> Kept(q)) /\ (Kept(q) => row'[q] = row[q])
    BY <1>0, <1>3 DEF Checkout, Kept
  <2> QED BY <2>1, <2>2, AloneKept DEF Solo, Works
<1>4. CASE EditLive \/ Terminate \/ Show \/ DayPasses \/ UNCHANGED vars
  <2>1. /\ UNCHANGED <<row, sent, byhand, bid, req, overlap, crashes>>
        /\ campaign'.trans = campaign.trans /\ campaign'.deleted = campaign.deleted
        /\ campaign'.budget = campaign.budget
    BY <1>0, <1>4 DEF EditLive, Terminate, Show, DayPasses, vars, money, past, faults, Campaign
  <2> QED BY <2>1, AloneKept DEF Solo, Works, Kept
<1> QED BY <1>1, <1>2, <1>3, <1>4, AloneStarts DEF Next

\* All of it, at the start and after every step.
MoneyIsKept == AdInv /\ MoneyInv /\ JobInv /\ AloneInv

LEMMA MoneyInitially == Init => MoneyIsKept
<1> SUFFICES ASSUME Init PROVE MoneyIsKept
  OBVIOUS
<1>1. AdInv
  BY Initially
<1>2. MoneyInv
  BY AdAssumption DEF Init, MoneyInv, Books, Noted, Idle
<1>3. JobInv
  BY DEF Init, JobInv, Idle
<1>4. \A r \in Requests : ~Works(r)
  BY DEF Init, Idle, Works
<1>5. campaign.trans = None /\ ~campaign.deleted /\ \A p \in Payments : ~Kept(p)
  BY DEF Init, Kept
<1>6. AloneInv
  BY <1>4, <1>5, AdAssumption DEF AloneInv
<1> QED BY <1>1, <1>2, <1>3, <1>6 DEF MoneyIsKept

LEMMA MoneyKept == MoneyIsKept /\ [Next]_vars => MoneyIsKept'
BY Inductive, MoneyInductive, JobInductive, AloneInductive DEF MoneyIsKept

\* No more than was sent back is ever said to have been; and where no requests have
\* overlapped, a payment the site keeps is the campaign's, or to be refunded by hand.
THEOREM KeptMoney == Spec => []KeptMoneyIsTheCampaigns
<1>1. ASSUME MoneyIsKept PROVE KeptMoneyIsTheCampaigns
  <2> SUFFICES ASSUME Quiet, crashes = 0, NEW p \in Payments, row[p].status = "paid"
               PROVE  /\ row[p].back <= sent[p]
                      /\ overlap \/ row[p].back = sent[p]
                      /\ overlap \/ p \in byhand \/ Mine(p)
    BY DEF KeptMoneyIsTheCampaigns, Mine
  <2>1. row[p].back <= sent[p]
    BY <1>1 DEF MoneyIsKept, MoneyInv, Books
  <2>2. \A r \in Requests : ~Works(r)
    BY DEF Quiet, Busy, Works
  <2>3. ~overlap => sent[p] = row[p].back /\ (p \in byhand \/ Mine(p))
    BY <1>1, <2>2 DEF MoneyIsKept, AloneInv, Solo, Kept, Holding, Sending
  <2> QED BY <2>1, <2>3
<1> QED BY <1>1, MoneyInitially, MoneyKept, PTL DEF Spec

\* A live campaign is paid for, where no requests have overlapped and none has died.
THEOREM LivePaid == Spec => []LiveIsPaidFor
<1>1. ASSUME MoneyIsKept PROVE LiveIsPaidFor
  <2> SUFFICES ASSUME Quiet, Solo, IsLivePromo(link, campaign), campaign.trans # Free
               PROVE  bid[campaign.trans] = "refund" \/ row[campaign.trans].status = "paid"
    BY DEF LiveIsPaidFor, Solo
  <2>1. campaign.trans \in Payments
    BY <1>1 DEF MoneyIsKept, AdInv, TypeOK, Campaign, Transactions, IsLivePromo,
       IsScheduledPromo, IsAcceptedPromo
  <2>2. \A r \in Requests : ~Ending(r, campaign.trans)
    BY DEF Quiet, Busy, Ending, Works
  <2> QED BY <1>1, <2>1, <2>2 DEF MoneyIsKept, AloneInv, Kept
<1> QED BY <1>1, MoneyInitially, MoneyKept, PTL DEF Spec
=============================================================================
