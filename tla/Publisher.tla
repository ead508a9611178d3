------------------------------ MODULE Publisher ------------------------------
(***************************************************************************)
(* How a process sends messages: the worker thread of r2/lib/amqp.py and a *)
(* queue consumer (consume_items) in the foreground.  add_item only puts   *)
(* the publication into the worker's queue, so a consumer acknowledges a   *)
(* message before what its callback added is with the broker; when it ends *)
(* it joins the queue first.                                               *)
(***************************************************************************)
EXTENDS Naturals, Sequences

CONSTANTS
    Items,      \* what the callbacks add
    ExchangeOf, \* ExchangeOf[i]: the exchange item i is for
    Main,       \* cfg.amqp_exchange
    NoEntry,
    MaxFailures   \* bound: publications and connections that fail

ASSUME PublisherAssumption ==
    /\ NoEntry \notin Items /\ MaxFailures \in Nat
    /\ DOMAIN ExchangeOf = Items

VARIABLES
    fg,         \* the foreground: where it is
    added,      \* items its callbacks have added
    q,          \* the worker's queue of items, with the exchange each goes to
    unfinished, \* the queue's count of unfinished tasks
    worker,     \* the worker: where it is, and its item
    published,  \* what the broker has, with the exchange
    failures

publisherVars == <<fg, added, q, unfinished, worker, published, failures>>

Entry(i, exchange) == [item |-> i, exchange |-> exchange]
Waiting == [pc |-> "getting", entry |-> NoEntry]

PublisherInit ==
    /\ fg = "waiting"
    /\ added = {}
    /\ q = <<>> /\ unfinished = 0
    /\ worker = Waiting
    /\ published = {}
    /\ failures = 0

-----------------------------------------------------------------------------
\* The foreground.

\* Queue.put
Put(entry) ==
    /\ q' = Append(q, entry)
    /\ unfinished' = unfinished + 1

Deliver ==
    /\ fg = "waiting" /\ added # Items
    /\ fg' = "handling"
    /\ UNCHANGED <<added, q, unfinished, worker, published, failures>>

\* add_item, in the callback
AddItem(i) ==
    /\ fg = "handling" /\ i \notin added
    /\ added' = added \cup {i}
    /\ Put(Entry(i, ExchangeOf[i]))
    /\ UNCHANGED <<fg, worker, published, failures>>

Ack ==
    /\ fg = "handling"
    /\ fg' = "waiting"
    /\ UNCHANGED <<added, q, unfinished, worker, published, failures>>

\* It is interrupted between messages, or a callback raises: the finally clause.
Stop ==
    /\ fg \in {"waiting", "handling"}
    /\ fg' = "joining"
    /\ UNCHANGED <<added, q, unfinished, worker, published, failures>>

Joined ==
    /\ fg = "joining" /\ unfinished = 0
    /\ fg' = "ended"
    /\ UNCHANGED <<added, q, unfinished, worker, published, failures>>

-----------------------------------------------------------------------------
\* The worker: Worker._handle with _add_item.

Get ==
    /\ worker.pc = "getting" /\ q # <<>>
    /\ worker' = [pc |-> "connecting", entry |-> Head(q)]
    /\ q' = Tail(q)
    /\ UNCHANGED <<fg, added, unfinished, published, failures>>

\* get_channel, which waits for the broker if the connection is not open.
Connect ==
    /\ worker.pc \in {"connecting", "reconnecting"}
    /\ worker' = [worker EXCEPT !.pc = IF @ = "connecting" THEN "publishing" ELSE "again"]
    /\ UNCHANGED <<fg, added, q, unfinished, published, failures>>

Publish ==
    /\ worker.pc = "publishing"
    /\ published' = published \cup {worker.entry}
    /\ worker' = [worker EXCEPT !.pc = "done"]
    /\ UNCHANGED <<fg, added, q, unfinished, failures>>

\* The broker has closed the connection: EPIPE.
PublishBreaks ==
    /\ worker.pc = "publishing" /\ failures < MaxFailures
    /\ worker' = [worker EXCEPT !.pc = "reconnecting"]
    /\ failures' = failures + 1
    /\ UNCHANGED <<fg, added, q, unfinished, published>>

\* The item is added once more, without its exchange.
AddAgain ==
    /\ worker.pc = "again"
    /\ Put(Entry(worker.entry.item, Main))
    /\ worker' = [worker EXCEPT !.pc = "done"]
    /\ UNCHANGED <<fg, added, published, failures>>

TaskDone ==
    /\ worker.pc = "done"
    /\ unfinished' = unfinished - 1
    /\ worker' = Waiting
    /\ UNCHANGED <<fg, added, q, published, failures>>

\* Mutant: task_done in a finally clause.
Raise_Done ==
    /\ worker.pc \in {"connecting", "reconnecting", "publishing"} /\ failures < MaxFailures
    /\ failures' = failures + 1
    /\ unfinished' = unfinished - 1
    /\ worker' = Waiting
    /\ UNCHANGED <<fg, added, q, published>>

\* Any other exception: the item is gone, and is never counted as done.
Raise ==
    /\ worker.pc \in {"connecting", "reconnecting", "publishing"} /\ failures < MaxFailures
    /\ failures' = failures + 1
    /\ worker' = Waiting
    /\ UNCHANGED <<fg, added, q, unfinished, published>>

PublisherNext ==
    \/ Deliver \/ (\E i \in Items : AddItem(i)) \/ Ack \/ Stop \/ Joined
    \/ Get \/ Connect \/ Publish \/ PublishBreaks \/ AddAgain \/ TaskDone \/ Raise

PublisherSpec == PublisherInit /\ [][PublisherNext]_publisherVars

-----------------------------------------------------------------------------

\* A consumer that has ended by itself has sent what it added: each item it added,
\* in a message it acknowledged or not, is with the broker, for its exchange or
\* (if the connection broke) for the main one, whatever failed and however often
\* the worker put it back behind items added since.  The price is that a consumer
\* whose worker raised never ends, since Worker._handle does not count the item
\* as done (amqp.py:92).
EndsPublished == fg = "ended" =>
    \A i \in added : Entry(i, ExchangeOf[i]) \in published \/ Entry(i, Main) \in published
=============================================================================
