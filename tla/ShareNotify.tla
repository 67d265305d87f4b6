---------------------------- MODULE ShareNotify -----------------------------
(***************************************************************************)
(* Sharing a task: POST /tasks/{id}/share publishes a message on RabbitMQ, *)
(* and the worker (presentation/worker/__main__.py) mails its recipients.  *)
(*                                                                         *)
(* The broker keeps a message until it is acknowledged.  When the worker   *)
(* loses its connection the broker takes back what it had delivered, but   *)
(* the coroutines that were handling it go on in the worker: they still    *)
(* mail, and may publish to the dead-letter exchange, but can no longer    *)
(* settle the message.  A rejected message is dead-lettered whole; a       *)
(* message with failed recipients is acknowledged once their list has been *)
(* published to the same dead-letter queue.  Nothing consumes that queue,  *)
(* but an operator may move a message of it back.                          *)
(*                                                                         *)
(* A recipient list may name a user twice: each entry of it is mailed.  A  *)
(* message is what ShareTask published or what publish_to_dlq reported; it *)
(* names the entries of the list its user_ids stand for, and reports alike *)
(* are one.  The owner of the task is not singled out: a task goes when    *)
(* its owner does, and both reads fail alike.  A read may also fail on the *)
(* database or on a row the domain refuses.                                *)
(***************************************************************************)
EXTENDS Naturals, FiniteSets, Sequences

CONSTANTS
    Shares,         \* share requests
    Tasks,          \* task identifiers
    Users,          \* user identifiers
    About,          \* About[s]: the task of share s
    To,             \* To[s]: the list of recipients share s asks for
    Droppable,      \* the users something outside the API may delete
    Slots,          \* names for the handlers of the worker: bounds how many run
    Prefetch,       \* unacknowledged messages on a channel (10 in main)
    Breaks,         \* bound: how often the worker or its connection fails
    Replays,        \* bound: how often a dead-lettered message is moved back
    Idle

ASSUME ShareAssumption ==
    /\ Prefetch \in Nat \ {0}
    /\ Breaks \in Nat
    /\ Replays \in Nat
    /\ About \in [Shares -> Tasks]
    /\ To \in [Shares -> Seq(Users)]
    /\ Droppable \subseteq Users

Entries == UNION {DOMAIN To[s] : s \in Shares}

VARIABLES
    users,          \* users that exist
    tasks,          \* tasks that exist
    answer,         \* what the API answered to share s
    declared,       \* whether some worker has ever declared the queue
    queue,          \* messages ready in email_notifications
    dlq,            \* messages in email_notifications.dlq
    up,             \* whether the worker runs
    handlers,       \* the coroutines handling a message
    breaks,         \* failures so far
    taken,          \* history: shares the broker routed to the queue
    dropped,        \* history: shares published before the queue was declared
    returns,        \* history: times a share was taken back or moved back
    replays,        \* messages moved back so far
    mailed          \* history: mails of share s that left for entry i of its list

tables == <<users, tasks>>
api == <<answer, declared, taken, dropped>>
broker == <<queue, dlq>>
worker == <<up, handlers, breaks>>
history == <<returns, replays, mailed>>
vars == <<users, tasks, answer, declared, taken, dropped, queue, dlq, up,
          handlers, breaks, returns, replays, mailed>>

Message == [share: Shares, entries: SUBSET Entries, report: BOOLEAN]

Handler ==
    [message: Message, live: BOOLEAN, pc: {"received", "sending", "reported"},
     rest: SUBSET Entries, failed: SUBSET Entries]

ASSUME IdleAssumption == Idle \notin Handler

TypeOK ==
    /\ users \subseteq Users
    /\ tasks \subseteq Tasks
    /\ answer \in [Shares -> {"none", "checked", "accepted", "not_found", "error"}]
    /\ declared \in BOOLEAN
    /\ queue \subseteq Message
    /\ dlq \subseteq Message
    /\ up \in BOOLEAN
    /\ handlers \in [Slots -> Handler \union {Idle}]
    /\ breaks \in 0..Breaks
    /\ taken \subseteq Shares
    /\ dropped \subseteq Shares
    /\ replays \in 0..Replays
    /\ returns \in [Shares -> 0..Breaks + Replays]
    /\ mailed \in [Shares \X Entries -> 0..Breaks + Replays + 1]

Busy == {h \in Slots : handlers[h] # Idle}

\* Handlers whose message is still theirs to settle.
Live == {h \in Busy : handlers[h].live}

Held == {handlers[h].message : h \in Live}

\* What ShareTask publishes, and what publish_to_dlq does of a message.
Announcement(s) == [share |-> s, entries |-> DOMAIN To[s], report |-> FALSE]
Report(message, failed) ==
    [share |-> message.share, entries |-> failed, report |-> TRUE]

-----------------------------------------------------------------------------

Init ==
    /\ users \in {Users, Users \ Droppable}
    /\ tasks = Tasks
    /\ answer = [s \in Shares |-> "none"]
    /\ declared = FALSE
    /\ queue = {}
    /\ dlq = {}
    /\ up = FALSE
    /\ handlers = [h \in Slots |-> Idle]
    /\ breaks = 0
    /\ taken = {} /\ dropped = {}
    /\ replays = 0
    /\ returns = [s \in Shares |-> 0]
    /\ mailed = [d \in Shares \X Entries |-> 0]

\* ShareTask: repository.exists.
CheckTask(s) ==
    /\ answer[s] = "none"
    /\ answer' = [answer EXCEPT ![s] =
                    IF About[s] \in tasks THEN "checked" ELSE "not_found"]
    /\ UNCHANGED <<tables, declared, taken, dropped, broker, worker, history>>

\* RabbitMQMessageAdapter.publish, then the commit of a transaction that only
\* read.  The exchange drops a message no queue is bound for, and publish does
\* not say so; a confirmation may be lost on the way back.
Publish(s) ==
    /\ answer[s] = "checked"
    /\ \E reached, confirmed \in BOOLEAN :
        /\ confirmed => reached
        /\ answer' = [answer EXCEPT ![s] = IF confirmed THEN "accepted" ELSE "error"]
        /\ IF reached /\ declared
           THEN queue' = queue \union {Announcement(s)} /\ taken' = taken \union {s}
           ELSE UNCHANGED <<queue, taken>>
        /\ dropped' = IF reached /\ ~declared THEN dropped \union {s} ELSE dropped
    /\ UNCHANGED <<tables, declared, dlq, worker, history>>

\* main: declare the exchanges and both queues, and start to consume.
StartWorker ==
    /\ ~up
    /\ up' = TRUE
    /\ declared' = TRUE
    /\ UNCHANGED <<tables, answer, taken, dropped, broker, handlers, breaks, history>>

\* queue.consume hands a message to a new coroutine, within the prefetch count.
\* Coroutines have no names: a free one of Slots stands for it.
Deliver(h, m) ==
    /\ up
    /\ h \notin Busy /\ h = CHOOSE g \in Slots : g \notin Busy
    /\ Cardinality(Live) < Prefetch
    /\ queue' = queue \ {m}
    /\ handlers' = [handlers EXCEPT ![h] =
            [message |-> m, live |-> TRUE, pc |-> "received", rest |-> {}, failed |-> {}]]
    /\ UNCHANGED <<tables, api, dlq, up, breaks, history>>

\* A handler that puts its message back instead of rejecting it for good.
Requeue(h) ==
    /\ handlers' = [handlers EXCEPT ![h] = Idle]
    /\ queue' = IF handlers[h].live THEN queue \union {handlers[h].message} ELSE queue
    /\ UNCHANGED dlq

\* incoming.process() on an exception: reject without requeue, and the queue's
\* x-dead-letter-exchange takes the message as it came.
Reject(h) ==
    /\ handlers' = [handlers EXCEPT ![h] = Idle]
    /\ dlq' = IF handlers[h].live THEN dlq \union {handlers[h].message} ELSE dlq
    /\ UNCHANGED queue

\* The payload is unpacked, then NotifyTaskShared reads the task and its owner.  A
\* report has keys ShareTaskNotification does not know.
ReadTask(h) ==
    /\ h \in Busy
    /\ handlers[h].pc = "received"
    /\ LET m == handlers[h].message IN
        \/ /\ ~m.report /\ About[m.share] \in tasks
           /\ handlers' = [handlers EXCEPT ![h].pc = "sending", ![h].rest = m.entries]
           /\ UNCHANGED <<queue, dlq>>
        \/ Reject(h)
    /\ UNCHANGED <<tables, api, up, breaks, history>>

\* An adapter that tries again when the SMTP server did not say it took the mail.
NotifyTwice(h, i) ==
    /\ h \in Busy
    /\ handlers[h].pc = "sending"
    /\ i \in handlers[h].rest
    /\ To[handlers[h].message.share][i] \in users
    /\ mailed' = [mailed EXCEPT ![<<handlers[h].message.share, i>>] = @ + 2]
    /\ handlers' = [handlers EXCEPT ![h].rest = @ \ {i}]
    /\ UNCHANGED <<tables, api, broker, up, breaks, returns, replays>>

\* One turn of the loop on user_ids, which goes through the list in its order.  The
\* SMTP server takes the mail or not, and may fail to say that it did.  A user that
\* does not exist or cannot be read, or a subject no header can hold, aborts the loop.
Notify(h, i) ==
    /\ h \in Busy
    /\ handlers[h].pc = "sending"
    /\ i \in handlers[h].rest /\ \A j \in handlers[h].rest : i <= j
    /\ LET s == handlers[h].message.share IN
       \/ /\ To[s][i] \in users
          /\ \E took, told \in BOOLEAN :
                /\ told => took
                /\ mailed' = IF took THEN [mailed EXCEPT ![<<s, i>>] = @ + 1] ELSE mailed
                /\ handlers' = [handlers EXCEPT
                        ![h].rest = @ \ {i},
                        ![h].failed = IF told THEN @ ELSE @ \union {i}]
          /\ UNCHANGED <<queue, dlq>>
       \/ Reject(h) /\ UNCHANGED mailed
    /\ UNCHANGED <<tables, api, up, breaks, returns, replays>>

\* publish_to_dlq, when some recipients failed; it may fail in its turn.
PublishToDlq(h) ==
    /\ h \in Busy
    /\ handlers[h].pc = "sending" /\ handlers[h].rest = {}
    /\ handlers[h].failed # {}
    /\ \/ /\ dlq' = dlq \union {Report(handlers[h].message, handlers[h].failed)}
          /\ handlers' = [handlers EXCEPT ![h].pc = "reported"]
          /\ UNCHANGED queue
       \/ Reject(h)
    /\ UNCHANGED <<tables, api, up, breaks, history>>

Finished(h) ==
    /\ h \in Busy
    /\ \/ handlers[h].pc = "reported"
       \/ handlers[h].pc = "sending" /\ handlers[h].rest = {} /\ handlers[h].failed = {}

\* A worker that acknowledges as soon as it has gone through the list.
AcknowledgeEarly(h) ==
    /\ h \in Busy
    /\ handlers[h].pc # "received" /\ handlers[h].rest = {}
    /\ handlers' = [handlers EXCEPT ![h] = Idle]
    /\ UNCHANGED <<tables, api, broker, up, breaks, history>>

\* A worker that leaves a message it could not serve in full unsettled.
AcknowledgeSuccess(h) ==
    /\ Finished(h)
    /\ handlers[h].failed = {}
    /\ handlers' = [handlers EXCEPT ![h] = Idle]
    /\ UNCHANGED <<tables, api, broker, up, breaks, history>>

\* incoming.process() exits normally: acknowledged, unless the broker has taken
\* the message back in the meantime, in which case nothing happens to it.
Acknowledge(h) ==
    /\ Finished(h)
    /\ handlers' = [handlers EXCEPT ![h] = Idle]
    /\ UNCHANGED <<tables, api, broker, up, breaks, history>>

\* A broker told to forget a message as soon as it is delivered (no_ack).
ForgetDelivered ==
    /\ breaks < Breaks
    /\ breaks' = breaks + 1
    /\ UNCHANGED <<queue, returns>>

\* What the broker does with unacknowledged messages of a closed channel.
TakeBack ==
    /\ breaks < Breaks
    /\ breaks' = breaks + 1
    /\ queue' = queue \union Held
    /\ returns' = [s \in Shares |->
                    IF \E m \in Held : m.share = s THEN returns[s] + 1 ELSE returns[s]]

\* The worker is killed, or stops on SIGTERM: it does not drain its handlers.
StopWorker ==
    /\ up
    /\ TakeBack
    /\ up' = FALSE
    /\ handlers' = [h \in Slots |-> Idle]
    /\ UNCHANGED <<tables, api, dlq, replays, mailed>>

\* A reconnection that leaves the handlers believing their deliveries valid.
DisconnectUnnoticed ==
    /\ up
    /\ TakeBack
    /\ UNCHANGED <<tables, api, dlq, up, handlers, replays, mailed>>

\* The connection drops and connect_robust restores it: the handlers go on.
Disconnect ==
    /\ up
    /\ TakeBack
    /\ handlers' = [h \in Slots |->
                        IF h \in Live THEN [handlers[h] EXCEPT !.live = FALSE]
                        ELSE handlers[h]]
    /\ UNCHANGED <<tables, api, dlq, up, replays, mailed>>

\* An operator moves a dead-lettered message back to the queue, as it is.
Replay(m) ==
    /\ replays < Replays
    /\ replays' = replays + 1
    /\ dlq' = dlq \ {m}
    /\ queue' = queue \union {m}
    /\ returns' = [returns EXCEPT ![m.share] = @ + 1]
    /\ UNCHANGED <<tables, api, worker, mailed>>

DeleteTask(t) ==
    /\ tasks' = tasks \ {t}
    /\ UNCHANGED <<users, api, broker, worker, history>>

DropUser(u) ==
    /\ users' = users \ {u}
    /\ UNCHANGED <<tasks, api, broker, worker, history>>

WorkerStep ==
    \/ StartWorker
    \/ \E h \in Slots :
        \/ \E m \in queue : Deliver(h, m)
        \/ ReadTask(h)
        \/ \E i \in Entries : Notify(h, i)
        \/ PublishToDlq(h)
        \/ Acknowledge(h)

Next ==
    \/ \E s \in Shares : CheckTask(s) \/ Publish(s)
    \/ \E t \in Tasks : DeleteTask(t)
    \/ \E u \in Droppable : DropUser(u)
    \/ WorkerStep
    \/ StopWorker
    \/ Disconnect
    \/ \E m \in dlq : Replay(m)

Spec == Init /\ [][Next]_vars

\* The orchestrator restarts the worker, and what it can do gets done.
FairSpec == Spec /\ WF_vars(WorkerStep)

-----------------------------------------------------------------------------
(* Properties.                                                             *)

\* Every entry of the list of a share the broker took is accounted for: mailed, named
\* in the dead-letter queue, or still to be served by a message that is waiting or
\* in the hands of a worker that must answer for it.  No crash between mails,
\* report and acknowledgement loses one, no missing recipient, no replay of a
\* report; and a 204 that came after the queue was first declared can be trusted.
NoRecipientForgotten ==
    \A s \in taken \union {q \in Shares \ dropped : answer[q] = "accepted"} :
        \A i \in DOMAIN To[s] :
            \/ mailed[<<s, i>>] > 0
            \/ \E m \in queue \union Held \union dlq : m.share = s /\ i \in m.entries

\* What ShareTask published is in one place: waiting, with one handler that can
\* settle it, or dead-lettered.  It never waits while a handler could still
\* acknowledge it.
OneHolder ==
    LET shares(S) == {m \in S : ~m.report} IN
    /\ shares(queue) \intersect (Held \union dlq) = {}
    /\ shares(Held) \intersect dlq = {}
    /\ \A g, h \in Live :
        handlers[g].message = handlers[h].message /\ ~handlers[g].message.report => g = h

\* Each entry of a list is mailed once, and again only when the message was taken or
\* moved back: a user gets no more mails than the list names him, times the deliveries
\* of the message.  What goes wrong with another entry, or with the report, repeats none.
RepeatsNeedABreak ==
    \A s \in Shares : \A i \in DOMAIN To[s] : mailed[<<s, i>>] <= 1 + returns[s]

\* Every message is settled in the end, whatever becomes of its task, of its
\* recipients and of the SMTP server; none occupies the prefetch window for good.
EveryMessageSettled == <>[](queue = {} /\ Busy = {})

\* The deliveries that messages S name.
Named(S) == {d \in Shares \X Entries : \E m \in S : m.share = d[1] /\ d[2] \in m.entries}

Promise == INSTANCE Notifications WITH
    announced <- taken,
    owed <- Named(queue \union Held),
    sent <- {d \in Shares \X Entries : mailed[d] > 0},
    parked <- Named(dlq)

\* The queue, the worker and the dead-letter queue together do what sharing
\* promises: a delivery stops being owed only once it was mailed or is parked.
NotifiesOrReports == Promise!Spec
=============================================================================
