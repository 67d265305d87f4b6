-------------------------- MODULE ShareNotifyProofs --------------------------
(***************************************************************************)
(* Queue, worker and dead-letter queue do what Notifications promises, and *)
(* so forget no recipient, for any shares, lists, prefetch count and       *)
(* number of handlers, failures and replays.                               *)
(*                                                                         *)
(* A message leaves the broker for good only when a live handler           *)
(* acknowledges it.  The invariant says what that handler then knows: each *)
(* entry of its list was mailed or is in a report, and reports are never   *)
(* acknowledged, since no handler gets past reading one.                   *)
(*                                                                         *)
(* The second part counts: an entry of a list is mailed at most once for   *)
(* every time the message entered the queue.                               *)
(***************************************************************************)
EXTENDS ShareNotify, FiniteSetTheorems, TLAPS

\* The parts of TypeOK the argument uses; mails are counted without a bound.
Kinds ==
    /\ answer \in [Shares -> {"none", "checked", "accepted", "not_found", "error"}]
    /\ queue \subseteq Message
    /\ dlq \subseteq Message
    /\ handlers \in [Slots -> Handler \union {Idle}]
    /\ taken \subseteq Shares
    /\ mailed \in [Shares \X Entries -> Nat]

Genuine(m) ==
    /\ m.share \in taken /\ m.entries \subseteq DOMAIN To[m.share]
    /\ ~m.report => m = Announcement(m.share)

\* Every message anywhere is of a share the broker took, and for entries of its list.
Messages ==
    /\ \A m \in queue \union dlq : Genuine(m)
    /\ \A h \in Busy : Genuine(handlers[h].message)

\* What a handler has done for message m: x is its state.
Duty(x) ==
    LET m == x.message IN
    /\ x.rest \union x.failed \subseteq m.entries
    /\ x.pc # "received" =>
        /\ ~m.report
        /\ \A i \in m.entries : i \in x.rest \union x.failed \/ mailed[<<m.share, i>>] > 0
    /\ x.pc = "reported" =>
        /\ x.rest = {}
        /\ Report(m, x.failed) \in queue \union Held \union dlq

Duties == \A h \in Busy : Duty(handlers[h])

\* What the API has said of a share.
Answers ==
    \A s \in Shares :
        /\ answer[s] \in {"none", "checked"} => s \notin taken
        /\ answer[s] = "accepted" => s \in taken \union dropped

SharingInv ==
    /\ Kinds
    /\ Messages
    /\ Duties
    /\ Answers
    /\ OneHolder

\* The entries of a list are entries.
LEMMA EntriesOf == \A s \in Shares : DOMAIN To[s] \subseteq Entries
BY DEF Entries

-----------------------------------------------------------------------------
(* What becomes of the handlers when one of them does something.           *)

\* It goes on with its message.
LEMMA Continues ==
    ASSUME Kinds, handlers' \in [Slots -> Handler \union {Idle}], NEW h \in Busy,
           handlers'[h] \in Handler,
           handlers'[h].message = handlers[h].message,
           handlers'[h].live = handlers[h].live,
           \A g \in Slots \ {h} : handlers'[g] = handlers[g]
    PROVE  Busy' = Busy /\ Live' = Live /\ Held' = Held
<1>1. Busy' = Busy
  BY IdleAssumption DEF Busy
<1>2. Live' = Live
  BY <1>1 DEF Live, Busy
<1>3. \A g \in Live : handlers'[g].message = handlers[g].message
  BY DEF Live, Busy
<1> QED  BY <1>1, <1>2, <1>3 DEF Held

\* It is over.
LEMMA Ends ==
    ASSUME Kinds, NEW h \in Busy, handlers' = [handlers EXCEPT ![h] = Idle]
    PROVE  /\ handlers' \in [Slots -> Handler \union {Idle}]
           /\ Busy' = Busy \ {h} /\ Live' = Live \ {h}
           /\ \A g \in Busy \ {h} : handlers'[g] = handlers[g]
           /\ Held' \subseteq Held
           /\ Held \ {handlers[h].message} \subseteq Held'
           /\ h \notin Live => Held' = Held
<1>1. handlers' \in [Slots -> Handler \union {Idle}]
  BY DEF Kinds
<1>2. Busy' = Busy \ {h} /\ \A g \in Busy \ {h} : handlers'[g] = handlers[g]
  BY DEF Kinds, Busy
<1>3. Live' = Live \ {h}
  BY <1>2 DEF Live
<1>4. \A g \in Live \ {h} : handlers'[g].message = handlers[g].message
  BY <1>2 DEF Live
<1> QED  BY <1>1, <1>2, <1>3, <1>4 DEF Held

\* Reports stay where somebody can find them, and mails stay mailed.
ReportsStay ==
    \A m \in queue \union Held \union dlq : m.report => m \in (queue \union Held \union dlq)'

MailsStay == \A d \in Shares \X Entries : mailed[d] > 0 => mailed'[d] > 0

\* The duties of handlers S that do nothing, but for losing their connection.
LEMMA DutiesStay ==
    ASSUME Kinds, Messages, Duties, ReportsStay, MailsStay,
           NEW S \in SUBSET Busy,
           \A g \in S : /\ handlers'[g].message = handlers[g].message
                        /\ handlers'[g].pc = handlers[g].pc
                        /\ handlers'[g].rest = handlers[g].rest
                        /\ handlers'[g].failed = handlers[g].failed
    PROVE  \A g \in S : Duty(handlers[g])'
<1> SUFFICES ASSUME NEW g \in S PROVE Duty(handlers[g])'
  OBVIOUS
<1> DEFINE m == handlers[g].message
<1>1. Duty(handlers[g]) /\ handlers[g] \in Handler
  BY DEF Duties, Kinds, Busy
<1>2. m.share \in Shares /\ m.entries \subseteq Entries
  BY <1>1 DEF Handler, Message
<1>3. \A i \in m.entries : mailed[<<m.share, i>>] > 0 => mailed'[<<m.share, i>>] > 0
  BY <1>2 DEF MailsStay
<1>4. \A F : Report(m, F) \in queue \union Held \union dlq
                => Report(m, F) \in (queue \union Held \union dlq)'
  BY DEF ReportsStay, Report
<1> QED  BY <1>1, <1>3, <1>4 DEF Duty, Report

-----------------------------------------------------------------------------
(* The steps of one handler.                                               *)

\* It goes on with its message and may publish reports R.
LEMMA HandlerGoesOn ==
    ASSUME SharingInv, NEW h \in Busy, NEW x \in Handler, NEW R \in SUBSET Message,
           handlers' = [handlers EXCEPT ![h] = x],
           x.message = handlers[h].message, x.live = handlers[h].live,
           queue' = queue, dlq' = dlq \union R, \A m \in R : m.report /\ Genuine(m),
           answer' = answer, taken' = taken, dropped' = dropped,
           mailed' \in [Shares \X Entries -> Nat], MailsStay,
           Duty(handlers[h])'
    PROVE  SharingInv' /\ Held' = Held
<1> USE DEF SharingInv
<1>1. h \in Slots /\ handlers[h] \in Handler
  BY DEF Busy, Kinds
<1>2. handlers' \in [Slots -> Handler \union {Idle}]
  BY <1>1 DEF Kinds
<1>3. handlers'[h] = x /\ \A g \in Slots \ {h} : handlers'[g] = handlers[g]
  BY <1>1 DEF Kinds
<1>4. Busy' = Busy /\ Live' = Live /\ Held' = Held
  BY <1>2, <1>3, Continues
<1>5. Kinds'
  BY <1>2 DEF Kinds
<1>6. Messages'
  <2>1. \A g \in Busy : handlers'[g].message = handlers[g].message
    BY <1>3 DEF Busy
  <2> QED  BY <2>1, <1>4 DEF Messages, Genuine, Announcement
<1>7. Duties'
  <2>1. ReportsStay
    BY <1>4 DEF ReportsStay
  <2>2. \A g \in Busy \ {h} : handlers'[g] = handlers[g]
    BY <1>3 DEF Busy
  <2>3. \A g \in Busy \ {h} : Duty(handlers[g])'
    BY <2>1, <2>2, DutiesStay
  <2> QED  BY <1>4, <2>3 DEF Duties
<1>8. Answers'
  BY DEF Answers
<1>9. OneHolder'
  <2>1. \A g \in Live : handlers'[g].message = handlers[g].message
    BY <1>3 DEF Live, Busy
  <2> QED  BY <2>1, <1>4 DEF OneHolder
<1> QED  BY <1>4, <1>5, <1>6, <1>7, <1>8, <1>9

\* It is over: its message, if still its own, is dead-lettered or, once every
\* entry of its list is mailed or reported, forgotten.
LEMMA HandlerEnds ==
    ASSUME SharingInv, NEW h \in Busy,
           handlers' = [handlers EXCEPT ![h] = Idle], queue' = queue,
           \/ dlq' = dlq /\ (h \in Live => ~handlers[h].message.report)
           \/ dlq' = dlq \union {handlers[h].message} /\ h \in Live,
           answer' = answer, taken' = taken, dropped' = dropped, mailed' = mailed
    PROVE  SharingInv'
<1> USE DEF SharingInv
<1> DEFINE m == handlers[h].message
<1>1. h \in Slots /\ handlers[h] \in Handler /\ m \in Message
  BY DEF Busy, Kinds, Handler
<1>2. /\ handlers' \in [Slots -> Handler \union {Idle}]
      /\ Busy' = Busy \ {h} /\ Live' = Live \ {h}
      /\ \A g \in Busy \ {h} : handlers'[g] = handlers[g]
      /\ Held' \subseteq Held
      /\ Held \ {m} \subseteq Held'
      /\ h \notin Live => Held' = Held
  BY Ends
<1>3. Kinds'
  BY <1>1, <1>2 DEF Kinds
<1>4. Messages'
  <2>1. \A n \in queue' \union dlq' : Genuine(n)
    BY DEF Messages
  <2>2. \A g \in Busy' : Genuine(handlers'[g].message)
    BY <1>2 DEF Messages
  <2> QED  BY <2>1, <2>2 DEF Messages, Genuine, Announcement
<1>5. Duties'
  <2>1. ReportsStay
    BY <1>2 DEF ReportsStay
  <2>2. MailsStay
    BY DEF MailsStay
  <2>3. \A g \in Busy \ {h} : Duty(handlers[g])'
    BY <1>2, <2>1, <2>2, DutiesStay
  <2> QED  BY <1>2, <2>3 DEF Duties
<1>6. Answers'
  BY DEF Answers
<1>7. OneHolder'
  <2>1. \A g \in Live' : g \in Live \ {h} /\ handlers'[g].message = handlers[g].message
    BY <1>2 DEF Live
  <2>2. h \in Live => m \in Held
    BY DEF Held
  <2>3. ASSUME h \in Live, ~m.report PROVE m \notin Held'
    BY <2>1, <2>3 DEF OneHolder, Held
  <2> QED  BY <1>2, <2>1, <2>2, <2>3 DEF OneHolder
<1> QED  BY <1>3, <1>4, <1>5, <1>6, <1>7

\* The broker takes back what it had delivered; of the handlers, those of S go on.
LEMMA TakenBack ==
    ASSUME SharingInv, TakeBack, NEW S \in SUBSET Slots,
           handlers' = [h \in Slots |->
                IF h \notin S THEN Idle
                ELSE IF h \in Live THEN [handlers[h] EXCEPT !.live = FALSE]
                ELSE handlers[h]],
           dlq' = dlq, answer' = answer, taken' = taken, dropped' = dropped,
           mailed' = mailed
    PROVE  SharingInv' /\ Held' = {}
<1> USE DEF SharingInv
<1>1. handlers' \in [Slots -> Handler \union {Idle}]
  <2>1. \A h \in Live : [handlers[h] EXCEPT !.live = FALSE] \in Handler
    BY DEF Kinds, Live, Busy, Handler
  <2> QED  BY <2>1 DEF Kinds
<1>2. Busy' \subseteq Busy
  BY DEF Busy, Live
<1>3. \A h \in Busy' :
        /\ handlers'[h].message = handlers[h].message
        /\ handlers'[h].pc = handlers[h].pc
        /\ handlers'[h].rest = handlers[h].rest
        /\ handlers'[h].failed = handlers[h].failed
        /\ ~handlers'[h].live
  <2> SUFFICES ASSUME NEW h \in Busy'
               PROVE  /\ handlers'[h].message = handlers[h].message
                      /\ handlers'[h].pc = handlers[h].pc
                      /\ handlers'[h].rest = handlers[h].rest
                      /\ handlers'[h].failed = handlers[h].failed
                      /\ ~handlers'[h].live
    OBVIOUS
  <2>1. h \in Slots /\ h \in Busy /\ handlers[h] \in Handler /\ h \in S
    BY <1>2 DEF Busy, Kinds
  <2>2. CASE h \in Live
    BY <2>1, <2>2 DEF Handler
  <2>3. CASE h \notin Live
    BY <2>1, <2>3 DEF Live
  <2> QED  BY <2>2, <2>3
<1>4. Live' = {} /\ Held' = {}
  BY <1>3 DEF Live, Held
<1>5. queue' = queue \union Held
  BY DEF TakeBack
<1>6. Held \subseteq Message /\ \A m \in Held : Genuine(m)
  BY DEF Held, Live, Busy, Messages, Kinds, Handler
<1>7. Kinds'
  BY <1>1, <1>5, <1>6 DEF Kinds
<1>8. Messages'
  <2>1. \A m \in queue' \union dlq' : Genuine(m)
    BY <1>5, <1>6 DEF Messages
  <2>2. \A h \in Busy' : Genuine(handlers'[h].message)
    BY <1>2, <1>3 DEF Messages
  <2> QED  BY <2>1, <2>2 DEF Messages, Genuine, Announcement
<1>9. Duties'
  <2>1. ReportsStay
    BY <1>5 DEF ReportsStay
  <2>2. MailsStay
    BY DEF MailsStay
  <2>3. \A h \in Busy' : Duty(handlers[h])'
    BY <1>2, <1>3, <2>1, <2>2, DutiesStay
  <2> QED  BY <2>3 DEF Duties
<1>10. Answers'
  BY DEF Answers
<1>11. OneHolder'
  BY <1>4, <1>5 DEF OneHolder
<1> QED  BY <1>4, <1>7, <1>8, <1>9, <1>10, <1>11

-----------------------------------------------------------------------------
(* The invariant is inductive.                                             *)

\* Nothing is published, delivered, mailed or settled.
LEMMA NothingMoves ==
    ASSUME SharingInv, UNCHANGED <<queue, dlq, handlers, mailed, taken>>,
           answer' \in [Shares -> {"none", "checked", "accepted", "not_found", "error"}],
           Answers'
    PROVE  SharingInv'
<1> USE DEF SharingInv
<1>1. Busy' = Busy /\ Live' = Live /\ Held' = Held
  BY DEF Busy, Live, Held
<1>2. Kinds'
  BY DEF Kinds
<1>3. Messages'
  BY <1>1 DEF Messages, Genuine, Announcement
<1>4. Duties'
  BY <1>1 DEF Duties, Duty, Report
<1>5. OneHolder'
  BY <1>1 DEF OneHolder
<1> QED  BY <1>2, <1>3, <1>4, <1>5

\* A share is checked before it is published, so it is in no message yet.
LEMMA CheckTaskKeeps ==
    ASSUME SharingInv, NEW s \in Shares, CheckTask(s)
    PROVE  SharingInv'
<1> USE DEF CheckTask, api, broker, worker, history, tables
<1>1. answer' \in [Shares -> {"none", "checked", "accepted", "not_found", "error"}]
  BY DEF SharingInv, Kinds
<1>2. Answers'
  BY DEF SharingInv, Kinds, Answers
<1> QED  BY <1>1, <1>2, NothingMoves

\* The message of a share is new: nothing in the broker or the worker is of it.
LEMMA PublishKeeps ==
    ASSUME SharingInv, NEW s \in Shares, Publish(s)
    PROVE  SharingInv'
<1> USE DEF SharingInv
<1>1. answer' \in [Shares -> {"none", "checked", "accepted", "not_found", "error"}]
  BY DEF Kinds, Publish
<1>2. Answers'
  <2> PICK reached, confirmed \in BOOLEAN :
        /\ confirmed => reached
        /\ answer' = [answer EXCEPT ![s] = IF confirmed THEN "accepted" ELSE "error"]
        /\ IF reached /\ declared
           THEN queue' = queue \union {Announcement(s)} /\ taken' = taken \union {s}
           ELSE UNCHANGED <<queue, taken>>
        /\ dropped' = IF reached /\ ~declared THEN dropped \union {s} ELSE dropped
    BY DEF Publish
  <2>1. answer'[s] \in {"accepted", "error"} /\ \A q \in Shares \ {s} : answer'[q] = answer[q]
    BY DEF Kinds
  <2>2. taken' \subseteq taken \union {s} /\ taken \union dropped \subseteq taken' \union dropped'
    OBVIOUS
  <2>3. answer'[s] = "accepted" => s \in taken' \union dropped'
    BY DEF Kinds
  <2> QED  BY <2>1, <2>2, <2>3 DEF Answers
<1>3. CASE UNCHANGED <<queue, taken>>
  BY <1>1, <1>2, <1>3, NothingMoves DEF Publish, worker, history
<1>4. CASE queue' = queue \union {Announcement(s)} /\ taken' = taken \union {s}
  <2> DEFINE m == Announcement(s)
  <2>1. m \in Message /\ m.share = s /\ m.entries = DOMAIN To[s] /\ ~m.report
    BY EntriesOf DEF Announcement, Message
  <2>2. UNCHANGED <<dlq, handlers, mailed>>
    BY DEF Publish, worker, history
  <2>3. Busy' = Busy /\ Live' = Live /\ Held' = Held
    BY <2>2 DEF Busy, Live, Held
  <2>4. Kinds'
    BY <1>1, <1>4, <2>1, <2>2 DEF Kinds
  <2>5. Messages'
    <3>1. \A n \in queue \union dlq : Genuine(n)'
      BY <1>4 DEF Messages, Genuine, Announcement
    <3>2. Genuine(m)'
      BY <1>4, <2>1 DEF Genuine
    <3>3. \A h \in Busy : Genuine(handlers[h].message)'
      BY <1>4, <2>2 DEF Messages, Genuine, Announcement
    <3> QED  BY <1>4, <2>2, <2>3, <3>1, <3>2, <3>3 DEF Messages
  <2>6. Duties'
    BY <1>4, <2>2, <2>3 DEF Duties, Duty, Report
  <2>7. OneHolder'
    <3>1. s \notin taken
      BY DEF Publish, Answers
    <3>2. m \notin Held \union dlq
      BY <2>1, <3>1 DEF Messages, Genuine, Held, Live
    <3> QED  BY <1>4, <2>1, <2>2, <2>3, <3>2 DEF OneHolder
  <2> QED  BY <1>2, <2>4, <2>5, <2>6, <2>7
<1> QED  BY <1>3, <1>4 DEF Publish

\* The message moves from the queue to one handler, which has done nothing yet.
LEMMA DeliverKeeps ==
    ASSUME SharingInv, NEW h \in Slots, NEW m \in queue, Deliver(h, m)
    PROVE  SharingInv' /\ Held' = Held \union {m}
<1> USE DEF SharingInv
<1> DEFINE x == [message |-> m, live |-> TRUE, pc |-> "received", rest |-> {}, failed |-> {}]
<1>1. m \in Message /\ Genuine(m)
  BY DEF Kinds, Messages
<1>2. x \in Handler
  BY <1>1 DEF Handler
<1>3. UNCHANGED <<answer, taken, dropped, dlq, mailed>> /\ queue' = queue \ {m}
  BY DEF Deliver, api, history
<1>4. h \notin Busy /\ handlers' = [handlers EXCEPT ![h] = x]
  BY DEF Deliver
<1>5. handlers'[h] = x /\ \A g \in Slots \ {h} : handlers'[g] = handlers[g]
  BY <1>4 DEF Kinds
<1>6. Busy' = Busy \union {h}
  BY <1>2, <1>5, IdleAssumption DEF Busy
<1>7. Live' = Live \union {h}
  BY <1>4, <1>5, <1>6 DEF Live, Busy
<1>8. Held' = Held \union {m}
  <2>1. \A g \in Live : handlers'[g].message = handlers[g].message
    BY <1>4, <1>5 DEF Live, Busy
  <2>2. handlers'[h].message = m
    BY <1>5
  <2> QED  BY <1>7, <2>1, <2>2 DEF Held
<1>9. Kinds'
  BY <1>2, <1>3, <1>4 DEF Kinds
<1>10. Messages'
  <2>1. \A n \in queue' \union dlq' : Genuine(n)
    BY <1>3 DEF Messages
  <2>2. \A g \in Busy' : Genuine(handlers'[g].message)
    BY <1>1, <1>4, <1>5, <1>6 DEF Messages, Busy
  <2> QED  BY <1>3, <2>1, <2>2 DEF Messages, Genuine, Announcement
<1>11. Duties'
  <2>1. ReportsStay /\ MailsStay
    BY <1>3, <1>8 DEF ReportsStay, MailsStay
  <2>2. \A g \in Busy : handlers'[g] = handlers[g]
    BY <1>4, <1>5 DEF Busy
  <2>3. \A g \in Busy : Duty(handlers[g])'
    BY <2>1, <2>2, DutiesStay
  <2>4. Duty(handlers[h])'
    BY <1>5 DEF Duty
  <2> QED  BY <1>6, <2>3, <2>4 DEF Duties
<1>12. Answers'
  BY <1>3 DEF Answers
<1>13. OneHolder'
  <2>1. \A g \in Live : handlers'[g].message = handlers[g].message /\ handlers[g].message \in Held
    BY <1>4, <1>5 DEF Live, Busy, Held
  <2>2. handlers'[h].message = m
    BY <1>5
  <2> QED  BY <1>3, <1>7, <1>8, <2>1, <2>2 DEF OneHolder
<1> QED  BY <1>8, <1>9, <1>10, <1>11, <1>12, <1>13

\* A rejected message is dead-lettered, by the one handler that may settle it.
LEMMA RejectKeeps ==
    ASSUME SharingInv, NEW h \in Busy, Reject(h),
           answer' = answer, taken' = taken, dropped' = dropped, mailed' = mailed
    PROVE  SharingInv'
<1>1. CASE h \in Live
  BY <1>1, HandlerEnds DEF Reject, Live
<1>2. CASE h \notin Live
  BY <1>2, HandlerEnds DEF Reject, Live
<1> QED  BY <1>1, <1>2

\* The list a handler goes through is that of its message, and no report has one.
LEMMA ReadTaskKeeps ==
    ASSUME SharingInv, NEW h \in Slots, ReadTask(h)
    PROVE  SharingInv' /\ (Held' = Held \/ Reject(h))
<1> DEFINE m == handlers[h].message
<1>1. h \in Busy /\ handlers[h] \in Handler /\ m \in Message
  BY DEF ReadTask, SharingInv, Kinds, Busy, Handler
<1>2. UNCHANGED <<answer, taken, dropped, mailed>>
  BY DEF ReadTask, api, history
<1>3. CASE Reject(h)
  BY <1>1, <1>2, <1>3, RejectKeeps
<1>4. CASE /\ ~m.report
           /\ handlers' = [handlers EXCEPT ![h].pc = "sending", ![h].rest = m.entries]
           /\ UNCHANGED <<queue, dlq>>
  <2> DEFINE x == [handlers[h] EXCEPT !.pc = "sending", !.rest = m.entries]
  <2>1. x \in Handler /\ x.message = m /\ x.live = handlers[h].live
    BY <1>1 DEF Handler, Message
  <2>2. handlers' = [handlers EXCEPT ![h] = x]
    BY <1>1, <1>4 DEF Handler, SharingInv, Kinds
  <2>3. MailsStay /\ mailed' \in [Shares \X Entries -> Nat] /\ dlq' = dlq \union {}
    BY <1>2, <1>4 DEF MailsStay, SharingInv, Kinds
  <2>4. Duty(handlers[h])'
    <3>1. handlers'[h] = x
      BY <1>1, <2>2 DEF SharingInv, Kinds, Busy
    <3>2. /\ x.message = m /\ x.pc = "sending" /\ x.rest = m.entries
          /\ x.failed = handlers[h].failed
      BY <1>1 DEF Handler
    <3>3. handlers[h].failed \subseteq m.entries
      BY <1>1 DEF SharingInv, Duties, Duty
    <3> QED  BY <1>4, <3>1, <3>2, <3>3 DEF Duty
  <2>5. {} \in SUBSET Message /\ \A n \in {} : n.report /\ Genuine(n)
    OBVIOUS
  <2> HIDE DEF x
  <2> QED  BY <1>1, <1>2, <1>4, <2>1, <2>2, <2>3, <2>4, <2>5, HandlerGoesOn
<1> QED  BY <1>3, <1>4 DEF ReadTask

\* An entry done with was mailed or has failed.
LEMMA NotifyKeeps ==
    ASSUME SharingInv, NEW h \in Slots, NEW i \in Entries, Notify(h, i)
    PROVE  /\ SharingInv'
           /\ \/ /\ Held' = Held /\ UNCHANGED <<queue, dlq>>
                 /\ \/ mailed' = mailed
                    \/ mailed' = [mailed EXCEPT ![<<handlers[h].message.share, i>>] = @ + 1]
              \/ Reject(h) /\ UNCHANGED mailed
<1> DEFINE m == handlers[h].message
           d == <<m.share, i>>
<1>1. h \in Busy /\ handlers[h] \in Handler /\ m \in Message
  BY DEF Notify, SharingInv, Kinds, Busy, Handler
<1>2. UNCHANGED <<answer, taken, dropped>>
  BY DEF Notify, api
<1>3. CASE Reject(h) /\ UNCHANGED mailed
  BY <1>1, <1>2, <1>3, RejectKeeps
<1>4. ASSUME NEW took \in BOOLEAN, NEW told \in BOOLEAN, told => took,
             mailed' = IF took THEN [mailed EXCEPT ![d] = @ + 1] ELSE mailed,
             handlers' = [handlers EXCEPT
                        ![h].rest = @ \ {i},
                        ![h].failed = IF told THEN @ ELSE @ \union {i}],
             UNCHANGED <<queue, dlq>>
      PROVE  SharingInv' /\ Held' = Held
  <2> DEFINE f == IF told THEN handlers[h].failed ELSE handlers[h].failed \union {i}
             x == [handlers[h] EXCEPT !.rest = @ \ {i}, !.failed = f]
  <2>1. f \subseteq Entries
    BY <1>1 DEF Handler
  <2>2. /\ x \in Handler /\ x.message = m /\ x.live = handlers[h].live
        /\ x.pc = handlers[h].pc /\ x.rest = handlers[h].rest \ {i} /\ x.failed = f
    BY <1>1, <2>1 DEF Handler
  <2>3. handlers' = [handlers EXCEPT ![h] = x]
    BY <1>1, <1>4 DEF Handler, SharingInv, Kinds
  <2>4. d \in Shares \X Entries /\ mailed \in [Shares \X Entries -> Nat]
    BY <1>1 DEF Message, SharingInv, Kinds
  <2>5. /\ mailed' \in [Shares \X Entries -> Nat]
        /\ \A e \in Shares \X Entries : mailed[e] > 0 => mailed'[e] > 0
        /\ told => mailed'[d] > 0
    <3>1. CASE took
      <4>1. mailed' = [mailed EXCEPT ![d] = mailed[d] + 1]
        BY <1>4, <3>1
      <4> HIDE DEF d
      <4> QED  BY <2>4, <4>1
    <3>2. CASE ~took
      BY <1>4, <2>4, <3>2
    <3> QED  BY <3>1, <3>2
  <2>6. Duty(handlers[h])'
    <3>1. handlers'[h] = x
      BY <1>1, <2>3 DEF SharingInv, Kinds, Busy
    <3>2. Duty(handlers[h]) /\ handlers[h].pc = "sending"
      BY <1>1 DEF SharingInv, Duties, Notify
    <3>3. i \in handlers[h].rest
      BY DEF Notify
    <3>4. f \subseteq m.entries /\ ~m.report
      BY <3>2, <3>3 DEF Duty
    <3>5. ASSUME NEW v \in m.entries
          PROVE  v \in x.rest \union x.failed \/ mailed'[<<m.share, v>>] > 0
      <4>1. CASE v = i
        BY <2>2, <2>5, <4>1
      <4>2. CASE v # i
        <5>1. v \in handlers[h].rest \union handlers[h].failed \/ mailed[<<m.share, v>>] > 0
          BY <3>2 DEF Duty
        <5>2. mailed[<<m.share, v>>] > 0 => mailed'[<<m.share, v>>] > 0
          BY <1>1, <2>5 DEF Message
        <5> QED  BY <2>2, <4>2, <5>1, <5>2
      <4> QED  BY <4>1, <4>2
    <3> HIDE DEF x, f
    <3>6. x.rest \union x.failed \subseteq m.entries
      BY <2>2, <3>2, <3>4 DEF Duty
    <3> QED  BY <2>2, <3>1, <3>2, <3>4, <3>5, <3>6 DEF Duty
  <2>7. MailsStay /\ dlq' = dlq \union {}
    BY <1>4, <2>5 DEF MailsStay
  <2>8. {} \in SUBSET Message /\ \A n \in {} : n.report /\ Genuine(n)
    OBVIOUS
  <2> HIDE DEF x
  <2> QED  BY <1>1, <1>2, <1>4, <2>2, <2>3, <2>5, <2>6, <2>7, <2>8, HandlerGoesOn
<1> QED  BY <1>3, <1>4 DEF Notify

\* The report a handler writes names the entries it failed to mail.
LEMMA PublishToDlqKeeps ==
    ASSUME SharingInv, NEW h \in Slots, PublishToDlq(h)
    PROVE  SharingInv' /\ (Held' = Held \/ Reject(h))
<1> DEFINE m == handlers[h].message
           r == Report(m, handlers[h].failed)
<1>1. h \in Busy /\ handlers[h] \in Handler /\ m \in Message
  BY DEF PublishToDlq, SharingInv, Kinds, Busy, Handler
<1>2. UNCHANGED <<answer, taken, dropped, mailed>>
  BY DEF PublishToDlq, api, history
<1>3. CASE Reject(h)
  BY <1>1, <1>2, <1>3, RejectKeeps
<1>4. CASE /\ dlq' = dlq \union {r}
           /\ handlers' = [handlers EXCEPT ![h].pc = "reported"]
           /\ UNCHANGED queue
  <2> DEFINE x == [handlers[h] EXCEPT !.pc = "reported"]
  <2>1. /\ x \in Handler /\ x.message = m /\ x.live = handlers[h].live
        /\ x.pc = "reported" /\ x.rest = handlers[h].rest /\ x.failed = handlers[h].failed
    BY <1>1 DEF Handler
  <2>2. handlers' = [handlers EXCEPT ![h] = x]
    BY <1>1, <1>4 DEF Handler, SharingInv, Kinds
  <2>3. MailsStay /\ mailed' \in [Shares \X Entries -> Nat]
    BY <1>2 DEF MailsStay, SharingInv, Kinds
  <2>4. Duty(handlers[h]) /\ handlers[h].pc = "sending" /\ handlers[h].rest = {}
    BY <1>1 DEF SharingInv, Duties, PublishToDlq
  <2>5. r \in Message /\ r.report
    BY <1>1 DEF Report, Message, Handler
  <2>6. Genuine(r)
    <3>1. Genuine(m)
      BY <1>1 DEF SharingInv, Messages
    <3>2. r.share = m.share /\ r.entries \subseteq m.entries
      BY <2>4 DEF Report, Duty
    <3> QED  BY <2>5, <3>1, <3>2 DEF Genuine
  <2>7. Duty(handlers[h])'
    <3>1. handlers'[h] = x
      BY <1>1, <2>2 DEF SharingInv, Kinds, Busy
    <3>2. Report(x.message, x.failed) \in dlq'
      BY <1>4, <2>1
    <3> HIDE DEF x, r
    <3> QED  BY <1>2, <2>1, <2>4, <3>1, <3>2 DEF Duty, Report
  <2>8. {r} \in SUBSET Message /\ \A n \in {r} : n.report /\ Genuine(n)
    BY <2>5, <2>6
  <2> HIDE DEF x, r
  <2> QED  BY <1>1, <1>2, <1>4, <2>1, <2>2, <2>3, <2>7, <2>8, HandlerGoesOn
<1> QED  BY <1>3, <1>4 DEF PublishToDlq

\* Only a handler that has read its message gets here, so it is no report.
LEMMA AcknowledgeKeeps ==
    ASSUME SharingInv, NEW h \in Slots, Acknowledge(h)
    PROVE  SharingInv'
<1>1. h \in Busy /\ Duty(handlers[h]) /\ handlers[h].pc # "received"
  BY DEF Acknowledge, Finished, SharingInv, Duties
<1>2. ~handlers[h].message.report
  BY <1>1 DEF Duty
<1> QED  BY <1>1, <1>2, HandlerEnds DEF Acknowledge, api, broker, history

\* A worker that stops leaves no handler, and every message it held in the queue.
LEMMA StopWorkerKeeps ==
    ASSUME SharingInv, StopWorker
    PROVE  SharingInv' /\ Held' = {}
<1>1. handlers' = [h \in Slots |->
                IF h \notin {} THEN Idle
                ELSE IF h \in Live THEN [handlers[h] EXCEPT !.live = FALSE]
                ELSE handlers[h]]
  BY DEF StopWorker
<1>2. {} \in SUBSET Slots
  OBVIOUS
<1> QED  BY <1>1, <1>2, TakenBack DEF StopWorker, api

\* After a reconnection no handler can settle what it is handling.
LEMMA DisconnectKeeps ==
    ASSUME SharingInv, Disconnect
    PROVE  SharingInv' /\ Held' = {}
<1>1. handlers' = [h \in Slots |->
                IF h \notin Slots THEN Idle
                ELSE IF h \in Live THEN [handlers[h] EXCEPT !.live = FALSE]
                ELSE handlers[h]]
  BY DEF Disconnect
<1>2. Slots \in SUBSET Slots
  OBVIOUS
<1> QED  BY <1>1, <1>2, TakenBack DEF Disconnect, api

\* A message moved back is the one that was dead-lettered.
LEMMA ReplayKeeps ==
    ASSUME SharingInv, NEW m \in dlq, Replay(m)
    PROVE  SharingInv' /\ Held' = Held
<1> USE DEF SharingInv
<1>1. /\ UNCHANGED <<answer, taken, dropped, handlers, mailed>>
      /\ dlq' = dlq \ {m} /\ queue' = queue \union {m}
  BY DEF Replay, api, worker
<1>2. Busy' = Busy /\ Live' = Live /\ Held' = Held
  BY <1>1 DEF Busy, Live, Held
<1>3. Kinds'
  BY <1>1 DEF Kinds
<1>4. Messages'
  BY <1>1, <1>2 DEF Messages, Genuine, Announcement
<1>5. Duties'
  BY <1>1, <1>2 DEF Duties, Duty, Report
<1>6. Answers'
  BY <1>1 DEF Answers
<1>7. OneHolder'
  BY <1>1, <1>2 DEF OneHolder
<1> QED  BY <1>2, <1>3, <1>4, <1>5, <1>6, <1>7

\* Nothing is anywhere at first.
LEMMA InitSharing == Init => SharingInv
<1> SUFFICES ASSUME Init PROVE SharingInv
  OBVIOUS
<1>1. Busy = {} /\ Live = {} /\ Held = {}
  BY DEF Init, Busy, Live, Held
<1>2. Kinds
  BY DEF Init, Kinds
<1>3. Messages /\ Duties /\ OneHolder
  BY <1>1 DEF Init, Messages, Duties, OneHolder
<1>4. Answers
  BY DEF Init, Answers
<1> QED  BY <1>2, <1>3, <1>4 DEF SharingInv

\* Every step keeps the invariant.
LEMMA NextSharing == SharingInv /\ [Next]_vars => SharingInv'
<1> SUFFICES ASSUME SharingInv, [Next]_vars PROVE SharingInv'
  OBVIOUS
<1>1. ASSUME NEW s \in Shares, CheckTask(s) \/ Publish(s) PROVE SharingInv'
  BY <1>1, CheckTaskKeeps, PublishKeeps
<1>2. ASSUME UNCHANGED <<queue, dlq, handlers, mailed, answer, taken, dropped>>
      PROVE  SharingInv'
  <2>1. /\ answer' \in [Shares -> {"none", "checked", "accepted", "not_found", "error"}]
        /\ Answers'
    BY <1>2 DEF SharingInv, Kinds, Answers
  <2> QED  BY <1>2, <2>1, NothingMoves
<1>3. CASE \E t \in Tasks : DeleteTask(t)
  BY <1>2, <1>3 DEF DeleteTask, api, broker, worker, history
<1>4. CASE \E u \in Droppable : DropUser(u)
  BY <1>2, <1>4 DEF DropUser, api, broker, worker, history
<1>5. CASE StartWorker
  BY <1>2, <1>5 DEF StartWorker, broker, history
<1>6. ASSUME NEW h \in Slots,
             \/ \E m \in queue : Deliver(h, m)
             \/ ReadTask(h)
             \/ \E i \in Entries : Notify(h, i)
             \/ PublishToDlq(h)
             \/ Acknowledge(h)
      PROVE  SharingInv'
  BY <1>6, DeliverKeeps, ReadTaskKeeps, NotifyKeeps, PublishToDlqKeeps, AcknowledgeKeeps
<1>7. CASE StopWorker \/ Disconnect
  BY <1>7, StopWorkerKeeps, DisconnectKeeps
<1>8. CASE \E m \in dlq : Replay(m)
  BY <1>8, ReplayKeeps
<1>9. CASE UNCHANGED vars
  BY <1>2, <1>9 DEF vars
<1> QED
  BY <1>1, <1>3, <1>4, <1>5, <1>6, <1>7, <1>8, <1>9 DEF Next, WorkerStep

\* What is true of every message and of every handler, whatever has failed.
THEOREM SharingInvHolds == Spec => []SharingInv
<1> QED  BY InitSharing, NextSharing, PTL DEF Spec

\* What ShareTask published is in one place, and only one handler can settle it.
THEOREM OneHolderHolds == Spec => []OneHolder
<1>1. SharingInv => OneHolder
  BY DEF SharingInv
<1> QED  BY <1>1, SharingInvHolds, PTL

-----------------------------------------------------------------------------
(* Every step is a step of Notifications, or changes nothing it speaks of. *)

\* A message that only changes hands, or none, is nothing to Notifications.
LEMMA NobodyNotices ==
    ASSUME queue' \union Held' = queue \union Held, UNCHANGED <<dlq, mailed, taken>>
    PROVE  UNCHANGED Promise!vars
BY DEF Promise!vars, Named

\* A message may go once whoever it names is mailed or named by another.
LEMMA GoneIsSettled ==
    ASSUME SharingInv, SharingInv', UNCHANGED <<mailed, taken>>, dlq \subseteq dlq',
           queue' \union Held' \subseteq queue \union Held,
           \A m \in (queue \union Held) \ (queue' \union Held') : \A i \in m.entries :
                \/ mailed[<<m.share, i>>] > 0
                \/ \E n \in queue' \union Held' \union dlq' : n.share = m.share /\ i \in n.entries
    PROVE  Promise!Settle
<1>1. Named(queue \union Held)' \subseteq Named(queue \union Held)
  BY DEF Named
<1>2. Named(dlq) \subseteq Named(dlq)'
  BY DEF Named
<1>3. Named(dlq)' \subseteq Promise!Deliveries
  <2> SUFFICES ASSUME NEW d \in Named(dlq)' PROVE d \in Promise!Deliveries
    OBVIOUS
  <2>1. PICK m \in dlq' : m.share = d[1] /\ d[2] \in m.entries
    BY DEF Named
  <2>2. m.share \in taken /\ m.entries \subseteq DOMAIN To[m.share]
    BY DEF SharingInv, Messages, Genuine
  <2>3. d = <<d[1], d[2]>>
    BY DEF Named
  <2> QED  BY <2>1, <2>2, <2>3 DEF Promise!Deliveries, Promise!Of
<1>4. ASSUME NEW d \in Named(queue \union Held), d \notin Named(queue \union Held)'
      PROVE  d \in {e \in Shares \X Entries : mailed[e] > 0} \union Named(dlq)'
  <2>1. d \in Shares \X Entries /\ d = <<d[1], d[2]>>
    BY DEF Named
  <2>2. PICK m \in queue \union Held : m.share = d[1] /\ d[2] \in m.entries
    BY DEF Named
  <2>3. m \notin queue' \union Held'
    BY <1>4, <2>1, <2>2 DEF Named
  <2>4. CASE mailed[<<m.share, d[2]>>] > 0
    BY <2>1, <2>2, <2>4
  <2>5. CASE \E n \in queue' \union Held' \union dlq' : n.share = m.share /\ d[2] \in n.entries
    BY <1>4, <2>1, <2>2, <2>5 DEF Named
  <2> QED  BY <2>2, <2>3, <2>4, <2>5
<1> QED  BY <1>1, <1>2, <1>3, <1>4 DEF Promise!Settle

\* A share the broker takes is announced.
LEMMA PublishRefines ==
    ASSUME SharingInv, NEW s \in Shares, Publish(s)
    PROVE  Promise!Announce(s) \/ UNCHANGED Promise!vars
<1>1. UNCHANGED <<dlq, mailed>> /\ Held' = Held
  BY DEF Publish, worker, history, Held, Live, Busy
<1>2. CASE UNCHANGED <<queue, taken>>
  BY <1>1, <1>2, NobodyNotices
<1>3. CASE queue' = queue \union {Announcement(s)} /\ taken' = taken \union {s}
  <2>1. s \notin taken
    BY DEF Publish, SharingInv, Answers
  <2>2. Named(queue \union Held)' = Named(queue \union Held) \union Promise!Of(s)
    <3>1. /\ Announcement(s).share = s /\ Announcement(s).entries = DOMAIN To[s]
          /\ DOMAIN To[s] \subseteq Entries
      BY EntriesOf DEF Announcement
    <3> QED  BY <1>1, <1>3, <3>1 DEF Named, Promise!Of
  <2>3. Named(dlq)' = Named(dlq)
    BY <1>1 DEF Named
  <2> QED  BY <1>1, <1>3, <2>1, <2>2, <2>3 DEF Promise!Announce
<1> QED  BY <1>2, <1>3 DEF Publish

\* A rejected message parks its deliveries.
LEMMA RejectRefines ==
    ASSUME SharingInv, SharingInv', NEW h \in Busy, Reject(h), UNCHANGED <<mailed, taken>>
    PROVE  Promise!Settle
<1> DEFINE m == handlers[h].message
<1>1. /\ Held' \subseteq Held
      /\ Held \ {m} \subseteq Held'
      /\ h \notin Live => Held' = Held
  BY Ends DEF SharingInv, Reject
<1>2. h \in Live => m \in dlq'
  BY DEF Reject, Live
<1>3. queue' = queue /\ dlq \subseteq dlq'
  BY DEF Reject
<1> QED  BY <1>1, <1>2, <1>3, GoneIsSettled

\* A mail is one of a delivery owed.
LEMMA NotifyRefines ==
    ASSUME SharingInv, SharingInv', NEW h \in Slots, NEW i \in Entries, Notify(h, i),
           \/ /\ Held' = Held /\ UNCHANGED <<queue, dlq>>
              /\ \/ mailed' = mailed
                 \/ mailed' = [mailed EXCEPT ![<<handlers[h].message.share, i>>] = @ + 1]
           \/ Reject(h) /\ UNCHANGED mailed
    PROVE  [Promise!Next]_Promise!vars
<1> DEFINE m == handlers[h].message
           d == <<m.share, i>>
<1>1. h \in Busy /\ handlers[h] \in Handler /\ m \in Message
  BY DEF Notify, SharingInv, Kinds, Busy, Handler
<1>2. UNCHANGED taken
  BY DEF Notify, api
<1>3. CASE Reject(h) /\ UNCHANGED mailed
  BY <1>1, <1>2, <1>3, RejectRefines DEF Promise!Next
<1>4. ASSUME Held' = Held, UNCHANGED <<queue, dlq>>,
             mailed' = mailed \/ mailed' = [mailed EXCEPT ![d] = @ + 1]
      PROVE  [Promise!Next]_Promise!vars
  <2>1. CASE mailed' = mailed
    BY <1>2, <1>4, <2>1, NobodyNotices
  <2>2. CASE mailed' = [mailed EXCEPT ![d] = @ + 1]
    <3>1. d \in Promise!Deliveries
      <4>1. Genuine(m) /\ i \in m.entries
        BY <1>1 DEF Notify, SharingInv, Messages, Duties, Duty
      <4> QED  BY <4>1 DEF Genuine, Promise!Deliveries, Promise!Of
    <3>2. d \in Shares \X Entries /\ mailed \in [Shares \X Entries -> Nat]
      BY <1>1 DEF Message, SharingInv, Kinds
    <3>3. {e \in Shares \X Entries : mailed'[e] > 0}
            = {e \in Shares \X Entries : mailed[e] > 0} \union {d}
      <4> HIDE DEF d
      <4> QED  BY <2>2, <3>2
    <3>4. Named(queue \union Held)' = Named(queue \union Held) /\ Named(dlq)' = Named(dlq)
      BY <1>4 DEF Named
    <3>5. Promise!Mail(d)
      BY <1>2, <3>3, <3>4 DEF Promise!Mail
    <3>6. \E e \in Promise!Deliveries : Promise!Mail(e)
      <4> HIDE DEF d
      <4> QED  BY <3>1, <3>5 DEF Promise!Mail
    <3> QED  BY <3>6 DEF Promise!Next
  <2> QED  BY <1>4, <2>1, <2>2
<1> QED  BY <1>3, <1>4

\* A handler that goes on, or rejects its message.
LEMMA NoMailRefines ==
    ASSUME SharingInv, SharingInv', NEW h \in Slots, ReadTask(h) \/ PublishToDlq(h),
           Held' = Held \/ Reject(h)
    PROVE  Promise!Settle
<1>1. h \in Busy /\ UNCHANGED <<mailed, taken>> /\ queue' = queue /\ dlq \subseteq dlq'
  BY DEF ReadTask, PublishToDlq, Reject, api, history
<1>2. CASE Held' = Held
  BY <1>1, <1>2, GoneIsSettled
<1>3. CASE Reject(h)
  BY <1>1, <1>3, RejectRefines
<1> QED  BY <1>2, <1>3

\* Whoever was not mailed is named in the report this handler wrote.
LEMMA AcknowledgeRefines ==
    ASSUME SharingInv, SharingInv', NEW h \in Slots, Acknowledge(h)
    PROVE  Promise!Settle
<1> DEFINE x == handlers[h]
           m == x.message
           r == Report(m, x.failed)
<1>1. h \in Busy /\ Duty(x) /\ x.pc # "received" /\ x.rest = {}
  BY DEF Acknowledge, Finished, SharingInv, Duties, Duty
<1>2. /\ Held' \subseteq Held /\ Held \ {m} \subseteq Held'
      /\ UNCHANGED <<mailed, taken, queue, dlq>>
  BY <1>1, Ends DEF Acknowledge, SharingInv, api, broker, history
<1>3. r.share = m.share /\ r.entries = x.failed /\ r # m
  BY <1>1 DEF Duty, Report
<1>4. ASSUME NEW i \in m.entries
      PROVE  \/ mailed[<<m.share, i>>] > 0
             \/ \E n \in queue' \union Held' \union dlq' : n.share = m.share /\ i \in n.entries
  <2>1. CASE x.failed = {}
    BY <1>1, <2>1 DEF Duty
  <2>2. CASE x.failed # {}
    <3>1. r \in queue \union Held \union dlq
      BY <1>1, <2>2 DEF Acknowledge, Finished, Duty
    <3>2. r \in queue' \union Held' \union dlq'
      BY <1>2, <1>3, <3>1
    <3>3. i \in r.entries \/ mailed[<<m.share, i>>] > 0
      BY <1>1, <1>3 DEF Duty
    <3> HIDE DEF r
    <3> QED  BY <1>3, <3>2, <3>3
  <2> QED  BY <2>1, <2>2
<1> HIDE DEF m
<1> QED  BY <1>2, <1>4, GoneIsSettled

\* What an operator moves back is owed again.
LEMMA ReplayRefines ==
    ASSUME SharingInv, SharingInv', NEW m \in dlq, Replay(m), Held' = Held
    PROVE  Promise!Reopen
<1>1. /\ UNCHANGED <<mailed, taken>>
      /\ dlq' = dlq \ {m} /\ queue' = queue \union {m}
  BY DEF Replay, api
<1>2. Named(dlq)' \subseteq Named(dlq)
  BY <1>1 DEF Named
<1>3. Named(queue \union Held)' = Named(queue \union Held) \union Named({m})
  BY <1>1 DEF Named
<1>4. Named({m}) \subseteq Named(dlq) /\ Named(dlq) \ Named(dlq)' \subseteq Named({m})
  BY <1>1 DEF Named
<1> QED  BY <1>1, <1>2, <1>3, <1>4 DEF Promise!Reopen

\* Every step is a step of Notifications.
LEMMA NextRefines ==
    SharingInv /\ SharingInv' /\ [Next]_vars => [Promise!Next]_Promise!vars
<1> SUFFICES ASSUME SharingInv, SharingInv', [Next]_vars
             PROVE  [Promise!Next]_Promise!vars
  OBVIOUS
<1>1. ASSUME UNCHANGED <<queue, dlq, handlers, mailed, taken>>
      PROVE  UNCHANGED Promise!vars
  <2>1. Held' = Held
    BY <1>1 DEF Held, Live, Busy
  <2> QED  BY <1>1, <2>1, NobodyNotices
<1>2. ASSUME NEW s \in Shares, CheckTask(s) PROVE UNCHANGED Promise!vars
  BY <1>1, <1>2 DEF CheckTask, broker, worker, history
<1>3. ASSUME NEW s \in Shares, Publish(s) PROVE [Promise!Next]_Promise!vars
  <2>1. Promise!Announce(s) \/ UNCHANGED Promise!vars
    BY <1>3, PublishRefines
  <2> QED  BY <2>1 DEF Promise!Next
<1>4. CASE \E t \in Tasks : DeleteTask(t)
  BY <1>1, <1>4 DEF DeleteTask, api, broker, worker, history
<1>5. CASE \E u \in Droppable : DropUser(u)
  BY <1>1, <1>5 DEF DropUser, api, broker, worker, history
<1>6. CASE StartWorker
  BY <1>1, <1>6 DEF StartWorker, broker, history
<1>7. ASSUME NEW h \in Slots, NEW m \in queue, Deliver(h, m)
      PROVE  UNCHANGED Promise!vars
  <2>1. Held' = Held \union {m}
    BY <1>7, DeliverKeeps
  <2>2. queue' = queue \ {m} /\ UNCHANGED <<dlq, mailed, taken>>
    BY <1>7 DEF Deliver, api, history
  <2> QED  BY <2>1, <2>2, NobodyNotices
<1>8. ASSUME NEW h \in Slots, ReadTask(h) \/ PublishToDlq(h)
      PROVE  Promise!Settle
  BY <1>8, NoMailRefines, ReadTaskKeeps, PublishToDlqKeeps
<1>9. ASSUME NEW h \in Slots, NEW i \in Entries, Notify(h, i)
      PROVE  [Promise!Next]_Promise!vars
  BY <1>9, NotifyKeeps, NotifyRefines
<1>10. ASSUME NEW h \in Slots, Acknowledge(h) PROVE Promise!Settle
  BY <1>10, AcknowledgeRefines
<1>11. CASE StopWorker \/ Disconnect
  <2>1. Held' = {}
    BY <1>11, StopWorkerKeeps, DisconnectKeeps
  <2>2. queue' = queue \union Held /\ UNCHANGED <<dlq, mailed, taken>>
    BY <1>11 DEF StopWorker, Disconnect, TakeBack, api
  <2> QED  BY <2>1, <2>2, NobodyNotices
<1>12. ASSUME NEW m \in dlq, Replay(m) PROVE Promise!Reopen
  BY <1>12, ReplayKeeps, ReplayRefines
<1>13. CASE UNCHANGED vars
  BY <1>1, <1>13 DEF vars
<1> HIDE DEF Promise!vars
<1>14. ASSUME WorkerStep PROVE [Promise!Next]_Promise!vars
  BY <1>6, <1>7, <1>8, <1>9, <1>10, <1>14 DEF WorkerStep, Promise!Next
<1> QED
  BY <1>2, <1>3, <1>4, <1>5, <1>11, <1>12, <1>13, <1>14 DEF Next, Promise!Next

\* Nothing is announced, owed, sent or parked at first.
LEMMA InitRefines == Init => Promise!Init
<1> SUFFICES ASSUME Init PROVE Promise!Init
  OBVIOUS
<1>1. Held = {}
  BY DEF Init, Held, Live, Busy
<1> QED  BY <1>1 DEF Init, Promise!Init, Named

\* Sharing does what it promises: a delivery stops being owed only once it was
\* mailed or is parked where an operator sees it.
THEOREM SharingRefinesPromise == Spec => NotifiesOrReports
<1> QED
  BY InitRefines, NextRefines, SharingInvHolds, PTL DEF Spec, NotifiesOrReports, Promise!Spec

-----------------------------------------------------------------------------
(* What the promise is worth to a recipient.                               *)

\* No step of Notifications forgets a delivery.
LEMMA PromiseForgetsNone ==
    Promise!NoneForgotten /\ [Promise!Next]_Promise!vars => Promise!NoneForgotten'
<1> SUFFICES ASSUME Promise!NoneForgotten, [Promise!Next]_Promise!vars
             PROVE  Promise!NoneForgotten'
  OBVIOUS
<1> DEFINE owed == Named(queue \union Held)
           sent == {d \in Shares \X Entries : mailed[d] > 0}
           parked == Named(dlq)
<1>1. Promise!Deliveries \subseteq owed \union sent \union parked
  BY DEF Promise!NoneForgotten
<1> SUFFICES (Promise!Deliveries)' \subseteq owed' \union sent' \union parked'
  BY DEF Promise!NoneForgotten
<1>2. taken' = taken => (Promise!Deliveries)' = Promise!Deliveries
  BY DEF Promise!Deliveries, Promise!Of
<1>3. ASSUME NEW s \in Shares, Promise!Announce(s)
      PROVE  (Promise!Deliveries)' \subseteq owed' \union sent' \union parked'
  <2>1. (Promise!Deliveries)' = Promise!Deliveries \union Promise!Of(s)
    BY <1>3 DEF Promise!Announce, Promise!Deliveries, Promise!Of
  <2> QED  BY <1>1, <1>3, <2>1 DEF Promise!Announce
<1>4. ASSUME NEW d \in Promise!Deliveries, Promise!Mail(d)
      PROVE  (Promise!Deliveries)' \subseteq owed' \union sent' \union parked'
  BY <1>1, <1>2, <1>4 DEF Promise!Mail
<1>5. CASE Promise!Settle
  BY <1>1, <1>2, <1>5 DEF Promise!Settle
<1>6. CASE Promise!Reopen
  BY <1>1, <1>2, <1>6 DEF Promise!Reopen
<1>7. CASE UNCHANGED Promise!vars
  BY <1>1, <1>2, <1>7 DEF Promise!vars
<1> QED  BY <1>3, <1>4, <1>5, <1>6, <1>7 DEF Promise!Next

\* No recipient of a share the broker took, or that was answered 204 once the
\* queue existed, is ever forgotten.
THEOREM NobodyForgotten == Spec => []NoRecipientForgotten
<1>1. Promise!Init => Promise!NoneForgotten
  BY DEF Promise!Init, Promise!NoneForgotten, Promise!Deliveries
<1>2. SharingInv /\ Promise!NoneForgotten => NoRecipientForgotten
  <2> SUFFICES ASSUME SharingInv, Promise!NoneForgotten,
                      NEW s \in taken \union {q \in Shares \ dropped : answer[q] = "accepted"},
                      NEW i \in DOMAIN To[s]
               PROVE  \/ mailed[<<s, i>>] > 0
                      \/ \E m \in queue \union Held \union dlq : m.share = s /\ i \in m.entries
    BY DEF NoRecipientForgotten
  <2>1. s \in taken
    BY DEF SharingInv, Answers
  <2>2. <<s, i>> \in Promise!Deliveries
    BY <2>1 DEF Promise!Deliveries, Promise!Of
  <2>3. \/ <<s, i>> \in Named(queue \union Held) \union Named(dlq)
        \/ mailed[<<s, i>>] > 0
    BY <2>2 DEF Promise!NoneForgotten
  <2> QED  BY <2>3 DEF Named
<1> QED
  BY <1>1, <1>2, InitRefines, NextRefines, PromiseForgetsNone, SharingInvHolds, PTL DEF Spec

-----------------------------------------------------------------------------
(* No mail is repeated without a break: every handler that may still mail  *)
(* an entry took the announcement from the queue, and it got there once    *)
(* when it was published and once whenever it was taken or moved back.     *)

\* Handlers that have still to mail the announcement of s for entry i.
Pending(s, i) ==
    {h \in Busy : /\ handlers[h].message = Announcement(s)
                  /\ \/ handlers[h].pc = "received"
                     \/ handlers[h].pc = "sending" /\ i \in handlers[h].rest}

\* One more handler may yet be given it.
Waiting(s) == s \notin taken \/ Announcement(s) \in queue

Chances(s, i) == Cardinality(Pending(s, i)) + (IF Waiting(s) THEN 1 ELSE 0)

Counters ==
    /\ breaks \in 0..Breaks
    /\ replays \in 0..Replays
    /\ returns \in [Shares -> Nat]
    /\ \A s \in Shares : returns[s] <= breaks + replays

MailsAreBudgeted ==
    \A s \in Shares, i \in Entries :
        /\ IsFiniteSet(Pending(s, i))
        /\ mailed[<<s, i>>] + Chances(s, i) <= 1 + returns[s]

\* The sum, whatever each of its terms became.
LEMMA Balance ==
    ASSUME NEW s \in Shares, NEW i \in Entries, Kinds', Counters',
           IsFiniteSet(Pending(s, i)'),
           NEW w \in 0..1, Waiting(s)' => w = 1,
           mailed'[<<s, i>>] + Cardinality(Pending(s, i)') + w <= 1 + returns'[s]
    PROVE  (mailed[<<s, i>>] + Chances(s, i) <= 1 + returns[s])'
<1> DEFINE n == Cardinality(Pending(s, i)')
           v == IF Waiting(s)' THEN 1 ELSE 0
           k == mailed'[<<s, i>>]
           r == returns'[s]
<1>1. n \in Nat
  <2> HIDE DEF Pending
  <2> QED  BY FS_CardinalityType
<1>2. k \in Nat /\ r \in Nat
  BY DEF Kinds, Counters
<1>3. v \in 0..1 /\ v <= w
  OBVIOUS
<1>4. Chances(s, i)' = n + v
  BY DEF Chances
<1> SUFFICES k + (n + v) <= 1 + r
  BY <1>4
<1> HIDE DEF n, v, k, r
<1> QED  BY <1>1, <1>2, <1>3 DEF n, k, r

\* The sum as it was.
LEMMA Budget ==
    ASSUME Kinds, Counters, MailsAreBudgeted, NEW s \in Shares, NEW i \in Entries
    PROVE  \E n, k, r \in Nat, w \in 0..1 :
                /\ IsFiniteSet(Pending(s, i)) /\ n = Cardinality(Pending(s, i))
                /\ k = mailed[<<s, i>>] /\ r = returns[s]
                /\ w = 1 <=> Waiting(s)
                /\ k + n + w <= 1 + r
<1> DEFINE n == Cardinality(Pending(s, i))
           w == IF Waiting(s) THEN 1 ELSE 0
           k == mailed[<<s, i>>]
           r == returns[s]
<1>1. IsFiniteSet(Pending(s, i)) /\ k + Chances(s, i) <= 1 + r
  BY DEF MailsAreBudgeted
<1>2. n \in Nat
  BY <1>1, FS_CardinalityType
<1>3. k \in Nat /\ r \in Nat
  BY DEF Kinds, Counters
<1>4. w \in 0..1 /\ (w = 1 <=> Waiting(s)) /\ Chances(s, i) = n + w
  BY DEF Chances
<1>5. k + n + w <= 1 + r
  <2> HIDE DEF n, w, k, r
  <2> QED  BY <1>1, <1>2, <1>3, <1>4
<1> QED  BY <1>1, <1>2, <1>3, <1>4, <1>5

\* No handler takes up s and no mail of it leaves; it may go back to the queue.
LEMMA NoMoreChances ==
    ASSUME NEW s \in Shares, NEW i \in Entries, Kinds, Counters, MailsAreBudgeted,
           Kinds', Counters',
           Pending(s, i)' \subseteq Pending(s, i),
           mailed'[<<s, i>>] = mailed[<<s, i>>],
           \/ returns'[s] = returns[s] /\ (Waiting(s)' => Waiting(s))
           \/ returns'[s] = returns[s] + 1
    PROVE  /\ IsFiniteSet(Pending(s, i)')
           /\ (mailed[<<s, i>>] + Chances(s, i) <= 1 + returns[s])'
<1> PICK n, k, r \in Nat, w \in 0..1 :
                /\ IsFiniteSet(Pending(s, i)) /\ n = Cardinality(Pending(s, i))
                /\ k = mailed[<<s, i>>] /\ r = returns[s]
                /\ w = 1 <=> Waiting(s)
                /\ k + n + w <= 1 + r
  BY Budget
<1>1. IsFiniteSet(Pending(s, i)') /\ Cardinality(Pending(s, i)') <= n
  <2> DEFINE P == Pending(s, i)
             Q == Pending(s, i)'
  <2> HIDE DEF P, Q
  <2> SUFFICES IsFiniteSet(Q) /\ Cardinality(Q) <= n
    BY DEF Q
  <2>1. IsFiniteSet(P) /\ n = Cardinality(P) /\ Q \subseteq P
    BY DEF P, Q
  <2> QED  BY <2>1, FS_Subset
<1>2. Cardinality(Pending(s, i)') \in Nat
  BY <1>1, FS_CardinalityType
<1> DEFINE c == Cardinality(Pending(s, i)')
<1>3. CASE returns'[s] = returns[s] /\ (Waiting(s)' => Waiting(s))
  <2>1. k + c + w <= 1 + r
    <3> HIDE DEF c
    <3> QED  BY <1>1, <1>2 DEF c
  <2> QED  BY <1>1, <1>3, <2>1, Balance
<1>4. CASE returns'[s] = returns[s] + 1
  <2>1. k + c + 1 <= 1 + (r + 1)
    <3> HIDE DEF c
    <3> QED  BY <1>1, <1>2 DEF c
  <2> QED  BY <1>1, <1>4, <2>1, Balance
<1> QED  BY <1>3, <1>4

\* No handler has more to mail than it had.
NothingTakenUp ==
    \A h \in Busy' :
        /\ h \in Busy /\ handlers'[h].message = handlers[h].message
        /\ handlers'[h].pc = "received" => handlers[h].pc = "received"
        /\ handlers'[h].pc = "sending" =>
                \/ handlers[h].pc = "received"
                \/ handlers[h].pc = "sending" /\ handlers'[h].rest \subseteq handlers[h].rest

\* Then nobody is pending who was not.
LEMMA PendingShrinks ==
    ASSUME NothingTakenUp, NEW s \in Shares, NEW i \in Entries
    PROVE  Pending(s, i)' \subseteq Pending(s, i)
BY DEF NothingTakenUp, Pending, Announcement

\* Steps in which nothing is mailed.
LEMMA NoMailKeeps ==
    ASSUME Kinds, Counters, MailsAreBudgeted, Kinds', Counters',
           NothingTakenUp, mailed' = mailed,
           \A s \in Shares :
                \/ returns'[s] = returns[s] /\ (Waiting(s)' => Waiting(s))
                \/ returns'[s] = returns[s] + 1
    PROVE  MailsAreBudgeted'
<1> SUFFICES ASSUME NEW s \in Shares, NEW i \in Entries
             PROVE  /\ IsFiniteSet(Pending(s, i)')
                    /\ (mailed[<<s, i>>] + Chances(s, i) <= 1 + returns[s])'
  BY DEF MailsAreBudgeted
<1> QED  BY PendingShrinks, NoMoreChances

\* Steps that count no failure.
LEMMA CountersStay ==
    ASSUME Counters, UNCHANGED <<breaks, replays, returns>>
    PROVE  Counters'
BY DEF Counters

BudgetInv == SharingInv /\ Counters /\ MailsAreBudgeted

\* Steps in which messages and handlers stay as they are.
LEMMA QuietBudget ==
    ASSUME BudgetInv, SharingInv',
           UNCHANGED <<queue, handlers, mailed, taken, breaks, replays, returns>>
    PROVE  BudgetInv'
<1>1. Counters'
  BY CountersStay DEF BudgetInv
<1>2. NothingTakenUp
  BY DEF NothingTakenUp, Busy
<1>3. \A s \in Shares : returns'[s] = returns[s] /\ (Waiting(s)' => Waiting(s))
  BY DEF Waiting, Announcement
<1> QED  BY <1>1, <1>2, <1>3, NoMailKeeps DEF BudgetInv, SharingInv

\* The announcement of a share that is not taken may be published once.
LEMMA PublishBudget ==
    ASSUME BudgetInv, SharingInv', NEW s \in Shares, Publish(s)
    PROVE  BudgetInv'
<1>1. s \notin taken
  BY DEF Publish, BudgetInv, SharingInv, Answers
<1>2. UNCHANGED <<handlers, mailed, breaks, replays, returns>>
  BY DEF Publish, worker, history
<1>3. Counters'
  BY <1>2, CountersStay DEF BudgetInv
<1>4. NothingTakenUp
  BY <1>2 DEF NothingTakenUp, Busy
<1>5. ASSUME NEW q \in Shares PROVE Waiting(q)' => Waiting(q)
  <2>1. CASE UNCHANGED <<queue, taken>>
    BY <2>1 DEF Waiting, Announcement
  <2>2. CASE queue' = queue \union {Announcement(s)} /\ taken' = taken \union {s}
    BY <1>1, <2>2 DEF Waiting, Announcement
  <2> QED  BY <2>1, <2>2 DEF Publish
<1> QED  BY <1>2, <1>3, <1>4, <1>5, NoMailKeeps DEF BudgetInv, SharingInv

\* A handler that takes an announcement has it from the queue.
LEMMA DeliverBudget ==
    ASSUME BudgetInv, SharingInv', NEW h \in Slots, NEW m \in queue, Deliver(h, m)
    PROVE  BudgetInv'
<1> DEFINE x == [message |-> m, live |-> TRUE, pc |-> "received", rest |-> {}, failed |-> {}]
<1>1. UNCHANGED <<taken, mailed, breaks, replays, returns>> /\ queue' = queue \ {m}
  BY DEF Deliver, api, history
<1>2. h \notin Busy /\ handlers'[h] = x /\ \A g \in Slots \ {h} : handlers'[g] = handlers[g]
  BY DEF Deliver, BudgetInv, SharingInv, Kinds
<1>3. x \in Handler
  BY DEF BudgetInv, SharingInv, Kinds, Handler
<1>4. Busy' = Busy \union {h}
  BY <1>2, <1>3, IdleAssumption DEF Busy
<1>5. Counters'
  BY <1>1, CountersStay DEF BudgetInv
<1>6. \A g \in Busy : handlers'[g] = handlers[g]
  BY <1>2 DEF Busy
<1> SUFFICES ASSUME NEW s \in Shares, NEW i \in Entries
             PROVE  /\ IsFiniteSet(Pending(s, i)')
                    /\ (mailed[<<s, i>>] + Chances(s, i) <= 1 + returns[s])'
  BY <1>5 DEF BudgetInv, MailsAreBudgeted
<1>7. CASE m = Announcement(s)
  <2>1. s \in taken
    BY <1>7 DEF BudgetInv, SharingInv, Messages, Genuine, Announcement
  <2>2. Waiting(s) /\ ~Waiting(s)'
    BY <1>1, <1>7, <2>1 DEF Waiting, Announcement
  <2>3. Pending(s, i)' = Pending(s, i) \union {h} /\ h \notin Pending(s, i)
    <3>1. handlers'[h].message = m /\ handlers'[h].pc = "received"
      BY <1>2
    <3> QED  BY <1>2, <1>4, <1>6, <1>7, <3>1 DEF Pending, Announcement
  <2> PICK n, k, r \in Nat, w \in 0..1 :
                /\ IsFiniteSet(Pending(s, i)) /\ n = Cardinality(Pending(s, i))
                /\ k = mailed[<<s, i>>] /\ r = returns[s]
                /\ w = 1 <=> Waiting(s)
                /\ k + n + w <= 1 + r
    BY Budget DEF BudgetInv, SharingInv
  <2>4. IsFiniteSet(Pending(s, i)') /\ Cardinality(Pending(s, i)') = n + 1
    BY <2>3, FS_AddElement
  <2>5. mailed'[<<s, i>>] + Cardinality(Pending(s, i)') + 0 <= 1 + returns'[s]
    BY <1>1, <2>2, <2>4
  <2> QED  BY <1>5, <2>2, <2>4, <2>5, Balance DEF SharingInv
<1>8. CASE m # Announcement(s)
  <2>1. Waiting(s)' => Waiting(s)
    BY <1>1 DEF Waiting, Announcement
  <2>2. Pending(s, i)' \subseteq Pending(s, i)
    <3>1. handlers'[h].message = m
      BY <1>2
    <3> QED  BY <1>2, <1>4, <1>6, <1>8, <3>1 DEF Pending, Announcement
  <2> QED  BY <1>1, <1>5, <2>1, <2>2, NoMoreChances DEF BudgetInv, SharingInv
<1> QED  BY <1>7, <1>8

\* A handler that is over has nothing more to mail.
LEMMA EndBudget ==
    ASSUME BudgetInv, SharingInv', NEW h \in Busy, handlers' = [handlers EXCEPT ![h] = Idle],
           UNCHANGED <<queue, taken, mailed, breaks, replays, returns>>
    PROVE  BudgetInv'
<1>1. Busy' \subseteq Busy /\ \A g \in Busy' : handlers'[g] = handlers[g]
  BY Ends DEF BudgetInv, SharingInv
<1>2. NothingTakenUp
  BY <1>1 DEF NothingTakenUp
<1>3. \A s \in Shares : returns'[s] = returns[s] /\ (Waiting(s)' => Waiting(s))
  BY DEF Waiting, Announcement
<1>4. Counters'
  BY CountersStay DEF BudgetInv
<1> QED  BY <1>2, <1>3, <1>4, NoMailKeeps DEF BudgetInv, SharingInv

\* A handler that goes on to the next stage takes nothing up.
LEMMA StageBudget ==
    ASSUME BudgetInv, SharingInv', NEW h \in Busy, NEW x \in Handler,
           handlers' = [handlers EXCEPT ![h] = x], x.message = handlers[h].message,
           \/ x.pc = "sending" /\ handlers[h].pc = "received"
           \/ x.pc = "sending" /\ handlers[h].pc = "sending" /\ x.rest \subseteq handlers[h].rest
           \/ x.pc = "reported",
           UNCHANGED <<queue, taken, mailed, breaks, replays, returns>>
    PROVE  BudgetInv'
<1>1. h \in Slots /\ handlers'[h] = x /\ \A g \in Slots \ {h} : handlers'[g] = handlers[g]
  BY DEF Busy, BudgetInv, SharingInv, Kinds
<1>2. NothingTakenUp
  BY <1>1 DEF NothingTakenUp, Busy
<1>3. \A s \in Shares : returns'[s] = returns[s] /\ (Waiting(s)' => Waiting(s))
  BY DEF Waiting, Announcement
<1>4. Counters'
  BY CountersStay DEF BudgetInv
<1> QED  BY <1>2, <1>3, <1>4, NoMailKeeps DEF BudgetInv, SharingInv

\* A handler that reads its task has everyone of its message still to mail.
LEMMA ReadTaskBudget ==
    ASSUME BudgetInv, SharingInv', NEW h \in Slots, ReadTask(h)
    PROVE  BudgetInv'
<1> DEFINE m == handlers[h].message
           x == [handlers[h] EXCEPT !.pc = "sending", !.rest = m.entries]
<1>1. h \in Busy /\ handlers[h] \in Handler /\ handlers[h].pc = "received"
  BY DEF ReadTask, BudgetInv, SharingInv, Kinds, Busy
<1>2. UNCHANGED <<queue, taken, mailed, breaks, replays, returns>>
  BY DEF ReadTask, Reject, api, history
<1>3. CASE Reject(h)
  BY <1>1, <1>2, <1>3, EndBudget DEF Reject
<1>4. CASE handlers' = [handlers EXCEPT ![h].pc = "sending", ![h].rest = m.entries]
  <2>1. x \in Handler /\ x.message = m /\ x.pc = "sending"
    BY <1>1 DEF Handler, Message
  <2>2. handlers' = [handlers EXCEPT ![h] = x]
    BY <1>1, <1>4 DEF Handler, BudgetInv, SharingInv, Kinds
  <2> HIDE DEF x
  <2> QED  BY <1>1, <1>2, <2>1, <2>2, StageBudget
<1> QED  BY <1>3, <1>4 DEF ReadTask

\* A handler that writes its report has nobody left to mail.
LEMMA PublishToDlqBudget ==
    ASSUME BudgetInv, SharingInv', NEW h \in Slots, PublishToDlq(h)
    PROVE  BudgetInv'
<1> DEFINE x == [handlers[h] EXCEPT !.pc = "reported"]
<1>1. h \in Busy /\ handlers[h] \in Handler
  BY DEF PublishToDlq, BudgetInv, SharingInv, Kinds, Busy
<1>2. UNCHANGED <<queue, taken, mailed, breaks, replays, returns>>
  BY DEF PublishToDlq, Reject, api, history
<1>3. CASE Reject(h)
  BY <1>1, <1>2, <1>3, EndBudget DEF Reject
<1>4. CASE handlers' = [handlers EXCEPT ![h].pc = "reported"]
  <2>1. x \in Handler /\ x.message = handlers[h].message /\ x.pc = "reported"
    BY <1>1 DEF Handler
  <2>2. handlers' = [handlers EXCEPT ![h] = x]
    BY <1>1, <1>4 DEF Handler, BudgetInv, SharingInv, Kinds
  <2> HIDE DEF x
  <2> QED  BY <1>1, <1>2, <2>1, <2>2, StageBudget
<1> QED  BY <1>3, <1>4 DEF PublishToDlq

\* A mail for i leaves the handler without i to mail: it has spent its chance.
LEMMA NotifyBudget ==
    ASSUME BudgetInv, SharingInv', NEW h \in Slots, NEW i \in Entries, Notify(h, i)
    PROVE  BudgetInv'
<1> DEFINE m == handlers[h].message
           d == <<m.share, i>>
<1>1. /\ h \in Busy /\ handlers[h] \in Handler /\ m \in Message
      /\ handlers[h].pc = "sending" /\ i \in handlers[h].rest
  BY DEF Notify, BudgetInv, SharingInv, Kinds, Busy, Handler
<1>2. UNCHANGED <<queue, taken, breaks, replays, returns>>
  BY DEF Notify, Reject, api
<1>3. CASE Reject(h) /\ UNCHANGED mailed
  BY <1>1, <1>2, <1>3, EndBudget DEF Reject
<1>4. ASSUME NEW took \in BOOLEAN, NEW told \in BOOLEAN,
             mailed' = IF took THEN [mailed EXCEPT ![d] = @ + 1] ELSE mailed,
             handlers' = [handlers EXCEPT
                        ![h].rest = @ \ {i},
                        ![h].failed = IF told THEN @ ELSE @ \union {i}]
      PROVE  BudgetInv'
  <2>1. /\ handlers'[h].message = m /\ handlers'[h].pc = "sending"
        /\ handlers'[h].rest = handlers[h].rest \ {i} /\ handlers'[h] # Idle
        /\ \A g \in Slots \ {h} : handlers'[g] = handlers[g]
    <3> DEFINE f == IF told THEN handlers[h].failed ELSE handlers[h].failed \union {i}
               x == [handlers[h] EXCEPT !.rest = @ \ {i}, !.failed = f]
    <3>1. f \subseteq Entries
      BY <1>1 DEF Handler
    <3>2. /\ x \in Handler /\ x.message = m
          /\ x.pc = handlers[h].pc /\ x.rest = handlers[h].rest \ {i}
      BY <1>1, <3>1 DEF Handler
    <3>3. handlers' = [handlers EXCEPT ![h] = x]
      BY <1>1, <1>4 DEF Handler, BudgetInv, SharingInv, Kinds
    <3>4. handlers'[h] = x /\ \A g \in Slots \ {h} : handlers'[g] = handlers[g]
      BY <3>3 DEF BudgetInv, SharingInv, Kinds
    <3> HIDE DEF x
    <3> QED  BY <1>1, <3>2, <3>4, IdleAssumption
  <2>2. Busy' = Busy
    BY <1>1, <2>1 DEF Busy
  <2>3. Counters'
    BY <1>2, CountersStay DEF BudgetInv
  <2>4. m = Announcement(m.share)
    BY <1>1 DEF BudgetInv, SharingInv, Messages, Genuine, Duties, Duty
  <2>5. NothingTakenUp
    BY <1>1, <2>1, <2>2 DEF NothingTakenUp, Busy
  <2>6. \A s \in Shares : Waiting(s)' <=> Waiting(s)
    BY <1>2 DEF Waiting, Announcement
  <2> SUFFICES ASSUME NEW s \in Shares, NEW v \in Entries
               PROVE  /\ IsFiniteSet(Pending(s, v)')
                      /\ (mailed[<<s, v>>] + Chances(s, v) <= 1 + returns[s])'
    BY <2>3 DEF BudgetInv, MailsAreBudgeted
  <2>7. mailed \in [Shares \X Entries -> Nat] /\ d \in Shares \X Entries
    BY <1>1 DEF BudgetInv, SharingInv, Kinds, Message
  <2>8. CASE s = m.share /\ v = i
    <3>1. Pending(s, i)' = Pending(s, i) \ {h} /\ h \in Pending(s, i)
      BY <1>1, <2>1, <2>2, <2>4, <2>8 DEF Pending, Announcement, Busy
    <3>2. mailed'[<<s, i>>] <= mailed[<<s, i>>] + 1 /\ mailed'[<<s, i>>] \in Nat
      <4>1. d = <<s, i>>
        BY <2>8
      <4> HIDE DEF d
      <4>2. CASE took
        BY <1>4, <2>7, <4>1, <4>2
      <4>3. CASE ~took
        BY <1>4, <2>7, <4>1, <4>3
      <4> QED  BY <4>2, <4>3
    <3> PICK n, k, r \in Nat, w \in 0..1 :
                /\ IsFiniteSet(Pending(s, i)) /\ n = Cardinality(Pending(s, i))
                /\ k = mailed[<<s, i>>] /\ r = returns[s]
                /\ w = 1 <=> Waiting(s)
                /\ k + n + w <= 1 + r
      BY Budget DEF BudgetInv, SharingInv
    <3>3. IsFiniteSet(Pending(s, i)') /\ Cardinality(Pending(s, i)') = n - 1
      BY <3>1, FS_RemoveElement
    <3>4. mailed'[<<s, i>>] + Cardinality(Pending(s, i)') + w <= 1 + returns'[s]
      BY <1>2, <3>2, <3>3
    <3> QED  BY <2>3, <2>6, <2>8, <3>3, <3>4, Balance DEF SharingInv
  <2>9. CASE ~(s = m.share /\ v = i)
    <3>1. <<s, v>> # d /\ <<s, v>> \in Shares \X Entries
      BY <2>9
    <3>2. mailed'[<<s, v>>] = mailed[<<s, v>>]
      <4> HIDE DEF d
      <4>1. CASE took
        BY <1>4, <2>7, <3>1, <4>1
      <4>2. CASE ~took
        BY <1>4, <4>2
      <4> QED  BY <4>1, <4>2
    <3> QED
      BY <1>2, <2>3, <2>5, <2>6, <3>2, PendingShrinks, NoMoreChances DEF BudgetInv, SharingInv
  <2> QED  BY <2>8, <2>9
<1> QED  BY <1>3, <1>4 DEF Notify

\* What is taken back is counted, and no handler gets more to do by it.
LEMMA TakeBackBudget ==
    ASSUME BudgetInv, SharingInv', TakeBack, UNCHANGED <<taken, mailed, replays>>,
           NothingTakenUp
    PROVE  BudgetInv'
<1>1. Counters'
  <2>1. /\ breaks < Breaks /\ breaks' = breaks + 1
        /\ returns' = [s \in Shares |->
                    IF \E m \in Held : m.share = s THEN returns[s] + 1 ELSE returns[s]]
    BY DEF TakeBack
  <2>2. breaks' \in 0..Breaks
    BY <2>1, ShareAssumption DEF BudgetInv, Counters
  <2>3. \A s \in Shares : returns'[s] \in Nat /\ returns'[s] <= returns[s] + 1
    BY <2>1 DEF BudgetInv, Counters
  <2>4. returns' \in [Shares -> Nat]
    BY <2>1, <2>3
  <2>5. \A s \in Shares : returns'[s] <= breaks' + replays'
    BY <2>1, <2>3, ShareAssumption DEF BudgetInv, Counters
  <2> QED  BY <2>2, <2>4, <2>5 DEF BudgetInv, Counters
<1>2. ASSUME NEW s \in Shares
      PROVE  \/ returns'[s] = returns[s] /\ (Waiting(s)' => Waiting(s))
             \/ returns'[s] = returns[s] + 1
  <2>1. CASE \E m \in Held : m.share = s
    BY <2>1 DEF TakeBack
  <2>2. CASE ~ \E m \in Held : m.share = s
    <3>1. Announcement(s) \notin Held
      BY <2>2 DEF Announcement
    <3> QED  BY <2>2, <3>1 DEF TakeBack, Waiting, Announcement
  <2> QED  BY <2>1, <2>2
<1> QED  BY <1>1, <1>2, NoMailKeeps DEF BudgetInv, SharingInv

\* A message moved back is counted.
LEMMA ReplayBudget ==
    ASSUME BudgetInv, SharingInv', NEW m \in dlq, Replay(m)
    PROVE  BudgetInv'
<1>1. /\ replays < Replays /\ replays' = replays + 1
      /\ queue' = queue \union {m}
      /\ returns' = [returns EXCEPT ![m.share] = @ + 1]
      /\ UNCHANGED <<taken, mailed, handlers, breaks>>
  BY DEF Replay, api, worker
<1>2. m.share \in Shares
  BY DEF BudgetInv, SharingInv, Kinds, Message
<1>3. /\ returns \in [Shares -> Nat]
      /\ \A s \in Shares : returns[s] <= breaks + replays
      /\ breaks \in 0..Breaks /\ replays \in 0..Replays
  BY DEF BudgetInv, Counters
<1>4. \A s \in Shares :
        /\ s = m.share => returns'[s] = returns[s] + 1
        /\ s # m.share => returns'[s] = returns[s]
  BY <1>1, <1>2, <1>3
<1>5. Counters'
  <2>1. replays' \in 0..Replays
    BY <1>1, <1>3, ShareAssumption
  <2>2. returns' \in [Shares -> Nat]
    BY <1>1, <1>2, <1>3
  <2>3. \A s \in Shares : returns'[s] <= returns[s] + 1
    BY <1>3, <1>4
  <2>4. \A s \in Shares : returns'[s] <= breaks' + replays'
    BY <1>1, <1>3, <2>2, <2>3, ShareAssumption
  <2> QED  BY <1>1, <1>3, <2>1, <2>2, <2>4 DEF Counters
<1>6. NothingTakenUp
  BY <1>1 DEF NothingTakenUp, Busy
<1>7. ASSUME NEW s \in Shares, s # m.share PROVE Waiting(s)' => Waiting(s)
  <2>1. Announcement(s) # m
    BY <1>7 DEF Announcement
  <2> QED  BY <1>1, <2>1 DEF Waiting, Announcement
<1> QED  BY <1>1, <1>4, <1>5, <1>6, <1>7, NoMailKeeps DEF BudgetInv, SharingInv

\* No mail has left, and every share has its one chance.
LEMMA InitBudget == Init => BudgetInv
<1> SUFFICES ASSUME Init PROVE BudgetInv
  OBVIOUS
<1>1. Counters
  BY ShareAssumption DEF Init, Counters
<1>2. ASSUME NEW s \in Shares, NEW i \in Entries
      PROVE  /\ IsFiniteSet(Pending(s, i))
             /\ mailed[<<s, i>>] + Chances(s, i) <= 1 + returns[s]
  <2>1. Pending(s, i) = {}
    BY DEF Init, Pending, Busy
  <2>2. IsFiniteSet(Pending(s, i)) /\ Cardinality(Pending(s, i)) = 0
    BY <2>1, FS_EmptySet
  <2>3. mailed[<<s, i>>] = 0 /\ returns[s] = 0 /\ Waiting(s)
    BY DEF Init, Waiting
  <2> QED  BY <2>2, <2>3 DEF Chances
<1> QED  BY <1>1, <1>2, InitSharing DEF BudgetInv, MailsAreBudgeted

\* Every step keeps mails within the budget.
LEMMA NextBudget == BudgetInv /\ SharingInv' /\ [Next]_vars => BudgetInv'
<1> SUFFICES ASSUME BudgetInv, SharingInv', [Next]_vars PROVE BudgetInv'
  OBVIOUS
<1>1. ASSUME NEW s \in Shares, CheckTask(s) PROVE BudgetInv'
  BY <1>1, QuietBudget DEF CheckTask, api, broker, worker, history
<1>2. ASSUME NEW s \in Shares, Publish(s) PROVE BudgetInv'
  BY <1>2, PublishBudget
<1>3. CASE \E t \in Tasks : DeleteTask(t)
  BY <1>3, QuietBudget DEF DeleteTask, api, broker, worker, history
<1>4. CASE \E u \in Droppable : DropUser(u)
  BY <1>4, QuietBudget DEF DropUser, api, broker, worker, history
<1>5. CASE StartWorker
  BY <1>5, QuietBudget DEF StartWorker, broker, history
<1>6. ASSUME NEW h \in Slots,
             \/ \E m \in queue : Deliver(h, m)
             \/ ReadTask(h)
             \/ \E i \in Entries : Notify(h, i)
             \/ PublishToDlq(h)
             \/ Acknowledge(h)
      PROVE  BudgetInv'
  <2>1. CASE Acknowledge(h)
    <3>1. h \in Busy
      BY <2>1 DEF Acknowledge, Finished
    <3> QED  BY <2>1, <3>1, EndBudget DEF Acknowledge, api, broker, history
  <2> QED  BY <1>6, <2>1, DeliverBudget, ReadTaskBudget, NotifyBudget, PublishToDlqBudget
<1>7. CASE StopWorker
  <2>1. NothingTakenUp
    BY <1>7 DEF StopWorker, NothingTakenUp, Busy
  <2> QED  BY <1>7, <2>1, TakeBackBudget DEF StopWorker, api
<1>8. CASE Disconnect
  <2>1. ASSUME NEW h \in Busy'
        PROVE  /\ h \in Busy /\ handlers'[h].message = handlers[h].message
               /\ handlers'[h].pc = handlers[h].pc /\ handlers'[h].rest = handlers[h].rest
    <3>1. h \in Busy /\ handlers[h] \in Handler
      BY <1>8 DEF Disconnect, Busy, Live, BudgetInv, SharingInv, Kinds
    <3>2. CASE h \in Live
      BY <1>8, <3>1, <3>2 DEF Disconnect, Busy, Handler
    <3>3. CASE h \notin Live
      BY <1>8, <3>1, <3>3 DEF Disconnect, Busy
    <3> QED  BY <3>1, <3>2, <3>3
  <2>2. NothingTakenUp
    BY <2>1 DEF NothingTakenUp
  <2> QED  BY <1>8, <2>2, TakeBackBudget DEF Disconnect, api
<1>9. ASSUME NEW m \in dlq, Replay(m) PROVE BudgetInv'
  BY <1>9, ReplayBudget
<1>10. CASE UNCHANGED vars
  BY <1>10, QuietBudget DEF vars
<1> QED
  BY <1>1, <1>2, <1>3, <1>4, <1>5, <1>6, <1>7, <1>8, <1>9, <1>10 DEF Next, WorkerStep

\* Mails of a share for an entry, and what may still send another, stay within one
\* more than the times the share was taken or moved back.
LEMMA BudgetInvariant == Spec => []BudgetInv
<1> QED  BY InitBudget, NextBudget, SharingInvHolds, PTL DEF Spec

\* The budget bounds the mails.
LEMMA WithinBudget ==
    ASSUME BudgetInv, NEW s \in Shares, NEW i \in Entries
    PROVE  mailed[<<s, i>>] <= 1 + returns[s]
<1> PICK n, k, r \in Nat, w \in 0..1 :
            /\ IsFiniteSet(Pending(s, i)) /\ n = Cardinality(Pending(s, i))
            /\ k = mailed[<<s, i>>] /\ r = returns[s]
            /\ w = 1 <=> Waiting(s)
            /\ k + n + w <= 1 + r
  BY Budget DEF BudgetInv, SharingInv
<1> QED  OBVIOUS

\* An entry of a list is mailed again only when the message was taken or moved back: a
\* failed mail, report or acknowledgement repeats no mail of another, though the list
\* name one user many times.
THEOREM NoIdleRepeat == Spec => []RepeatsNeedABreak
<1>1. BudgetInv => RepeatsNeedABreak
  BY WithinBudget, EntriesOf DEF RepeatsNeedABreak
<1> QED  BY <1>1, BudgetInvariant, PTL

\* What nothing above depends on.
Others ==
    /\ users \subseteq Users /\ tasks \subseteq Tasks
    /\ declared \in BOOLEAN /\ up \in BOOLEAN
    /\ dropped \subseteq Shares

\* Every step keeps it.
LEMMA NextOthers == Others /\ [Next]_vars => Others'
<1> SUFFICES ASSUME Others, [Next]_vars PROVE Others'
  OBVIOUS
<1> USE DEF Others, tables, api, worker
<1>1. ASSUME NEW s \in Shares, CheckTask(s) \/ Publish(s) PROVE Others'
  BY <1>1 DEF CheckTask, Publish
<1>2. ASSUME NEW t \in Tasks, DeleteTask(t) PROVE Others'
  BY <1>2 DEF DeleteTask
<1>3. ASSUME NEW u \in Droppable, DropUser(u) PROVE Others'
  BY <1>3 DEF DropUser
<1>4. CASE WorkerStep
  BY <1>4 DEF WorkerStep, StartWorker, Deliver, ReadTask, Notify, PublishToDlq, Acknowledge
<1>5. CASE StopWorker \/ Disconnect \/ \E m \in dlq : Replay(m)
  BY <1>5 DEF StopWorker, Disconnect, Replay
<1>6. CASE UNCHANGED vars
  BY <1>6 DEF vars
<1> QED  BY <1>1, <1>2, <1>3, <1>4, <1>5, <1>6 DEF Next

\* Every variable keeps its type; mails and returns keep within the failures and
\* replays there were.
THEOREM ShareTypes == Spec => []TypeOK
<1>1. Init => Others
  BY ShareAssumption DEF Init, Others
<1>2. ASSUME Others, BudgetInv PROVE TypeOK
  <2>1. Kinds /\ Counters
    BY <1>2 DEF BudgetInv, SharingInv
  <2>2. returns \in [Shares -> 0..Breaks + Replays]
    <3>1. \A s \in Shares : returns[s] \in 0..Breaks + Replays
      BY <2>1, ShareAssumption DEF Counters
    <3> QED  BY <2>1, <3>1 DEF Counters
  <2>3. mailed \in [Shares \X Entries -> 0..Breaks + Replays + 1]
    <3>1. ASSUME NEW d \in Shares \X Entries PROVE mailed[d] \in 0..Breaks + Replays + 1
      <4>1. PICK s \in Shares, i \in Entries : d = <<s, i>>
        OBVIOUS
      <4>2. mailed[d] \in Nat /\ mailed[d] <= 1 + returns[s]
        BY <1>2, <2>1, <4>1, WithinBudget DEF Kinds
      <4>3. returns[s] \in 0..Breaks + Replays
        BY <2>2
      <4> QED  BY <4>2, <4>3, ShareAssumption
    <3> QED  BY <2>1, <3>1 DEF Kinds
  <2> QED  BY <1>2, <2>1, <2>2, <2>3 DEF TypeOK, Others, Kinds, Counters
<1>3. Others /\ BudgetInv => TypeOK
  BY <1>2
<1> QED  BY <1>1, <1>3, NextOthers, BudgetInvariant, PTL DEF Spec
=============================================================================
