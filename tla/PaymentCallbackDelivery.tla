---------------------- MODULE PaymentCallbackDelivery ----------------------
(***************************************************************************)
(* The delivery of one event of a payment to the merchant's callback URL:  *)
(* EnqueueEvent inserts the row of payment_callback_logs and makes the     *)
(* first attempt; workers (RetryPendingCallbacks) and operators            *)
(* (RetryCallback of AdminPaymentService) try again.  All of them go       *)
(* through AttemptDelivery on a copy of the row and write it back whole.   *)
(***************************************************************************)
EXTENDS Naturals

CONSTANTS
    Poller,        \* instances of the retry worker
    None,
    MaxAttempts,   \* paymentCallbackMaxAttempts
    NInterval,     \* the length of intervals in paymentNextRetry
    Prompt,        \* do workers look only after the first attempt is over?
    Budget         \* how often operators retry, processes die, writes fail

FaultKind == {"admin", "crash", "db"}

ASSUME ConstAssumption ==
    /\ MaxAttempts \in Nat \ {0} /\ NInterval \in Nat
    /\ Prompt \in BOOLEAN
    /\ Budget \in [FaultKind -> Nat]
    /\ {"first", "admin"} \cap Poller = {}

Process == Poller \cup {"first", "admin"}

VARIABLES
    log,       \* the row of payment_callback_logs; status "none" before the INSERT
    job,       \* job[w]: what the process w is doing, and its copy of the row
    due,       \* has next_retry_at passed?
    sent,      \* callback_sent of the payment
    heard,     \* has the merchant handled the event?
    posts,     \* how many requests were made
    valid,     \* can a request to the payment's callback_url be made?
    readable,  \* do the reads of the payment and of its client succeed?
    used

vars == <<log, job, due, sent, heard, posts, valid, readable, used>>
env == <<valid, readable>>

Log == [there : BOOLEAN, attempt : Nat, delivered : BOOLEAN, next : 1..NInterval \cup {None}]
NoLog == [there |-> FALSE, attempt |-> 0, delivered |-> FALSE, next |-> None]
Idle == [pc |-> "idle", mem |-> NoLog]

TypeOK ==
    /\ log \in Log
    /\ job \in [Process -> [pc : {"begin", "idle", "touch", "post", "store", "flag"}, mem : Log]]
    /\ due \in BOOLEAN /\ sent \in BOOLEAN
    /\ heard \in BOOLEAN /\ posts \in Nat
    /\ valid \in BOOLEAN /\ readable \in BOOLEAN
    /\ used \in [FaultKind -> Nat]

Init ==
    /\ log = NoLog
    /\ job = [w \in Process |-> IF w = "first" THEN [Idle EXCEPT !.pc = "begin"] ELSE Idle]
    /\ due = FALSE
    /\ sent = FALSE
    /\ heard = FALSE
    /\ posts = 0
    /\ valid \in BOOLEAN
    /\ readable \in BOOLEAN
    /\ used = [k \in FaultKind |-> 0]

Spend(k) == used[k] < Budget[k] /\ used' = [used EXCEPT ![k] = @ + 1]
Become(w, pc, mem) == job' = [job EXCEPT ![w] = [pc |-> pc, mem |-> mem]]

\* The records of the payment and of its client, or the database that holds
\* them, cannot be read for a time.  The payment keeps the callback_url it was
\* created with.
RecordsChange ==
    /\ readable' = ~readable
    /\ UNCHANGED <<log, job, due, sent, heard, posts, valid, used>>

\* EnqueueEvent up to the INSERT; when the client cannot be read, or the INSERT
\* fails, there is no delivery.
EnqueueEvent ==
    /\ job["first"].pc = "begin"
    /\ \/ /\ readable
          /\ log' = [NoLog EXCEPT !.there = TRUE]
          /\ Become("first", "post", log')
          /\ UNCHANGED used
       \/ /\ \/ Spend("db")
             \/ ~readable /\ UNCHANGED used
          /\ job' = [job EXCEPT !["first"] = Idle]
          /\ UNCHANGED log
    /\ UNCHANGED <<due, sent, heard, posts, env>>

\* next_retry_at passes.
Elapse ==
    /\ ~due /\ log.next # None
    /\ due' = TRUE
    /\ UNCHANGED <<log, job, sent, heard, posts, env, used>>

\* Mutants: a row without next_retry_at is not due; exhausted rows are due.
SelectedTimed == log.there /\ ~log.delivered /\ log.attempt < MaxAttempts /\ log.next # None /\ due
SelectedExhausted == log.there /\ ~log.delivered /\ (log.next = None \/ due)

\* Mutant: rows are selected whether delivered or not.
SelectedDelivered == log.there /\ log.attempt < MaxAttempts /\ (log.next = None \/ due)

\* GetPendingPaymentCallbackLogs
Selected ==
    /\ log.there /\ ~log.delivered
    /\ log.attempt < MaxAttempts
    /\ log.next = None \/ due

\* RetryPendingCallbacks
Poll(w) ==
    /\ job[w].pc = "idle"
    /\ Prompt => job["first"].pc = "idle"
    /\ Selected
    /\ Become(w, "post", log)
    /\ UNCHANGED <<log, due, sent, heard, posts, env, used>>

\* RetryPendingCallbacks passes over a row whose payment or client it cannot
\* read: nothing is written.
Skip(w) ==
    /\ job[w].pc = "post" /\ ~readable
    /\ job' = [job EXCEPT ![w] = Idle]
    /\ UNCHANGED <<log, due, sent, heard, posts, env, used>>

\* RetryCallback of AdminPaymentService reads the row ...
RetryCallback ==
    /\ job["admin"].pc = "idle" /\ readable
    /\ log.there /\ ~log.delivered
    /\ Spend("admin")
    /\ Become("admin", "touch", log)
    /\ UNCHANGED <<log, due, sent, heard, posts, env>>

\* ... and writes its copy back with next_retry_at set to now; an error is dropped.
Touch ==
    /\ job["admin"].pc = "touch"
    /\ Become("admin", "post", job["admin"].mem)
    /\ \/ log' = job["admin"].mem /\ due' = TRUE /\ UNCHANGED used
       \/ Spend("db") /\ UNCHANGED <<log, due>>
    /\ UNCHANGED <<sent, heard, posts, env>>

\* paymentNextRetry and the condition of markFailure.
NextRetry(attempt) == IF attempt > NInterval \/ attempt >= MaxAttempts THEN None ELSE attempt

AfterAnyAnswer(mem, ok) ==  \* mutant: any answer counts as delivered
    [mem EXCEPT !.attempt = @ + 1, !.delivered = TRUE, !.next = None]

\* The row after an attempt.
After(mem, ok) ==
    [mem EXCEPT !.attempt = @ + 1, !.delivered = ok,
                !.next = IF ok THEN None ELSE NextRetry(mem.attempt + 1)]

\* The row after markFailure of a request that cannot be made: only the first
\* attempt is counted, and the next one is planned.
Refused(mem) ==
    LET n == IF mem.attempt = 0 THEN 1 ELSE mem.attempt
    IN  [mem EXCEPT !.attempt = n, !.delivered = FALSE, !.next = NextRetry(n)]

\* The worker reads the payment and the client before each attempt.
Ready(w) == job[w].pc = "post" /\ (w \in Poller => readable)

\* AttemptDelivery, the request: the merchant may have handled it although no
\* 2xx came back.
Attempt(w) ==
    /\ Ready(w) /\ valid
    /\ \E ok \in BOOLEAN :
         /\ posts' = posts + 1
         /\ \/ heard' = TRUE
            \/ ~ok /\ UNCHANGED heard
         /\ Become(w, "store", After(job[w].mem, ok))
    /\ UNCHANGED <<log, due, sent, env, used>>

\* AttemptDelivery when no request can be made.
Refuse(w) ==
    /\ Ready(w) /\ ~valid
    /\ Become(w, "store", Refused(job[w].mem))
    /\ UNCHANGED <<log, due, sent, heard, posts, env, used>>

\* AttemptDelivery and markFailure: UpdatePaymentCallbackLog writes every
\* column, whatever the row says by now; its error is logged.
Store(w) ==
    LET mem == job[w].mem IN
    /\ job[w].pc = "store"
    /\ Become(w, IF mem.delivered THEN "flag" ELSE "idle", mem)
    /\ \/ log' = mem /\ due' = FALSE /\ UNCHANGED used
       \/ Spend("db") /\ UNCHANGED <<log, due>>
    /\ UNCHANGED <<sent, heard, posts, env>>

FlagSkipped(w) ==  \* mutant
    /\ job[w].pc = "flag"
    /\ job' = [job EXCEPT ![w] = Idle]
    /\ UNCHANGED <<log, due, sent, heard, posts, env, used>>

\* MarkPaymentCallbackSent; its error is logged.
Flag(w) ==
    /\ job[w].pc = "flag"
    /\ job' = [job EXCEPT ![w] = Idle]
    /\ \/ sent' = TRUE /\ UNCHANGED used
       \/ Spend("db") /\ UNCHANGED sent
    /\ UNCHANGED <<log, due, heard, posts, env>>

\* The process dies between two steps.
Crash(w) ==
    /\ job[w].pc # "idle"
    /\ Spend("crash")
    /\ job' = [job EXCEPT ![w] = Idle]
    /\ UNCHANGED <<log, due, sent, heard, posts, env>>

Step(w) == Attempt(w) \/ Refuse(w) \/ Store(w) \/ Flag(w)

Next ==
    \/ RecordsChange \/ EnqueueEvent \/ Elapse \/ RetryCallback \/ Touch
    \/ \E w \in Poller : Poll(w) \/ Skip(w)
    \/ \E w \in Process : Step(w) \/ Crash(w)

Spec == Init /\ [][Next]_vars

\* The worker keeps polling, time passes, every delivery goes on.
FairSpec ==
    /\ Spec
    /\ WF_vars(Elapse) /\ WF_vars(Touch)
    /\ \A w \in Poller : WF_vars(Poll(w) \/ Skip(w))
    /\ \A w \in Process : WF_vars(Step(w))

-----------------------------------------------------------------------------
Quiet == \A w \in Process : job[w].pc = "idle"

\* callback_sent, and is_delivered, are set only if the merchant answered.
SentIsHeard == (sent \/ log.delivered) => heard

\* The payment remembers that its merchant was told, whoever delivered.
DeliveredIsFlagged == Quiet /\ log.delivered /\ used["crash"] + used["db"] = 0 => sent

\* The merchant is called at most MaxAttempts times, and once more for each time
\* the result of a call is lost.  An operator's RetryCallback, whose Touch writes
\* back the count it has read, breaks this.
PostsBounded == used["admin"] = 0 => posts <= MaxAttempts + used["crash"] + used["db"]

\* A delivered event stays delivered: no write of the worker or of the first
\* attempt takes the mark away.  An operator's stale copy may.
DeliveredStays == [][log.delivered /\ used["admin"] = 0 => log'.delivered]_log

\* Every event whose row exists is delivered or uses all its attempts, even
\* when the process that enqueued it dies and the records could not be read for
\* any time -- if they can from some time on, and the payment's URL is one a
\* request can be made to.  Otherwise its attempts are not counted, and the row
\* is selected for ever.
EventuallySettled ==
    valid /\ <>[]readable => (log.there ~> (log.delivered \/ log.attempt >= MaxAttempts))

=============================================================================
