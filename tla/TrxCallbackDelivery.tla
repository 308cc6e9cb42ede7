------------------------ MODULE TrxCallbackDelivery ------------------------
(***************************************************************************)
(* The delivery of one event of a transaction to the client's callback     *)
(* URL: SendCallback makes the first attempt and inserts the row of        *)
(* callback_logs; workers select the rows that are due                     *)
(* (GetPendingCallbacks) and try again (RetryPendingCallbacks).            *)
(*                                                                         *)
(* The delays before a retry are represented by their place in the list    *)
(* intervals (30s, 1m, 5m, 30m, 2h), 1 for the first.                      *)
(***************************************************************************)
EXTENDS Naturals

CONSTANTS
    Worker,       \* instances of the retry worker
    None,
    MaxAttempt,   \* the limit in the query of GetPendingCallbacks
    NInterval,    \* the length of intervals
    Budget        \* how many faults of each kind the environment may cause

\* "overlap": a worker selects the row while another one delivers it.
FaultKind == {"crash", "db", "overlap"}

ASSUME ConstAssumption ==
    /\ MaxAttempt \in Nat \ {0} /\ NInterval \in Nat
    /\ Budget \in [FaultKind -> Nat]

VARIABLES
    log,       \* the row of callback_logs; attempt 0 before the INSERT
    first,     \* where SendCallback is
    job,       \* job[w]: what the worker w is doing, and its copy of the row
    due,       \* has next_retry_at passed?
    sent,      \* callback_sent of the transaction
    got,       \* how often the client was reached and answered 200
    posts,     \* how many attempts were made
    usable,    \* can the client be read, and a request to its URL be made?
    used

vars == <<log, first, job, due, sent, got, posts, usable, used>>

Delay == 1..NInterval \cup {None}
Log == [attempt : Nat, delivered : BOOLEAN, next : Delay]
NoLog == [attempt |-> 0, delivered |-> FALSE, next |-> None]
Idle == [pc |-> "idle", mem |-> NoLog]

TypeOK ==
    /\ log \in Log
    /\ first \in {"post", "flag", "end"}
    /\ job \in [Worker -> [pc : {"idle", "post", "flag", "store"}, mem : Log]]
    /\ due \in BOOLEAN /\ sent \in BOOLEAN
    /\ got \in Nat /\ posts \in Nat
    /\ usable \in BOOLEAN
    /\ used \in [FaultKind -> Nat]

Init ==
    /\ log = NoLog
    /\ first = "post"
    /\ job = [w \in Worker |-> Idle]
    /\ due = FALSE
    /\ sent = FALSE
    /\ got = 0
    /\ posts = 0
    /\ usable \in BOOLEAN
    /\ used = [k \in FaultKind |-> 0]

Spend(k) == used[k] < Budget[k] /\ used' = [used EXCEPT ![k] = @ + 1]

\* getNextRetryTime: intervals is indexed from 0 with the number of the attempt.
NextRetry(attempt) == IF attempt + 1 > NInterval THEN None ELSE attempt + 1

\* Mutants: the number of the attempt is forgotten; any answer counts as delivered.
AfterUncounted(mem, attempt, ok) ==
    [mem EXCEPT !.attempt = 1, !.delivered = ok, !.next = IF ok THEN None ELSE NextRetry(1)]
AfterAnyAnswer(mem, attempt, ok) ==
    [mem EXCEPT !.attempt = attempt, !.delivered = TRUE, !.next = None]

\* The row after an attempt.
After(mem, attempt, ok) ==
    [mem EXCEPT !.attempt = attempt, !.delivered = ok,
                !.next = IF ok THEN None ELSE NextRetry(attempt)]

\* One HTTP request; the client may have handled it although no 200 came back.
Post(ok) ==
    /\ posts' = posts + 1
    /\ \/ got' = got + 1
       \/ ~ok /\ UNCHANGED got

-----------------------------------------------------------------------------
\* The client's record, or the database that holds it, comes and goes: an empty
\* or malformed callback_url is corrected, a read fails.
ClientChanges ==
    /\ usable' = ~usable
    /\ UNCHANGED <<log, first, job, due, sent, got, posts, used>>

\* SendCallback returns before it asks anyone or inserts a row.
DropFirst ==
    /\ first = "post" /\ ~usable
    /\ first' = "end"
    /\ UNCHANGED <<log, job, due, sent, got, posts, usable, used>>

\* SendCallback: the request.
SendFirst ==
    /\ first = "post" /\ usable
    /\ \E ok \in BOOLEAN :
         /\ Post(ok)
         /\ \/ log' = After(NoLog, 1, ok) /\ UNCHANGED used
            \/ Spend("db") /\ UNCHANGED log   \* the INSERT fails and is logged
         /\ first' = IF ok THEN "flag" ELSE "end"
    /\ UNCHANGED <<job, due, sent, usable>>

\* SendCallback: callback_sent, written with the whole transaction.
FlagFirst ==
    /\ first = "flag"
    /\ first' = "end"
    /\ \/ sent' = TRUE /\ UNCHANGED used
       \/ Spend("db") /\ UNCHANGED sent
    /\ UNCHANGED <<log, job, due, got, posts, usable>>

\* next_retry_at passes.
Elapse ==
    /\ ~due /\ log.next # None
    /\ due' = TRUE
    /\ UNCHANGED <<log, first, job, sent, got, posts, usable, used>>

\* Mutants: a row without next_retry_at is due; the limit is off by one.
SelectedNull == log.attempt > 0 /\ (log.next = None \/ due) /\ log.attempt < MaxAttempt
SelectedShort == ~log.delivered /\ log.next # None /\ due /\ log.attempt + 1 < MaxAttempt

\* GetPendingCallbacks: SKIP LOCKED holds no lock once the statement is over.
Selected == ~log.delivered /\ log.next # None /\ due /\ log.attempt < MaxAttempt

Poll(w) ==
    /\ job[w].pc = "idle"
    /\ Selected
    /\ \/ (\A v \in Worker : job[v].pc = "idle") /\ UNCHANGED used
       \/ (\E v \in Worker : job[v].pc # "idle") /\ Spend("overlap")
    /\ job' = [job EXCEPT ![w] = [pc |-> "post", mem |-> log]]
    /\ UNCHANGED <<log, first, due, sent, got, posts, usable>>

\* RetryPendingCallbacks passes over a row whose client it cannot use: neither
\* attempt nor next_retry_at moves, so that the row stays due.
Skip(w) ==
    /\ job[w].pc = "post" /\ ~usable
    /\ job' = [job EXCEPT ![w] = Idle]
    /\ UNCHANGED <<log, first, due, sent, got, posts, usable, used>>

\* RetryPendingCallbacks: the request.
Retry(w) ==
    LET mem == job[w].mem IN
    /\ job[w].pc = "post" /\ usable
    /\ \E ok \in BOOLEAN :
         /\ Post(ok)
         /\ job' = [job EXCEPT ![w] = [pc |-> IF ok THEN "flag" ELSE "store",
                                       mem |-> After(mem, mem.attempt + 1, ok)]]
    /\ UNCHANGED <<log, first, due, sent, usable, used>>

\* MarkCallbackSent; its error is dropped.
Flag(w) ==
    /\ job[w].pc = "flag"
    /\ job' = [job EXCEPT ![w].pc = "store"]
    /\ \/ sent' = TRUE /\ UNCHANGED used
       \/ Spend("db") /\ UNCHANGED sent
    /\ UNCHANGED <<log, first, due, got, posts, usable>>

\* UpdateCallbackLog: every column, whatever the row says by now.
Store(w) ==
    /\ job[w].pc = "store"
    /\ job' = [job EXCEPT ![w] = Idle]
    /\ \/ log' = job[w].mem /\ due' = FALSE /\ UNCHANGED used
       \/ Spend("db") /\ UNCHANGED <<log, due>>
    /\ UNCHANGED <<first, sent, got, posts, usable>>

\* The process dies between two steps.
Crash(w) ==
    /\ job[w].pc # "idle"
    /\ Spend("crash")
    /\ job' = [job EXCEPT ![w] = Idle]
    /\ UNCHANGED <<log, first, due, sent, got, posts, usable>>
CrashFirst ==
    /\ first \in {"post", "flag"}
    /\ Spend("crash")
    /\ first' = "end"
    /\ UNCHANGED <<log, job, due, sent, got, posts, usable>>

Step(w) == Poll(w) \/ Skip(w) \/ Retry(w) \/ Flag(w) \/ Store(w)

Next ==
    \/ ClientChanges \/ Elapse
    \/ DropFirst \/ SendFirst \/ FlagFirst \/ CrashFirst
    \/ \E w \in Worker : Step(w) \/ Crash(w)

Spec == Init /\ [][Next]_vars

\* SendCallback and the workers run, and time passes.
FairSpec ==
    Spec /\ WF_vars(DropFirst \/ SendFirst) /\ WF_vars(FlagFirst) /\ WF_vars(Elapse)
         /\ \A w \in Worker : WF_vars(Step(w))

-----------------------------------------------------------------------------
\* callback_sent, and is_delivered, are set only if the client answered.
SentIsHeard == (sent \/ log.delivered) => got > 0

\* The client is called at most MaxAttempt times, and once more for each time
\* the result of a call is lost in a crash or a failing write, as long as no two
\* workers have delivered the event at once.
PostsBounded ==
    used["overlap"] = 0 => posts <= MaxAttempt + used["crash"] + used["db"]

\* A delivered event is not delivered again: a worker's write takes the mark
\* away only if another worker set it meanwhile.
DeliveredStays == [][log.delivered /\ used["overlap"] = 0 => log'.delivered]_log

\* Every event with a row is delivered or has used all its attempts in the end,
\* even when stale workers set its count back and its client could not be used
\* for any time -- if it can be used from some time on.  Otherwise the row is
\* selected in every round for ever.
EventuallySettled ==
    <>[]usable => ((log.attempt > 0) ~> (log.delivered \/ log.attempt = MaxAttempt))
=============================================================================
