--------------------- MODULE TrxCallbackDelivery_proofs ---------------------
(***************************************************************************)
(* Theorems about TrxCallbackDelivery, for any number of workers, any      *)
(* limit and list of delays, and any budget of faults.                     *)
(***************************************************************************)
EXTENDS TrxCallbackDelivery, TLAPS

\* The row after an attempt is a row.
LEMMA AfterType ==
    ASSUME NEW mem \in Log, NEW attempt \in Nat, NEW ok \in BOOLEAN
    PROVE  /\ After(mem, attempt, ok) \in Log
           /\ After(mem, attempt, ok).attempt = attempt
           /\ After(mem, attempt, ok).delivered = ok
<1>1. NextRetry(attempt) \in Delay
  BY ConstAssumption DEF NextRetry, Delay
<1>2. None \in Delay
  BY DEF Delay
<1> DEFINE next == IF ok THEN None ELSE NextRetry(attempt)
<1>3. next \in Delay
  BY <1>1, <1>2
<1> HIDE DEF next
<1>4. [mem EXCEPT !.attempt = attempt, !.delivered = ok, !.next = next] \in Log
  BY <1>3 DEF Log
<1>5. /\ [mem EXCEPT !.attempt = attempt, !.delivered = ok, !.next = next].attempt = attempt
      /\ [mem EXCEPT !.attempt = attempt, !.delivered = ok, !.next = next].delivered = ok
  BY DEF Log
<1> QED
  BY <1>4, <1>5 DEF After, next

\* The row before the INSERT is one as well.
LEMMA NoLogType == NoLog \in Log /\ NoLog.attempt = 0 /\ NoLog.delivered = FALSE
<1>1. None \in Delay
  BY DEF Delay
<1> QED
  BY <1>1 DEF NoLog, Log

\* Types are preserved: every row and copy of callback_logs is well formed.
THEOREM TypeCorrect == Spec => []TypeOK
<1>1. Init => TypeOK
  <2> SUFFICES ASSUME Init PROVE TypeOK
    OBVIOUS
  <2>1. Idle \in [pc : {"idle", "post", "flag", "store"}, mem : Log]
    BY NoLogType DEF Idle
  <2>2. /\ job \in [Worker -> [pc : {"idle", "post", "flag", "store"}, mem : Log]]
        /\ used \in [FaultKind -> Nat]
    BY <2>1 DEF Init
  <2> QED
    BY <2>2, NoLogType DEF Init, TypeOK
<1>2. TypeOK /\ [Next]_vars => TypeOK'
  <2> SUFFICES ASSUME TypeOK, [Next]_vars PROVE TypeOK'
    OBVIOUS
  <2> USE DEF TypeOK
  <2>0. NoLog \in Log /\ \A k : Spend(k) => used' \in [FaultKind -> Nat]
    BY NoLogType DEF Spend
  <2>1. CASE SendFirst
    <3>1. log' \in Log
      BY <2>1, <2>0, AfterType DEF SendFirst
    <3> QED
      BY <2>1, <2>0, <3>1 DEF SendFirst, Post
  <2>2. CASE FlagFirst
    BY <2>2, <2>0 DEF FlagFirst
  <2>3. CASE CrashFirst
    BY <2>3, <2>0 DEF CrashFirst
  <2>4. CASE Elapse
    BY <2>4 DEF Elapse
  <2>5. ASSUME NEW w \in Worker, Poll(w) PROVE TypeOK'
    BY <2>5, <2>0 DEF Poll
  <2>6. ASSUME NEW w \in Worker, Retry(w) PROVE TypeOK'
    <3>1. PICK ok \in BOOLEAN :
            /\ Post(ok)
            /\ job' = [job EXCEPT ![w] = [pc |-> IF ok THEN "flag" ELSE "store",
                         mem |-> After(job[w].mem, job[w].mem.attempt + 1, ok)]]
      BY <2>6 DEF Retry
    <3>2. job[w].mem \in Log /\ job[w].mem.attempt + 1 \in Nat
      BY DEF Log
    <3>3. After(job[w].mem, job[w].mem.attempt + 1, ok) \in Log
      BY <3>2, AfterType
    <3> QED
      BY <2>6, <3>1, <3>3 DEF Retry, Post
  <2>7. ASSUME NEW w \in Worker, Flag(w) PROVE TypeOK'
    BY <2>7, <2>0 DEF Flag
  <2>8. ASSUME NEW w \in Worker, Store(w) PROVE TypeOK'
    BY <2>8, <2>0 DEF Store, Idle
  <2>9. ASSUME NEW w \in Worker, Crash(w) PROVE TypeOK'
    BY <2>9, <2>0 DEF Crash, Idle
  <2>10. CASE ClientChanges \/ DropFirst \/ UNCHANGED vars
    BY <2>10 DEF ClientChanges, DropFirst, vars
  <2>11. ASSUME NEW w \in Worker, Skip(w) PROVE TypeOK'
    BY <2>11, <2>0 DEF Skip, Idle
  <2> QED
    BY <2>1, <2>2, <2>3, <2>4, <2>5, <2>6, <2>7, <2>8, <2>9, <2>10, <2>11 DEF Next, Step
<1> QED
  BY <1>1, <1>2, PTL DEF Spec

-----------------------------------------------------------------------------
(***************************************************************************)
(* What is, or is about to be, written as delivered was answered.          *)
(***************************************************************************)
HeardInv ==
    /\ (sent \/ log.delivered \/ first = "flag") => got > 0
    /\ \A w \in Worker : (job[w].pc = "flag" \/ job[w].mem.delivered) => got > 0

\* Neither callback_sent nor is_delivered is set for a client that never
\* answered, however the workers and the first attempt overlap, whatever is
\* lost (SendCallback, RetryPendingCallbacks, MarkCallbackSent).
THEOREM SentOnlyIfHeard == Spec => []SentIsHeard
<1>1. Init => HeardInv
  BY DEF Init, HeardInv, NoLog, Idle
<1>2. TypeOK /\ HeardInv /\ [Next]_vars => HeardInv'
  <2> SUFFICES ASSUME TypeOK, HeardInv, [Next]_vars PROVE HeardInv'
    OBVIOUS
  <2> USE DEF TypeOK, HeardInv
  <2>0. \A ok \in BOOLEAN : Post(ok) => got' \in Nat /\ (got > 0 \/ ok => got' > 0)
    BY DEF Post
  <2>1. CASE SendFirst
    <3>1. PICK ok \in BOOLEAN :
            /\ Post(ok)
            /\ log' = After(NoLog, 1, ok) \/ log' = log
            /\ first' = IF ok THEN "flag" ELSE "end"
      BY <2>1 DEF SendFirst
    <3>2. log'.delivered => ok \/ log.delivered
      BY <3>1, AfterType, NoLogType
    <3> QED
      BY <2>0, <2>1, <3>1, <3>2 DEF SendFirst
  <2>2. CASE FlagFirst
    BY <2>2 DEF FlagFirst
  <2>3. CASE CrashFirst
    BY <2>3 DEF CrashFirst
  <2>4. CASE Elapse
    BY <2>4 DEF Elapse
  <2>5. ASSUME NEW w \in Worker, Poll(w) PROVE HeardInv'
    BY <2>5 DEF Poll
  <2>6. ASSUME NEW w \in Worker, Retry(w) PROVE HeardInv'
    <3>1. PICK ok \in BOOLEAN :
            /\ Post(ok)
            /\ job' = [job EXCEPT ![w] = [pc |-> IF ok THEN "flag" ELSE "store",
                         mem |-> After(job[w].mem, job[w].mem.attempt + 1, ok)]]
      BY <2>6 DEF Retry
    <3>2. After(job[w].mem, job[w].mem.attempt + 1, ok).delivered = ok
      BY AfterType DEF Log
    <3>3. job'[w].pc = (IF ok THEN "flag" ELSE "store") /\ job'[w].mem.delivered = ok
      BY <3>1, <3>2
    <3>4. \A v \in Worker \ {w} : job'[v] = job[v]
      BY <3>1
    <3> QED
      BY <2>0, <2>6, <3>1, <3>3, <3>4 DEF Retry
  <2>7. ASSUME NEW w \in Worker, Flag(w) PROVE HeardInv'
    BY <2>7 DEF Flag
  <2>8. ASSUME NEW w \in Worker, Store(w) PROVE HeardInv'
    BY <2>8 DEF Store, Idle, NoLog
  <2>9. ASSUME NEW w \in Worker, Crash(w) PROVE HeardInv'
    BY <2>9 DEF Crash, Idle, NoLog
  <2>10. CASE ClientChanges \/ DropFirst \/ UNCHANGED vars
    BY <2>10 DEF ClientChanges, DropFirst, vars
  <2>11. ASSUME NEW w \in Worker, Skip(w) PROVE HeardInv'
    BY <2>11 DEF Skip, Idle, NoLog
  <2> QED
    BY <2>1, <2>2, <2>3, <2>4, <2>5, <2>6, <2>7, <2>8, <2>9, <2>10, <2>11 DEF Next, Step
<1>3. HeardInv => SentIsHeard
  BY DEF HeardInv, SentIsHeard
<1> QED
  BY <1>1, <1>2, <1>3, TypeCorrect, PTL DEF Spec

-----------------------------------------------------------------------------
(***************************************************************************)
(* Without an overlap at most one process works on the row, on a copy that *)
(* is still the row; each attempt that is not counted in it, or in the     *)
(* copy about to be stored, was lost to a crash or a failing write.        *)
(***************************************************************************)
Busy(w) == job[w].pc # "idle"
Asked(w) == job[w].pc \in {"flag", "store"}
Lost == used["crash"] + used["db"]

Alone ==
    /\ \A v, w \in Worker : Busy(v) /\ Busy(w) => v = w
    /\ first = "post" => log = NoLog /\ posts = 0 /\ \A w \in Worker : ~Busy(w)
    /\ \A w \in Worker : Busy(w) => ~log.delivered /\ log.attempt < MaxAttempt
    /\ \A w \in Worker : job[w].pc = "post" => job[w].mem = log
    /\ \A w \in Worker : Asked(w) => job[w].mem.attempt = log.attempt + 1

Counted ==
    /\ log.attempt <= MaxAttempt
    /\ (\A w \in Worker : ~Asked(w)) => posts <= log.attempt + Lost
    /\ posts <= log.attempt + Lost + 1

CountInv == used["overlap"] = 0 => Alone /\ Counted

\* Results are lost once at a time, and no fault is undone.
LEMMA LostGrows ==
    ASSUME TypeOK, [Next]_vars
    PROVE  /\ Lost \in Nat /\ Lost' \in Nat /\ Lost <= Lost'
           /\ Spend("crash") \/ Spend("db") => Lost' = Lost + 1
           /\ used'["overlap"] = 0 => used["overlap"] = 0
<1>1. \A k \in FaultKind : used[k] \in Nat
  BY DEF TypeOK
<1>2. used' = used \/ \E k \in FaultKind : Spend(k)
  BY DEF Next, Step, ClientChanges, DropFirst, SendFirst, FlagFirst, CrashFirst, Elapse,
         Poll, Skip, Retry, Flag, Store, Crash, vars, FaultKind
<1>3. CASE used' = used
  BY <1>1, <1>3 DEF Lost, Spend, FaultKind, TypeOK
<1>4. CASE Spend("crash")
  BY <1>1, <1>4 DEF Lost, Spend, FaultKind, TypeOK
<1>5. CASE Spend("db")
  BY <1>1, <1>5 DEF Lost, Spend, FaultKind, TypeOK
<1>6. CASE Spend("overlap")
  BY <1>1, <1>6 DEF Lost, Spend, FaultKind, TypeOK
<1> QED
  BY <1>2, <1>3, <1>4, <1>5, <1>6 DEF FaultKind

\* The invariant is inductive.
LEMMA CountStep == TypeOK /\ CountInv /\ [Next]_vars => CountInv'
<1> SUFFICES ASSUME TypeOK, CountInv, [Next]_vars, used'["overlap"] = 0
             PROVE  Alone' /\ Counted'
  BY DEF CountInv
<1>0. /\ Lost \in Nat /\ Lost' \in Nat /\ Lost <= Lost'
      /\ Spend("crash") \/ Spend("db") => Lost' = Lost + 1
      /\ Alone /\ Counted
  BY LostGrows DEF CountInv
<1> USE DEF TypeOK
<1>a. log.attempt \in Nat /\ posts \in Nat /\ \A w \in Worker : job[w].mem \in Log
  BY DEF Log
<1>b. MaxAttempt \in Nat \ {0}
  BY ConstAssumption
<1>1. CASE SendFirst
  <2>0. log = NoLog /\ posts = 0 /\ \A w \in Worker : job[w].pc = "idle"
    BY <1>0, <1>1 DEF SendFirst, Alone, Busy
  <2>1. posts' = 1 /\ \A w \in Worker : job'[w].pc = "idle"
    BY <1>1, <2>0 DEF SendFirst, Post
  <2>2. log'.attempt = 1 \/ (log' = log /\ Lost' = Lost + 1)
    <3>1. PICK ok \in BOOLEAN : log' = After(NoLog, 1, ok) \/ (Spend("db") /\ log' = log)
      BY <1>1 DEF SendFirst
    <3>2. After(NoLog, 1, ok).attempt = 1
      BY AfterType, NoLogType
    <3> QED
      BY <1>0, <3>1, <3>2
  <2>3. first' # "post"
    BY <1>1 DEF SendFirst
  <2> QED
    <3>1. Alone'
      BY <2>1, <2>3 DEF Alone, Busy, Asked
    <3>2. log'.attempt <= MaxAttempt /\ 1 <= log'.attempt + Lost'
      BY <1>0, <1>b, <2>0, <2>2, NoLogType
    <3>3. log'.attempt \in Nat
      BY <2>0, <2>2, NoLogType
    <3> QED
      BY <1>0, <2>1, <3>1, <3>2, <3>3 DEF Counted
<1>2. CASE \/ ClientChanges \/ DropFirst
           \/ FlagFirst \/ CrashFirst \/ Elapse \/ UNCHANGED vars
  <2>1. UNCHANGED <<log, job, posts>> /\ (first' = "post" => first = "post")
    BY <1>2 DEF ClientChanges, DropFirst, FlagFirst, CrashFirst, Elapse, vars
  <2> QED
    BY <1>0, <1>a, <2>1 DEF Alone, Counted, Busy, Asked
<1>5. ASSUME NEW w \in Worker, Poll(w) PROVE Alone' /\ Counted'
  <2>1. \A v \in Worker : job[v].pc = "idle"
    BY <1>5 DEF Poll, Spend, FaultKind
  <2>2. /\ ~log.delivered /\ log.attempt < MaxAttempt /\ log # NoLog
        /\ UNCHANGED <<log, first, posts>>
        /\ job' = [job EXCEPT ![w] = [pc |-> "post", mem |-> log]]
    BY <1>5 DEF Poll, Selected, NoLog
  <2>3. job'[w] = [pc |-> "post", mem |-> log] /\ \A v \in Worker \ {w} : job'[v].pc = "idle"
    BY <2>1, <2>2
  <2> QED
    BY <1>0, <1>a, <2>1, <2>2, <2>3 DEF Alone, Counted, Busy, Asked
<1>6. ASSUME NEW w \in Worker, Retry(w) PROVE Alone' /\ Counted'
  <2>1. PICK ok \in BOOLEAN :
          /\ Post(ok)
          /\ job' = [job EXCEPT ![w] = [pc |-> IF ok THEN "flag" ELSE "store",
                       mem |-> After(job[w].mem, job[w].mem.attempt + 1, ok)]]
    BY <1>6 DEF Retry
  <2>2. /\ job[w].pc = "post" /\ job[w].mem = log
        /\ \A v \in Worker \ {w} : job[v].pc = "idle" /\ job'[v].pc = "idle"
    <3>1. job[w].pc = "post" /\ job[w].mem = log
      BY <1>0, <1>6 DEF Retry, Alone
    <3>2. \A v \in Worker \ {w} : job[v].pc = "idle"
      BY <1>0, <3>1 DEF Alone, Busy
    <3>3. \A v \in Worker \ {w} : job'[v] = job[v]
      BY <2>1
    <3> QED
      BY <3>1, <3>2, <3>3
  <2>3. After(job[w].mem, job[w].mem.attempt + 1, ok).attempt = log.attempt + 1
    <3>1. job[w].mem \in Log /\ job[w].mem.attempt = log.attempt /\ log.attempt + 1 \in Nat
      BY <1>a, <2>2
    <3>2. \A mem \in Log, n \in Nat : After(mem, n, ok).attempt = n
      BY AfterType
    <3> QED
      BY <3>1, <3>2
  <2>4. job'[w].pc \in {"flag", "store"} /\ job'[w].mem.attempt = log.attempt + 1
    BY <2>1, <2>3
  <2>5. UNCHANGED <<log, first>> /\ posts' = posts + 1
    BY <1>6, <2>1 DEF Retry, Post
  <2> QED
    BY <1>0, <1>a, <2>2, <2>4, <2>5 DEF Alone, Counted, Busy, Asked
<1>7. ASSUME NEW w \in Worker, Flag(w) PROVE Alone' /\ Counted'
  <2>1. /\ job[w].pc = "flag" /\ UNCHANGED <<log, first, posts>>
        /\ job' = [job EXCEPT ![w].pc = "store"]
    BY <1>7 DEF Flag
  <2>2. /\ job'[w].pc = "store" /\ job'[w].mem = job[w].mem
        /\ \A v \in Worker \ {w} : job'[v] = job[v]
    BY <2>1
  <2> QED
    BY <1>0, <1>a, <2>1, <2>2 DEF Alone, Counted, Busy, Asked
<1>8. ASSUME NEW w \in Worker, Store(w) \/ Crash(w) PROVE Alone' /\ Counted'
  <2>1. /\ UNCHANGED <<first, posts>>
        /\ job[w].pc # "idle" /\ job' = [job EXCEPT ![w] = Idle]
        /\ \/ log' = job[w].mem /\ Asked(w)
           \/ log' = log /\ Lost' = Lost + 1
    BY <1>0, <1>8 DEF Store, Crash, Asked
  <2>2. \A v \in Worker : job'[v].pc = "idle"
    BY <1>0, <2>1 DEF Alone, Busy, Idle
  <2>3. log.attempt < MaxAttempt /\ first # "post"
    BY <1>0, <2>1 DEF Alone, Busy
  <2>4. CASE log' = job[w].mem /\ Asked(w)
    <3>1. log'.attempt = log.attempt + 1
      BY <1>0, <2>4 DEF Alone
    <3> QED
      BY <1>0, <1>a, <1>b, <2>1, <2>2, <2>3, <3>1 DEF Alone, Counted, Busy, Asked
  <2>5. CASE log' = log /\ Lost' = Lost + 1
    BY <1>0, <1>a, <1>b, <2>1, <2>2, <2>3, <2>5 DEF Alone, Counted, Busy, Asked
  <2> QED
    BY <2>1, <2>4, <2>5
<1>9. ASSUME NEW w \in Worker, Skip(w) PROVE Alone' /\ Counted'
  <2>1. /\ job[w].pc = "post" /\ UNCHANGED <<log, first, posts>>
        /\ job' = [job EXCEPT ![w] = Idle]
    BY <1>9 DEF Skip
  <2>2. \A v \in Worker : job[v].pc # "flag" /\ job[v].pc # "store" /\ job'[v].pc = "idle"
    BY <1>0, <2>1 DEF Alone, Busy, Idle
  <2> QED
    BY <1>0, <1>a, <2>1, <2>2 DEF Alone, Counted, Busy, Asked
<1> QED
  BY <1>1, <1>2, <1>5, <1>6, <1>7, <1>8, <1>9 DEF Next, Step

\* It holds in every reachable state.
LEMMA CountCorrect == Spec => []CountInv
<1>1. Init => CountInv
  <2> SUFFICES ASSUME Init PROVE Alone /\ Counted
    BY DEF CountInv
  <2>1. log.attempt = 0 /\ Lost = 0 /\ posts = 0 /\ MaxAttempt \in Nat
    BY NoLogType, ConstAssumption DEF Init, Lost, FaultKind
  <2> QED
    BY <2>1 DEF Init, Alone, Counted, Busy, Asked, Idle
<1> QED
  BY <1>1, CountStep, TypeCorrect, PTL DEF Spec

\* As long as no two workers deliver an event at once, the client is called at
\* most MaxAttempt times, and once more for each lost result: the count in the
\* row (UpdateCallbackLog) and the limit in GetPendingCallbacks agree.
THEOREM CallsAreBounded == Spec => []PostsBounded
<1>1. TypeOK /\ CountInv => PostsBounded
  <2> SUFFICES ASSUME TypeOK, CountInv, used["overlap"] = 0
               PROVE  posts <= MaxAttempt + used["crash"] + used["db"]
    BY DEF PostsBounded
  <2> SUFFICES posts <= MaxAttempt + Lost
    <3>1. used["crash"] \in Nat /\ used["db"] \in Nat
      BY DEF TypeOK, FaultKind
    <3> QED
      BY <3>1, ConstAssumption DEF Lost
  <2>0. Alone /\ Counted
    BY DEF CountInv
  <2>1. /\ log.attempt \in Nat /\ posts \in Nat /\ MaxAttempt \in Nat /\ Lost \in Nat
    BY ConstAssumption DEF TypeOK, Log, Lost, FaultKind
  <2>2. CASE \A w \in Worker : ~Asked(w)
    BY <2>0, <2>1, <2>2 DEF Counted
  <2>3. ASSUME NEW w \in Worker, Asked(w) PROVE log.attempt < MaxAttempt
    BY <2>0, <2>3 DEF Alone, Busy, Asked
  <2> QED
    BY <2>0, <2>1, <2>2, <2>3 DEF Counted
<1> QED
  BY <1>1, CountCorrect, TypeCorrect, PTL

\* A delivered event stays delivered: without an overlap nobody holds a copy of
\* the row that says otherwise.
THEOREM DeliveredIsForGood == Spec => DeliveredStays
<1>1. TypeOK /\ CountInv /\ [Next]_vars =>
        [log.delivered /\ used["overlap"] = 0 => log'.delivered]_log
  <2> SUFFICES ASSUME Alone, Next, log.delivered PROVE log' = log
    BY DEF CountInv, vars
  <2>1. first # "post" /\ \A w \in Worker : ~Busy(w)
    BY NoLogType DEF Alone
  <2> QED
    BY <2>1 DEF Next, Step, ClientChanges, DropFirst, SendFirst, FlagFirst, CrashFirst,
                Elapse, Poll, Skip, Retry, Flag, Store, Crash, Busy
<1> QED
  BY <1>1, CountCorrect, TypeCorrect, PTL DEF Spec, DeliveredStays
=============================================================================
