------------------- MODULE PaymentCallbackDelivery_proofs -------------------
(***************************************************************************)
(* Theorems about PaymentCallbackDelivery, for any limit and list of       *)
(* delays and any budget of faults; the first two for any number of        *)
(* workers, the others for one worker that looks at an event only after    *)
(* its first attempt.                                                      *)
(***************************************************************************)
EXTENDS PaymentCallbackDelivery, TLAPS

Lost == used["crash"] + used["db"]

\* The row after an attempt is a row.
LEMMA AfterType ==
    ASSUME NEW mem \in Log, NEW ok \in BOOLEAN
    PROVE  /\ After(mem, ok) \in Log
           /\ After(mem, ok).attempt = mem.attempt + 1
           /\ After(mem, ok).delivered = ok
<1> DEFINE next == IF ok THEN None ELSE NextRetry(mem.attempt + 1)
<1>1. mem.attempt + 1 \in Nat /\ mem.attempt + 1 >= 1
  BY DEF Log
<1>2. next \in 1..NInterval \cup {None}
  BY <1>1, ConstAssumption DEF NextRetry
<1> HIDE DEF next
<1>3. [mem EXCEPT !.attempt = @ + 1, !.delivered = ok, !.next = next] \in Log
  BY <1>1, <1>2 DEF Log
<1>4. /\ [mem EXCEPT !.attempt = @ + 1, !.delivered = ok, !.next = next].attempt = mem.attempt + 1
      /\ [mem EXCEPT !.attempt = @ + 1, !.delivered = ok, !.next = next].delivered = ok
  BY DEF Log
<1> QED
  BY <1>3, <1>4 DEF After, next

LEMMA RefusedType ==
    ASSUME NEW mem \in Log
    PROVE  /\ Refused(mem) \in Log
           /\ Refused(mem).attempt = IF mem.attempt = 0 THEN 1 ELSE mem.attempt
           /\ Refused(mem).delivered = FALSE
<1> DEFINE n == IF mem.attempt = 0 THEN 1 ELSE mem.attempt
           next == NextRetry(n)
<1>1. n \in Nat /\ n >= 1
  BY DEF Log
<1>2. next \in 1..NInterval \cup {None}
  BY <1>1, ConstAssumption DEF NextRetry
<1> HIDE DEF n, next
<1>3. [mem EXCEPT !.attempt = n, !.delivered = FALSE, !.next = next] \in Log
  BY <1>1, <1>2 DEF Log
<1>4. /\ [mem EXCEPT !.attempt = n, !.delivered = FALSE, !.next = next].attempt = n
      /\ [mem EXCEPT !.attempt = n, !.delivered = FALSE, !.next = next].delivered = FALSE
  BY DEF Log
<1> QED
  BY <1>3, <1>4 DEF Refused, n, next

\* The row before and right after the INSERT is one as well.
LEMMA NoLogType ==
    /\ NoLog \in Log /\ NoLog.attempt = 0 /\ ~NoLog.delivered /\ ~NoLog.there
    /\ [NoLog EXCEPT !.there = TRUE] \in Log
    /\ [NoLog EXCEPT !.there = TRUE].attempt = 0
    /\ ~[NoLog EXCEPT !.there = TRUE].delivered
<1>1. None \in 1..NInterval \cup {None}
  OBVIOUS
<1> QED
  BY <1>1 DEF NoLog, Log

\* Types are preserved: every row and copy of payment_callback_logs is well formed.
THEOREM TypeCorrect == Spec => []TypeOK
<1> DEFINE PC == {"begin", "idle", "touch", "post", "store", "flag"}
<1>1. Init => TypeOK
  <2> SUFFICES ASSUME Init PROVE TypeOK
    OBVIOUS
  <2>1. Idle \in [pc : PC, mem : Log] /\ [Idle EXCEPT !.pc = "begin"] \in [pc : PC, mem : Log]
    BY NoLogType DEF Idle
  <2>2. job \in [Process -> [pc : PC, mem : Log]] /\ used \in [FaultKind -> Nat]
    BY <2>1 DEF Init
  <2> QED
    BY <2>2, NoLogType DEF Init, TypeOK
<1>2. TypeOK /\ [Next]_vars => TypeOK'
  <2> SUFFICES ASSUME TypeOK, [Next]_vars PROVE TypeOK'
    OBVIOUS
  <2> USE DEF TypeOK, env
  <2>0. /\ \A k : Spend(k) => used' \in [FaultKind -> Nat]
        /\ Idle \in [pc : PC, mem : Log]
        /\ \A w, pc, mem : pc \in PC /\ mem \in Log /\ Become(w, pc, mem) =>
             job' \in [Process -> [pc : PC, mem : Log]]
    BY NoLogType DEF Spend, Idle, Become
  <2>1. CASE EnqueueEvent
    <3>1. log' \in Log /\ job' \in [Process -> [pc : PC, mem : Log]]
      BY <2>0, <2>1, NoLogType DEF EnqueueEvent
    <3> QED
      BY <2>0, <2>1, <3>1 DEF EnqueueEvent
  <2>2. CASE Elapse
    BY <2>2 DEF Elapse
  <2>3. CASE RetryCallback
    BY <2>0, <2>3 DEF RetryCallback
  <2>4. CASE Touch
    BY <2>0, <2>4 DEF Touch, Process
  <2>5. ASSUME NEW w \in Poller, Poll(w) PROVE TypeOK'
    BY <2>0, <2>5 DEF Poll
  <2>6. ASSUME NEW w \in Process, Attempt(w) PROVE TypeOK'
    <3>1. PICK ok \in BOOLEAN :
            posts' = posts + 1 /\ Become(w, "store", After(job[w].mem, ok))
      BY <2>6 DEF Attempt
    <3>2. After(job[w].mem, ok) \in Log
      BY AfterType
    <3>3. job' \in [Process -> [pc : PC, mem : Log]]
      BY <2>0, <3>1, <3>2
    <3>4. heard' \in BOOLEAN
      <4>1. heard' = TRUE \/ heard' = heard
        BY <2>6 DEF Attempt
      <4> QED
        BY <4>1
    <3>5. posts' \in Nat /\ UNCHANGED <<log, due, sent, env, used>>
      BY <2>6, <3>1 DEF Attempt
    <3> QED
      BY <3>3, <3>4, <3>5
  <2>7. ASSUME NEW w \in Process, Store(w) PROVE TypeOK'
    <3>1. job' \in [Process -> [pc : PC, mem : Log]]
      BY <2>0, <2>7 DEF Store
    <3>2. \/ log' = job[w].mem /\ due' = FALSE /\ UNCHANGED used
          \/ Spend("db") /\ UNCHANGED <<log, due>>
      BY <2>7 DEF Store
    <3>3. job[w].mem \in Log
      OBVIOUS
    <3>4. log' \in Log /\ due' \in BOOLEAN /\ used' \in [FaultKind -> Nat]
      BY <2>0, <3>2, <3>3
    <3> QED
      BY <2>7, <3>1, <3>4 DEF Store
  <2>8. ASSUME NEW w \in Process, Flag(w) PROVE TypeOK'
    BY <2>0, <2>8 DEF Flag
  <2>9. ASSUME NEW w \in Process, Crash(w) PROVE TypeOK'
    BY <2>0, <2>9 DEF Crash
  <2>10. CASE RecordsChange \/ UNCHANGED vars
    BY <2>10 DEF RecordsChange, vars, env
  <2>11. ASSUME NEW w \in Process, Refuse(w) PROVE TypeOK'
    <3>1. Refused(job[w].mem) \in Log
      BY RefusedType
    <3> QED
      BY <2>0, <2>11, <3>1 DEF Refuse
  <2>12. ASSUME NEW w \in Poller, Skip(w) PROVE TypeOK'
    BY <2>0, <2>12 DEF Skip
  <2> QED
    BY <2>1, <2>2, <2>3, <2>4, <2>5, <2>6, <2>7, <2>8, <2>9, <2>10, <2>11, <2>12
       DEF Next, Step
<1> QED
  BY <1>1, <1>2, PTL DEF Spec

-----------------------------------------------------------------------------
(***************************************************************************)
(* What is, or is about to be, written as delivered was answered; who is   *)
(* about to send again holds a copy that is not delivered; and a delivered *)
(* row is flagged, or its writer is about to flag it.                      *)
(***************************************************************************)
HeardInv ==
    /\ (sent \/ log.delivered) => heard
    /\ \A w \in Process : (job[w].pc = "flag" \/ job[w].mem.delivered) => heard

FlagInv ==
    /\ \A w \in Process : job[w].pc = "touch" => ~job[w].mem.delivered
    /\ Lost = 0 /\ log.delivered => sent \/ \E w \in Process : job[w].pc = "flag"

\* A change of one process' job leaves the others alone.
LEMMA BecomeJob ==
    ASSUME TypeOK, NEW w \in Process, NEW pc, NEW mem, Become(w, pc, mem)
    PROVE  job'[w].pc = pc /\ job'[w].mem = mem /\ \A v \in Process \ {w} : job'[v] = job[v]
BY DEF Become, TypeOK

\* Results are lost once at a time, and no fault is undone.
LEMMA LostGrows ==
    ASSUME TypeOK, [Next]_vars
    PROVE  /\ Lost \in Nat /\ Lost' \in Nat /\ Lost <= Lost'
           /\ Spend("crash") \/ Spend("db") => Lost' = Lost + 1
           /\ used'["admin"] = 0 => used["admin"] = 0 /\ ~Spend("admin")
<1>1. \A k \in FaultKind : used[k] \in Nat
  BY DEF TypeOK
<1>2. used' = used \/ \E k \in FaultKind : Spend(k)
  BY DEF Next, Step, RecordsChange, EnqueueEvent, Elapse, RetryCallback, Touch, Poll, Skip,
         Attempt, Refuse, Store, Flag, Crash, vars, FaultKind
<1>3. CASE used' = used
  BY <1>1, <1>3 DEF Lost, Spend, FaultKind, TypeOK
<1>4. CASE Spend("crash")
  BY <1>1, <1>4 DEF Lost, Spend, FaultKind, TypeOK
<1>5. CASE Spend("db")
  BY <1>1, <1>5 DEF Lost, Spend, FaultKind, TypeOK
<1>6. CASE Spend("admin")
  BY <1>1, <1>6 DEF Lost, Spend, FaultKind, TypeOK
<1> QED
  BY <1>2, <1>3, <1>4, <1>5, <1>6 DEF FaultKind

\* Neither callback_sent nor is_delivered is set for a merchant that never
\* answered, however workers, operators and the first attempt overlap, whatever
\* is lost (AttemptDelivery, MarkPaymentCallbackSent, RetryCallback).
THEOREM SentOnlyIfHeard == Spec => []SentIsHeard
<1>1. Init => HeardInv
  BY DEF Init, HeardInv, NoLog, Idle
<1>2. TypeOK /\ HeardInv /\ [Next]_vars => HeardInv'
  <2> SUFFICES ASSUME TypeOK, HeardInv, [Next]_vars PROVE HeardInv'
    OBVIOUS
  <2> USE DEF HeardInv
  <2>1. CASE EnqueueEvent
    <3>1. ~log'.delivered \/ log' = log
      BY <2>1, NoLogType DEF EnqueueEvent
    <3>2. "first" \in Process /\ UNCHANGED <<sent, heard>>
      BY <2>1 DEF EnqueueEvent, Process
    <3>3. /\ job'["first"].pc # "flag" /\ ~job'["first"].mem.delivered
          /\ \A v \in Process \ {"first"} : job'[v] = job[v]
      <4>1. CASE Become("first", "post", log') /\ log' = [NoLog EXCEPT !.there = TRUE]
        <5>1. /\ job'["first"].pc = "post" /\ job'["first"].mem = [NoLog EXCEPT !.there = TRUE]
              /\ \A v \in Process \ {"first"} : job'[v] = job[v]
          BY <3>2, <4>1, BecomeJob
        <5> QED
          BY <5>1, NoLogType
      <4>2. CASE job' = [job EXCEPT !["first"] = Idle]
        <5>1. job'["first"] = Idle /\ \A v \in Process \ {"first"} : job'[v] = job[v]
          BY <3>2, <4>2 DEF TypeOK
        <5> QED
          BY <5>1, NoLogType DEF Idle
      <4> QED
        BY <2>1, <4>1, <4>2 DEF EnqueueEvent
    <3> QED
      BY <3>1, <3>2, <3>3
  <2>2. CASE Elapse
    BY <2>2 DEF Elapse
  <2>3. CASE RetryCallback
    <3>1. /\ job'["admin"].pc = "touch" /\ job'["admin"].mem = log
          /\ \A v \in Process \ {"admin"} : job'[v] = job[v]
      BY <2>3, BecomeJob DEF RetryCallback, Process
    <3> QED
      BY <2>3, <3>1 DEF RetryCallback
  <2>4. CASE Touch
    <3>1. "admin" \in Process
      BY DEF Process
    <3> QED
      BY <2>4, <3>1, BecomeJob DEF Touch
  <2>5. ASSUME NEW w \in Poller, Poll(w) PROVE HeardInv'
    <3>1. /\ job'[w].pc = "post" /\ job'[w].mem = log
          /\ \A v \in Process \ {w} : job'[v] = job[v]
      BY <2>5, BecomeJob DEF Poll, Process
    <3> QED
      BY <2>5, <3>1 DEF Poll
  <2>6. ASSUME NEW w \in Process, Attempt(w) PROVE HeardInv'
    <3>1. PICK ok \in BOOLEAN :
            /\ heard' = TRUE \/ (~ok /\ heard' = heard)
            /\ Become(w, "store", After(job[w].mem, ok))
      BY <2>6 DEF Attempt
    <3>2. After(job[w].mem, ok).delivered = ok
      <4>1. job[w].mem \in Log
        BY DEF TypeOK
      <4> QED
        BY <4>1, AfterType
    <3>3. /\ job'[w].pc = "store" /\ job'[w].mem.delivered = ok
          /\ \A v \in Process \ {w} : job'[v] = job[v]
      BY <3>1, <3>2, BecomeJob
    <3>4. /\ ok => heard'
          /\ heard => heard'
      BY <3>1
    <3>5. UNCHANGED <<log, sent>>
      BY <2>6 DEF Attempt
    <3>6. sent' \/ log'.delivered => heard'
      BY <3>4, <3>5
    <3>7. job'[w].pc = "flag" \/ job'[w].mem.delivered => heard'
      BY <3>3, <3>4
    <3>8. \A v \in Process \ {w} : job'[v].pc = "flag" \/ job'[v].mem.delivered => heard'
      BY <3>3, <3>4
    <3> QED
      BY <3>6, <3>7, <3>8
  <2>7. ASSUME NEW w \in Process, Store(w) PROVE HeardInv'
    <3>1. /\ job'[w].pc = (IF job[w].mem.delivered THEN "flag" ELSE "idle")
          /\ job'[w].mem = job[w].mem
          /\ \A v \in Process \ {w} : job'[v] = job[v]
      BY <2>7, BecomeJob DEF Store
    <3> QED
      BY <2>7, <3>1 DEF Store
  <2>8. ASSUME NEW w \in Process, Flag(w) PROVE HeardInv'
    BY <2>8, NoLogType DEF Flag, Idle, TypeOK
  <2>9. ASSUME NEW w \in Process, Crash(w) PROVE HeardInv'
    BY <2>9, NoLogType DEF Crash, Idle, TypeOK
  <2>10. CASE RecordsChange \/ UNCHANGED vars
    BY <2>10 DEF RecordsChange, vars
  <2>11. ASSUME NEW w \in Process, Refuse(w) PROVE HeardInv'
    <3>1. Refused(job[w].mem).delivered = FALSE
      BY RefusedType DEF TypeOK
    <3>2. /\ job'[w].pc = "store" /\ job'[w].mem.delivered = FALSE
          /\ \A v \in Process \ {w} : job'[v] = job[v]
      BY <2>11, <3>1, BecomeJob DEF Refuse
    <3> QED
      BY <2>11, <3>2 DEF Refuse
  <2>12. ASSUME NEW w \in Poller, Skip(w) PROVE HeardInv'
    BY <2>12, NoLogType DEF Skip, Idle, TypeOK, Process
  <2> QED
    BY <2>1, <2>2, <2>3, <2>4, <2>5, <2>6, <2>7, <2>8, <2>9, <2>10, <2>11, <2>12
       DEF Next, Step
<1>3. HeardInv => SentIsHeard
  BY DEF HeardInv, SentIsHeard
<1> QED
  BY <1>1, <1>2, <1>3, TypeCorrect, PTL DEF Spec

\* While no process dies and no write fails, the payment remembers every
\* delivery once everybody is done: AttemptDelivery ends with
\* MarkPaymentCallbackSent, and no other write brings the mark into the row.
THEOREM DeliveryIsFlagged == Spec => []DeliveredIsFlagged
<1>1. Init => FlagInv
  BY NoLogType DEF Init, FlagInv, Idle
<1>2. TypeOK /\ FlagInv /\ [Next]_vars => FlagInv'
  <2> SUFFICES ASSUME TypeOK, FlagInv, [Next]_vars PROVE FlagInv'
    OBVIOUS
  <2>0. /\ Lost' = 0 => Lost = 0 /\ ~Spend("crash") /\ ~Spend("db")
        /\ "first" \in Process /\ "admin" \in Process
    BY LostGrows DEF Process
  <2> USE DEF FlagInv
  <2>1. CASE EnqueueEvent
    <3>1. ~log'.delivered \/ log' = log
      BY <2>1, NoLogType DEF EnqueueEvent
    <3>2. job'["first"].pc # "touch" /\ \A v \in Process \ {"first"} : job'[v] = job[v]
      <4>1. CASE Become("first", "post", log')
        BY <2>0, <4>1, BecomeJob
      <4>2. CASE job' = [job EXCEPT !["first"] = Idle]
        BY <2>0, <4>2 DEF TypeOK, Idle
      <4> QED
        BY <2>1, <4>1, <4>2 DEF EnqueueEvent
    <3>3. job["first"].pc = "begin" /\ UNCHANGED sent
      BY <2>1 DEF EnqueueEvent
    <3> QED
      BY <2>0, <3>1, <3>2, <3>3
  <2>2. CASE Elapse
    BY <2>0, <2>2 DEF Elapse
  <2>3. CASE RetryCallback
    BY <2>0, <2>3, BecomeJob DEF RetryCallback
  <2>4. CASE Touch
    BY <2>0, <2>4, BecomeJob DEF Touch
  <2>5. ASSUME NEW w \in Poller, Poll(w) PROVE FlagInv'
    <3>1. w \in Process /\ job[w].pc = "idle" /\ UNCHANGED <<log, sent>>
      BY <2>5 DEF Poll, Process
    <3>2. job'[w].pc = "post" /\ \A v \in Process \ {w} : job'[v] = job[v]
      BY <2>5, <3>1, BecomeJob DEF Poll
    <3> QED
      BY <2>0, <3>1, <3>2
  <2>6. ASSUME NEW w \in Process, Attempt(w) PROVE FlagInv'
    <3>1. job'[w].pc = "store" /\ \A v \in Process \ {w} : job'[v] = job[v]
      BY <2>6, BecomeJob DEF Attempt
    <3> QED
      BY <2>0, <2>6, <3>1 DEF Attempt, Ready
  <2>7. ASSUME NEW w \in Process, Store(w) PROVE FlagInv'
    <3>1. /\ job'[w].pc = (IF job[w].mem.delivered THEN "flag" ELSE "idle")
          /\ \A v \in Process \ {w} : job'[v] = job[v]
      BY <2>7, BecomeJob DEF Store
    <3>2. /\ job[w].pc = "store" /\ UNCHANGED sent
          /\ log' = job[w].mem \/ Spend("db")
      BY <2>7 DEF Store
    <3> QED
      BY <2>0, <3>1, <3>2
  <2>8. ASSUME NEW w \in Process, Flag(w) PROVE FlagInv'
    BY <2>0, <2>8 DEF Flag, Idle, TypeOK
  <2>9. ASSUME NEW w \in Process, Crash(w) PROVE FlagInv'
    BY <2>0, <2>9 DEF Crash, Idle, TypeOK
  <2>10. CASE RecordsChange \/ UNCHANGED vars
    BY <2>10 DEF RecordsChange, vars, Lost
  <2>11. ASSUME NEW w \in Process, Refuse(w) PROVE FlagInv'
    <3>1. job'[w].pc = "store" /\ \A v \in Process \ {w} : job'[v] = job[v]
      BY <2>11, BecomeJob DEF Refuse
    <3> QED
      BY <2>0, <2>11, <3>1 DEF Refuse, Ready
  <2>12. ASSUME NEW w \in Poller, Skip(w) PROVE FlagInv'
    BY <2>0, <2>12 DEF Skip, Idle, TypeOK, Process
  <2> QED
    BY <2>1, <2>2, <2>3, <2>4, <2>5, <2>6, <2>7, <2>8, <2>9, <2>10, <2>11, <2>12
       DEF Next, Step
<1>3. FlagInv => DeliveredIsFlagged
  BY DEF FlagInv, DeliveredIsFlagged, Quiet, Lost
<1> QED
  BY <1>1, <1>2, <1>3, TypeCorrect, PTL DEF Spec

-----------------------------------------------------------------------------
(***************************************************************************)
(* Without an operator at most one process works on the row, on a copy     *)
(* that is still the row; each request that is counted neither in the row  *)
(* nor in the copy about to be stored was lost to a crash or a failing     *)
(* write.                                                                  *)
(***************************************************************************)
OneWorker == Prompt /\ \A p, q \in Poller : p = q

Busy(w) == job[w].pc # "idle"

Alone ==
    /\ ~Busy("admin")
    /\ \A v, w \in Process : Busy(v) /\ Busy(w) => v = w
    /\ \A w \in Poller : job[w].pc # "begin"
    /\ job["first"].pc = "begin" => ~log.delivered /\ log.attempt = 0 /\ posts = 0
    /\ \A w \in Process : job[w].pc \in {"post", "store"} =>
         ~log.delivered /\ log.attempt < MaxAttempts
    /\ \A w \in Process : job[w].pc = "post" => job[w].mem.attempt = log.attempt
    /\ \A w \in Process : job[w].pc = "store" =>
         job[w].mem.attempt \in {log.attempt, log.attempt + 1}

Counted ==
    /\ log.attempt <= MaxAttempts
    /\ (\A w \in Process : job[w].pc # "store") => posts <= log.attempt + Lost
    /\ \A w \in Process : job[w].pc = "store" => posts <= job[w].mem.attempt + Lost
    /\ posts <= log.attempt + Lost + 1

CountInv == used["admin"] = 0 => Alone /\ Counted

\* The invariant is inductive.
LEMMA CountStep ==
    ASSUME OneWorker PROVE TypeOK /\ CountInv /\ [Next]_vars => CountInv'
<1> SUFFICES ASSUME TypeOK, CountInv, [Next]_vars, used'["admin"] = 0
             PROVE  Alone' /\ Counted'
  BY DEF CountInv
<1>0. /\ Lost \in Nat /\ Lost' \in Nat /\ Lost <= Lost'
      /\ Spend("crash") \/ Spend("db") => Lost' = Lost + 1
      /\ ~Spend("admin")
      /\ Alone /\ Counted
      /\ "first" \in Process /\ "admin" \in Process
  BY LostGrows DEF CountInv, Process
<1>a. /\ log.attempt \in Nat /\ posts \in Nat /\ MaxAttempts \in Nat \ {0}
      /\ \A w \in Process : job[w].mem \in Log /\ job[w].mem.attempt \in Nat
  BY ConstAssumption DEF Log, TypeOK
<1>b. /\ \A w \in Process : Busy(w) => w # "admin"
      /\ \A w \in Process : w # "first" => job[w].pc # "begin"
  BY <1>0 DEF Alone, Process, Busy
<1>1. CASE EnqueueEvent
  <2>1. /\ job["first"].pc = "begin" /\ \A v \in Process \ {"first"} : job[v].pc = "idle"
        /\ ~log.delivered /\ log.attempt = 0 /\ posts = 0
    BY <1>0, <1>1 DEF EnqueueEvent, Alone, Busy
  <2>2. /\ posts' = 0 /\ ~log'.delivered /\ log'.attempt = 0
        /\ \/ job'["first"].pc = "post" /\ job'["first"].mem.attempt = 0
           \/ job'["first"].pc = "idle"
        /\ \A v \in Process \ {"first"} : job'[v] = job[v]
    <3>1. CASE Become("first", "post", log') /\ log' = [NoLog EXCEPT !.there = TRUE]
      <4>1. /\ job'["first"].pc = "post" /\ job'["first"].mem = log'
            /\ \A v \in Process \ {"first"} : job'[v] = job[v]
        BY <1>0, <3>1, BecomeJob
      <4>2. log'.attempt = 0 /\ ~log'.delivered
        BY <3>1, NoLogType
      <4>3. posts' = 0
        BY <1>1, <2>1 DEF EnqueueEvent
      <4> QED
        BY <4>1, <4>2, <4>3
    <3>2. CASE job' = [job EXCEPT !["first"] = Idle] /\ log' = log
      BY <1>0, <1>1, <2>1, <3>2 DEF EnqueueEvent, TypeOK, Idle
    <3> QED
      BY <1>1, <3>1, <3>2 DEF EnqueueEvent
  <2>3. Alone'
    <3>1. \A v \in Process \ {"first"} : job'[v].pc = "idle"
      BY <2>1, <2>2
    <3>2. "first" \notin Poller /\ "first" # "admin" /\ Poller \subseteq Process
      BY ConstAssumption DEF Process
    <3>3. job'["first"].pc \in {"post", "idle"}
      BY <2>2
    <3>4. 0 < MaxAttempts
      BY <1>a
    <3> QED
      BY <1>0, <2>2, <3>1, <3>2, <3>3, <3>4 DEF Alone, Busy
  <2>4. posts' = 0 /\ log'.attempt = 0
    BY <2>2
  <2>5. log'.attempt <= MaxAttempts
    BY <1>a, <2>4
  <2>6. PICK lost \in Nat : lost = Lost'
    BY <1>0
  <2>7. posts' <= log'.attempt + lost /\ posts' <= log'.attempt + lost + 1
    BY <2>4
  <2>8. \A w \in Process : job'[w].pc # "store"
    BY <2>1, <2>2
  <2> QED
    BY <2>3, <2>5, <2>6, <2>7, <2>8 DEF Counted
<1>2. CASE RecordsChange \/ Elapse \/ UNCHANGED vars
  <2>1. UNCHANGED <<log, job, posts>>
    BY <1>2 DEF RecordsChange, Elapse, vars
  <2> QED
    BY <1>0, <1>a, <2>1 DEF Alone, Counted, Busy
<1>3. CASE RetryCallback \/ Touch
  BY <1>0, <1>3 DEF RetryCallback, Touch, Alone, Busy
<1>5. ASSUME NEW w \in Poller, Poll(w) PROVE Alone' /\ Counted'
  <2>1. /\ w \in Process /\ UNCHANGED <<log, posts>>
        /\ job'[w].pc = "post" /\ job'[w].mem = log
        /\ \A v \in Process \ {w} : job'[v] = job[v]
    BY <1>5, BecomeJob DEF Poll, Process
  <2>2. \A v \in Process : job[v].pc = "idle"
    BY <1>0, <1>5 DEF Poll, OneWorker, Alone, Busy, Process
  <2>3. ~log.delivered /\ log.attempt < MaxAttempts /\ w # "admin" /\ w # "first"
    BY <1>5, ConstAssumption DEF Poll, Selected
  <2> QED
    BY <1>0, <1>a, <2>1, <2>2, <2>3 DEF Alone, Counted, Busy, Process
<1>6. ASSUME NEW w \in Process, Attempt(w) PROVE Alone' /\ Counted'
  <2>1. PICK ok \in BOOLEAN : Become(w, "store", After(job[w].mem, ok))
    BY <1>6 DEF Attempt
  <2>2. After(job[w].mem, ok).attempt = job[w].mem.attempt + 1
    BY <1>a, AfterType
  <2>3. /\ job'[w].pc = "store" /\ job'[w].mem.attempt = job[w].mem.attempt + 1
        /\ \A v \in Process \ {w} : job'[v] = job[v]
    BY <2>1, <2>2, BecomeJob
  <2>4. /\ job[w].pc = "post" /\ job[w].mem.attempt = log.attempt
        /\ \A v \in Process \ {w} : job[v].pc = "idle"
        /\ UNCHANGED <<log, used>> /\ posts' = posts + 1
    BY <1>0, <1>6 DEF Attempt, Ready, Alone, Busy
  <2>5. posts <= log.attempt + Lost /\ ~log.delivered /\ log.attempt < MaxAttempts
    BY <1>0, <2>4 DEF Alone, Counted
  <2>6. Alone'
    BY <1>0, <1>b, <2>3, <2>4, <2>5 DEF Alone, Busy, Process
  <2> QED
    BY <1>0, <1>a, <2>3, <2>4, <2>5, <2>6 DEF Counted, Lost
<1>7. ASSUME NEW w \in Process, Store(w) \/ Flag(w) \/ Crash(w) PROVE Alone' /\ Counted'
  <2>1. /\ UNCHANGED posts /\ Busy(w) /\ job'[w].pc \in {"idle", "flag"}
        /\ \A v \in Process \ {w} : job'[v] = job[v]
    <3>1. CASE Store(w)
      <4>1. /\ job'[w].pc = (IF job[w].mem.delivered THEN "flag" ELSE "idle")
            /\ \A v \in Process \ {w} : job'[v] = job[v]
        BY <3>1, BecomeJob DEF Store
      <4> QED
        BY <3>1, <4>1 DEF Store, Busy
    <3>2. CASE Flag(w) \/ Crash(w)
      BY <3>2 DEF Flag, Crash, Idle, TypeOK, Busy
    <3> QED
      BY <1>7, <3>1, <3>2
  <2>2. \A v \in Process \ {w} : job[v].pc = "idle"
    BY <1>0, <2>1 DEF Alone, Busy
  <2>3. Alone'
    BY <1>0, <1>b, <2>1, <2>2 DEF Alone, Busy, Process
  <2>4. \/ job[w].pc = "store" /\ log' = job[w].mem
        \/ log' = log /\ Lost' = Lost + 1
        \/ log' = log /\ job[w].pc = "flag"
    BY <1>0, <1>7 DEF Store, Flag, Crash
  <2>5. log'.attempt <= MaxAttempts /\ posts' <= log'.attempt + Lost'
    <3>1. CASE job[w].pc = "store" /\ log' = job[w].mem
      <4>1. log'.attempt \in {log.attempt, log.attempt + 1} /\ log.attempt < MaxAttempts
        BY <1>0, <3>1 DEF Alone
      <4>2. posts <= log'.attempt + Lost
        BY <1>0, <3>1 DEF Counted
      <4> QED
        BY <1>0, <1>a, <2>1, <4>1, <4>2
    <3>2. CASE log' = log /\ Lost' = Lost + 1
      BY <1>0, <1>a, <2>1, <3>2 DEF Counted
    <3>3. CASE log' = log /\ job[w].pc = "flag"
      BY <1>0, <1>a, <2>1, <2>2, <3>3 DEF Counted
    <3> QED
      BY <2>4, <3>1, <3>2, <3>3
  <2>6. log'.attempt \in Nat
    BY <1>a, <2>4
  <2> QED
    BY <1>0, <1>a, <2>1, <2>3, <2>5, <2>6 DEF Counted
<1>8. ASSUME NEW w \in Process, Refuse(w) PROVE Alone' /\ Counted'
  <2>1. Refused(job[w].mem).attempt = IF job[w].mem.attempt = 0 THEN 1 ELSE job[w].mem.attempt
    BY <1>a, RefusedType
  <2>2. /\ job'[w].pc = "store" /\ job'[w].mem = Refused(job[w].mem)
        /\ \A v \in Process \ {w} : job'[v] = job[v]
    BY <1>8, BecomeJob DEF Refuse
  <2>3. /\ job[w].pc = "post" /\ job[w].mem.attempt = log.attempt
        /\ \A v \in Process \ {w} : job[v].pc = "idle"
        /\ UNCHANGED <<log, used, posts>>
    BY <1>0, <1>8 DEF Refuse, Ready, Alone, Busy
  <2>4. posts <= log.attempt + Lost /\ ~log.delivered /\ log.attempt < MaxAttempts
    BY <1>0, <2>3 DEF Alone, Counted
  <2>5. job'[w].mem.attempt \in {log.attempt, log.attempt + 1}
    BY <1>a, <2>1, <2>2, <2>3
  <2>6. Alone'
    BY <1>0, <1>b, <2>2, <2>3, <2>4, <2>5 DEF Alone, Busy, Process
  <2>7. Lost' = Lost
    BY <2>3 DEF Lost
  <2> QED
    BY <1>0, <1>a, <2>2, <2>3, <2>4, <2>5, <2>6, <2>7 DEF Counted
<1>9. ASSUME NEW w \in Poller, Skip(w) PROVE Alone' /\ Counted'
  <2>1. /\ w \in Process /\ job[w].pc = "post" /\ UNCHANGED <<log, posts, used>>
        /\ job'[w].pc = "idle" /\ \A v \in Process \ {w} : job'[v] = job[v]
    BY <1>9 DEF Skip, Process, Idle, TypeOK
  <2>2. \A v \in Process \ {w} : job[v].pc = "idle"
    BY <1>0, <2>1 DEF Alone, Busy
  <2>3. Alone'
    BY <1>0, <1>b, <2>1, <2>2 DEF Alone, Busy, Process
  <2>4. Lost' = Lost /\ posts <= log.attempt + Lost
    BY <1>0, <2>1, <2>2 DEF Lost, Counted
  <2> QED
    BY <1>0, <1>a, <2>1, <2>2, <2>3, <2>4 DEF Counted
<1> QED
  BY <1>1, <1>2, <1>3, <1>5, <1>6, <1>7, <1>8, <1>9 DEF Next, Step

\* It holds in every reachable state.
LEMMA CountCorrect == ASSUME OneWorker PROVE Spec => []CountInv
<1>1. Init => CountInv
  <2> SUFFICES ASSUME Init PROVE Alone /\ Counted
    BY DEF CountInv
  <2>1. /\ ~log.delivered /\ log.attempt = 0 /\ Lost = 0 /\ posts = 0 /\ MaxAttempts \in Nat
        /\ "first" \in Process /\ "admin" \in Process
    BY NoLogType, ConstAssumption DEF Init, Lost, FaultKind, Process
  <2>2. /\ job["first"].pc = "begin" /\ \A w \in Process \ {"first"} : job[w].pc = "idle"
        /\ \A w \in Poller : w # "first" /\ w \in Process
    BY <2>1, ConstAssumption DEF Init, Idle, Process
  <2> QED
    BY <2>1, <2>2 DEF Alone, Counted, Busy
<1> QED
  BY <1>1, CountStep, TypeCorrect, PTL DEF Spec

\* As long as no operator interferes, one worker calls the merchant at most
\* MaxAttempts times, and once more for each lost result: the count of markFailure
\* and the limit of GetPendingPaymentCallbackLogs agree.
THEOREM CallsAreBounded == ASSUME OneWorker PROVE Spec => []PostsBounded
<1>1. TypeOK /\ CountInv => PostsBounded
  <2> SUFFICES ASSUME TypeOK, CountInv, used["admin"] = 0
               PROVE  posts <= MaxAttempts + used["crash"] + used["db"]
    BY DEF PostsBounded
  <2> SUFFICES posts <= MaxAttempts + Lost
    <3>1. used["crash"] \in Nat /\ used["db"] \in Nat
      BY DEF TypeOK, FaultKind
    <3> QED
      BY <3>1, ConstAssumption DEF Lost
  <2>0. Alone /\ Counted
    BY DEF CountInv
  <2>1. log.attempt \in Nat /\ posts \in Nat /\ MaxAttempts \in Nat /\ Lost \in Nat
    BY ConstAssumption DEF TypeOK, Log, Lost, FaultKind
  <2>2. CASE \A w \in Process : job[w].pc # "store"
    BY <2>0, <2>1, <2>2 DEF Counted
  <2>3. ASSUME NEW w \in Process, job[w].pc = "store" PROVE log.attempt < MaxAttempts
    BY <2>0, <2>3 DEF Alone
  <2> QED
    BY <2>0, <2>1, <2>2, <2>3 DEF Counted
<1> QED
  BY <1>1, CountCorrect, TypeCorrect, PTL

\* A delivered event stays delivered: without an operator nobody holds a copy of
\* the row that says otherwise (UpdatePaymentCallbackLog writes every column).
THEOREM DeliveredIsForGood == ASSUME OneWorker PROVE Spec => DeliveredStays
<1>1. TypeOK /\ CountInv /\ [Next]_vars =>
        [log.delivered /\ used["admin"] = 0 => log'.delivered]_log
  <2> SUFFICES ASSUME Alone, Next, log.delivered PROVE log' = log
    BY DEF CountInv, vars
  <2>1. /\ job["first"].pc # "begin" /\ job["admin"].pc # "touch"
        /\ \A w \in Process : job[w].pc # "post" /\ job[w].pc # "store"
    BY DEF Alone, Busy
  <2> QED
    BY <2>1 DEF Next, Step, RecordsChange, EnqueueEvent, Elapse, RetryCallback, Touch, Poll,
                Skip, Attempt, Refuse, Ready, Store, Flag, Crash
<1> QED
  BY <1>1, CountCorrect, TypeCorrect, PTL DEF Spec, DeliveredStays
=============================================================================
