----------------------- MODULE DigiTransaction_proofs -----------------------
(***************************************************************************)
(* Proofs about DigiTransaction, for any number of SKUs, ref_ids and       *)
(* goroutines.                                                             *)
(***************************************************************************)
EXTENDS DigiTransaction, TLAPS

\* The records the handlers go on with are well formed.
LEMMA ConcludedType ==
    ASSUME NEW j \in Job, NEW s \in Status
    PROVE  /\ Concluded(j, s) \in Job
           /\ Concluded(j, s).pc = "persist"
           /\ Concluded(j, s).mem.status = s
           /\ Concluded(j, s).mem.ref = j.mem.ref
BY DEF Concluded, Job, Trx

LEMMA SameSkuType ==
    ASSUME NEW j \in Job
    PROVE  /\ SameSkuNewRef(j) \in Job
           /\ SameSkuNewRef(j).pc = "store"
           /\ SameSkuNewRef(j).mem = j.mem
<1> DEFINE n == j.suffix + 1
<1>1. n \in Nat
  BY DEF Job
<1>2. SameSkuNewRef(j) = [j EXCEPT !.pc = "store", !.suffix = n, !.net = 0]
  BY DEF SameSkuNewRef
<1> HIDE DEF n
<1> DEFINE k == [j EXCEPT !.pc = "store", !.suffix = n, !.net = 0]
<1>3. k \in Job
  BY <1>1 DEF Job
<1>4. k.pc = "store" /\ k.mem = j.mem
  BY DEF Job
<1> QED
  BY <1>2, <1>3, <1>4

LEMMA NextSkuNewRefType ==
    ASSUME NEW j \in Job
    PROVE  /\ NextSkuNewRef(j) \in Job
           /\ NextSkuNewRef(j).pc = "store"
           /\ NextSkuNewRef(j).mem = j.mem
<1>1. SameSkuNewRef(j) \in Job
  BY SameSkuType
<1> QED
  BY <1>1, SameSkuType DEF NextSkuNewRef, Job

LEMMA IdleType == Idle \in Job /\ NoTrx \in Trx
BY DEF Idle, Job, NoTrx, Trx, Status, FinalStatus

\* The branch after an answer keeps the records well formed, and a failure
\* never turns into anything but another attempt or a failed transaction.
LEMMA NextJobType ==
    ASSUME NEW j \in Job, NEW k \in NextJob(j)
    PROVE  /\ k \in Job
           /\ k.pc \in {"store", "persist"}
           /\ k.mem.ref = j.mem.ref
           /\ k.pc = "store" => k.mem = j.mem
           /\ k.pc = "persist" => k.mem.status \in FinalStatus \cup {"Processing"}
           /\ j.ans \in {"success", "pending"} <=>
                 k.pc = "persist" /\ k.mem.status # "Failed"
           /\ k.pc = "persist" /\ k.mem.status = "Success" => j.ans = "success"
<1> DEFINE retry == [j EXCEPT !.pc = "store", !.net = @ + 1]
<1>1. retry \in Job /\ retry.pc = "store" /\ retry.mem = j.mem
  <2> DEFINE n == j.net + 1
  <2>1. n \in Nat
    BY DEF Job
  <2>2. retry = [j EXCEPT !.pc = "store", !.net = n]
    OBVIOUS
  <2> HIDE DEF n
  <2> QED
    BY <2>1, <2>2 DEF Job
<1>2. {"Success", "Processing", "Failed"} \subseteq Status
  BY DEF Status, FinalStatus
<1>3. CASE j.ans = "success"
  <2>1. k = Concluded(j, "Success")
    BY <1>3 DEF NextJob
  <2>2. k \in Job /\ k.pc = "persist" /\ k.mem.status = "Success" /\ k.mem.ref = j.mem.ref
    BY <2>1, <1>2, ConcludedType
  <2> QED
    BY <1>3, <2>2 DEF FinalStatus
<1>4. CASE j.ans = "pending"
  <2>1. k = Concluded(j, "Processing")
    BY <1>4 DEF NextJob
  <2>2. k \in Job /\ k.pc = "persist" /\ k.mem.status = "Processing" /\ k.mem.ref = j.mem.ref
    BY <2>1, <1>2, ConcludedType
  <2> QED
    BY <1>4, <2>2 DEF FinalStatus
<1>5. CASE j.ans \notin {"success", "pending"}
  <2>1. k \in {Concluded(j, "Failed"), SameSkuNewRef(j), NextSkuNewRef(j), retry}
    BY <1>5 DEF NextJob
  <2>2. CASE k = Concluded(j, "Failed")
    <3>1. k \in Job /\ k.pc = "persist" /\ k.mem.status = "Failed" /\ k.mem.ref = j.mem.ref
      BY <2>2, <1>2, ConcludedType
    <3> QED
      BY <1>5, <3>1 DEF FinalStatus
  <2>3. CASE k \in {SameSkuNewRef(j), NextSkuNewRef(j), retry}
    <3>1. k \in Job /\ k.pc = "store" /\ k.mem = j.mem
      BY <2>3, <1>1, SameSkuType, NextSkuNewRefType
    <3> QED
      BY <1>5, <3>1
  <2> QED
    BY <2>1, <2>2, <2>3
<1> QED
  BY <1>3, <1>4, <1>5

\* What a callback handler does with a row it has read.
LEMMA AfterCallbackType ==
    ASSUME NEW t \in Trx, NEW rc
    PROVE  LET k == AfterCallback(t, rc) IN
           /\ k \in Job
           /\ k.pc \in {"idle", "plan", "persist"}
           /\ k.pc # "idle" => /\ t.status \notin FinalStatus
                              /\ k.mem.ref = t.ref
           /\ k.pc = "plan" => k.mem = t /\ rc \in Retryable
           /\ k.pc = "persist" => k.mem.status \in FinalStatus
           /\ k.pc = "persist" /\ k.mem.status = "Success" <=>
                  rc = "success" /\ t.status \notin FinalStatus
<1> DEFINE j == [Idle EXCEPT !.kind = "callback", !.mem = t]
<1>1. j \in Job /\ j.mem = t
  BY IdleType DEF Idle, Job
<1> DEFINE s == [j EXCEPT !.mem.sent = FALSE]
<1>2. s \in Job /\ s.mem.ref = t.ref
  BY <1>1 DEF Job, Trx
<1> DEFINE p == [j EXCEPT !.pc = "plan"]
<1>3. p \in Job /\ p.mem = t /\ p.pc = "plan"
  BY <1>1 DEF Job
<1> HIDE DEF j, s, p
<1>4. {"Success", "Failed"} \subseteq Status
  BY DEF Status, FinalStatus
<1>5. Idle.pc = "idle"
  BY DEF Idle
<1>6. CASE t.status \in FinalStatus
  BY <1>6, <1>5, IdleType DEF AfterCallback
<1>7. CASE t.status \notin FinalStatus /\ rc = "success"
  <2>1. AfterCallback(t, rc) = Concluded(s, "Success")
    BY <1>7 DEF AfterCallback, j, s
  <2> DEFINE k == Concluded(s, "Success")
  <2>2. /\ k \in Job /\ k.pc = "persist" /\ k.mem.status = "Success"
        /\ k.mem.ref = t.ref
    BY <1>2, <1>4, ConcludedType
  <2> HIDE DEF k
  <2> QED
    BY <1>7, <2>1, <2>2 DEF FinalStatus, k
<1>8. CASE t.status \notin FinalStatus /\ rc \in Retryable
  <2>1. AfterCallback(t, rc) = p
    BY <1>8 DEF AfterCallback, Retryable, j, p
  <2> QED
    BY <1>8, <2>1, <1>3 DEF Retryable
<1>9. CASE t.status \notin FinalStatus /\ rc \notin Retryable /\ rc # "success"
  <2>1. AfterCallback(t, rc) = Concluded(j, "Failed")
    BY <1>9 DEF AfterCallback, j
  <2> DEFINE k == Concluded(j, "Failed")
  <2>2. /\ k \in Job /\ k.pc = "persist" /\ k.mem.status = "Failed"
        /\ k.mem.ref = t.ref
    BY <1>1, <1>4, ConcludedType
  <2> HIDE DEF k
  <2> QED
    BY <1>9, <2>1, <2>2 DEF FinalStatus, k
<1> QED
  BY <1>6, <1>7, <1>8, <1>9

-----------------------------------------------------------------------------
(***************************************************************************)
(* Type correctness, whatever the faults.                                  *)
(***************************************************************************)

\* What TypeOK says of the record of one goroutine, and of everything else.
WellFormed(k) ==
    /\ k \in Job
    /\ k.pc \in {"call", "log"} => k.sku # None /\ k.mem.ref # None
    /\ k.pc = "notify" => k.mem.status \in FinalStatus

RestOK ==
    /\ row \in Trx
    /\ attempts \in Nat
    /\ tried \subseteq Sku
    /\ digi \in [Ref -> Outcome \cup {"none"}]
    /\ digiSku \in [Ref -> Sku \cup {None}]
    /\ cbs \in [Ref -> Nat]
    /\ told \subseteq FinalStatus
    /\ used \in [FaultKind -> Nat]

JobsOK == job \in [Worker -> Job] /\ \A w \in Worker : WellFormed(job[w])

LEMMA TypeParts == TypeOK <=> RestOK /\ JobsOK
BY Zenon DEF TypeOK, RestOK, JobsOK, WellFormed

\* A step of the goroutine w touches no other record.
LEMMA BecomeType ==
    ASSUME JobsOK, NEW w \in Worker, NEW k, WellFormed(k), Become(w, k)
    PROVE  /\ JobsOK'
           /\ job'[w] = k
           /\ \A v \in Worker \ {w} : job'[v] = job[v]
<1>1. job' = [job EXCEPT ![w] = k] /\ k \in Job /\ job \in [Worker -> Job]
  BY DEF Become, JobsOK, WellFormed
<1>2. job' \in [Worker -> Job]
  BY <1>1
<1>3. job'[w] = k /\ \A v \in Worker \ {w} : job'[v] = job[v]
  BY <1>1
<1>4. \A v \in Worker : WellFormed(job'[v])
  BY <1>3 DEF JobsOK
<1> QED
  BY <1>2, <1>3, <1>4 DEF JobsOK, WellFormed

LEMMA SpendType ==
    ASSUME NEW k \in FaultKind, used \in [FaultKind -> Nat], Spend(k)
    PROVE  used' \in [FaultKind -> Nat]
BY DEF Spend

LEMMA FaultKinds == {"net", "dup", "crash", "db", "manual", "wait"} = FaultKind
BY DEF FaultKind

LEMMA SubmitType ==
    ASSUME NEW r \in Ref, NEW s \in Sku, NEW o \in Outcome, Submit(r, s, o), RestOK
    PROVE  /\ digi' \in [Ref -> Outcome \cup {"none"}]
           /\ digiSku' \in [Ref -> Sku \cup {None}]
           /\ digi'[r] = o
           /\ \A q \in Ref \ {r} : digi'[q] = digi[q]
BY DEF Submit, RestOK

\* Init, and the steps of the entry points.
LEMMA InitType == Init => TypeOK
<1> SUFFICES ASSUME Init PROVE TypeOK
  OBVIOUS
<1>1. RestOK
  BY IdleType DEF Init, RestOK
<1>2. WellFormed(Idle)
  BY IdleType DEF WellFormed, Idle
<1>3. JobsOK
  BY <1>2 DEF Init, JobsOK, WellFormed
<1> QED
  BY <1>1, <1>3, TypeParts

\* Where the record of a goroutine goes, action by action.  Every action of a
\* goroutine is Become(w, k) for one of these k.
LEMMA CreateTrxType ==
    ASSUME TypeOK, NEW w \in Worker, CreateTrx(w)
    PROVE  /\ TypeOK'
           /\ job'[w].pc = "plan" /\ job'[w].mem = row'
           /\ row'.status = "Processing" /\ row'.ref = None
<1> DEFINE k == [Idle EXCEPT !.pc = "plan", !.kind = "create", !.mem = row']
<1>1. row' \in Trx /\ row'.status = "Processing" /\ row'.ref = None
  BY IdleType DEF CreateTrx, NoTrx, Trx, Status
<1>2. k \in Job /\ k.pc = "plan" /\ k.mem = row'
  BY <1>1, IdleType DEF Idle, Job
<1>3. Become(w, k)
  BY DEF CreateTrx
<1> HIDE DEF k
<1>4. JobsOK' /\ job'[w] = k
  BY <1>2, <1>3, BecomeType, TypeParts DEF WellFormed
<1>5. RestOK'
  BY <1>1, TypeParts DEF CreateTrx, RestOK, external
<1>6. TypeOK'
  BY <1>4, <1>5, TypeParts DEF TypeOK, RestOK, JobsOK, WellFormed
<1> QED
  BY <1>1, <1>2, <1>4, <1>6

LEMMA ManualRetryType ==
    ASSUME TypeOK, NEW w \in Worker, ManualRetry(w)
    PROVE  /\ TypeOK'
           /\ job'[w].pc = "plan" /\ job'[w].mem = row
<1> DEFINE n == SuffixOf(row.ref) + 1
           k == [Idle EXCEPT !.pc = "plan", !.kind = "manual", !.mem = row, !.suffix = n]
<1>1. n \in Nat
  BY TypeParts DEF RestOK, Trx, SuffixOf, Ref
<1>2. Become(w, k)
  BY DEF ManualRetry
<1> HIDE DEF n
<1>3. k \in Job /\ k.pc = "plan" /\ k.mem = row
  BY <1>1, IdleType, TypeParts DEF Idle, Job, RestOK
<1> HIDE DEF k
<1>4. JobsOK' /\ job'[w] = k
  BY <1>2, <1>3, BecomeType, TypeParts DEF WellFormed
<1>5. RestOK'
  BY TypeParts, SpendType, FaultKinds DEF ManualRetry, RestOK, external
<1>6. TypeOK'
  BY <1>4, <1>5, TypeParts DEF TypeOK, RestOK, JobsOK, WellFormed
<1> QED
  BY <1>3, <1>4, <1>6

LEMMA ReceiveCallbackType ==
    ASSUME TypeOK, NEW w \in Worker, NEW r \in Ref, ReceiveCallback(w, r)
    PROVE  /\ TypeOK'
           /\ job'[w] = AfterCallback(row, digi[r])
<1> DEFINE k == AfterCallback(row, digi[r])
<1>1. k \in Job /\ k.pc \in {"idle", "plan", "persist"}
  BY AfterCallbackType, TypeParts DEF RestOK
<1>2. Become(w, k)
  BY DEF ReceiveCallback
<1> HIDE DEF k
<1>4. JobsOK' /\ job'[w] = k
  BY <1>1, <1>2, BecomeType, TypeParts DEF WellFormed
<1>5. cbs' \in [Ref -> Nat]
  BY TypeParts DEF ReceiveCallback, RestOK
<1>6. RestOK'
  BY <1>5, TypeParts DEF ReceiveCallback, RestOK
<1>7. TypeOK'
  BY <1>4, <1>6, TypeParts DEF TypeOK, RestOK, JobsOK, WellFormed
<1> QED
  BY <1>4, <1>7 DEF k

LEMMA PlanType ==
    ASSUME TypeOK, NEW w \in Worker, Plan(w)
    PROVE  /\ TypeOK'
           /\ job'[w].pc = "store"
           /\ job'[w].mem = job[w].mem
<1> DEFINE retry == job[w].kind = "callback"
           suffix == IF ~retry THEN job[w].suffix ELSE IF attempts = 0 THEN 1 ELSE attempts
<1>1. PICK available \in SUBSET Sku :
        Become(w, [job[w] EXCEPT !.pc = "store",
                       !.todo = IF retry THEN available \ tried ELSE available,
                       !.suffix = suffix])
  BY DEF Plan
<1> DEFINE todo == IF retry THEN available \ tried ELSE available
           k == [job[w] EXCEPT !.pc = "store", !.todo = todo, !.suffix = suffix]
<1>2. job[w] \in Job /\ job \in [Worker -> Job]
  BY TypeParts DEF JobsOK
<1>3. suffix \in Nat
  BY <1>2, TypeParts DEF Job, RestOK
<1>4. todo \subseteq Sku
  OBVIOUS
<1>5. Become(w, k)
  BY <1>1
<1> HIDE DEF todo, suffix
<1>6. k \in Job
  BY <1>2, <1>3, <1>4 DEF Job
<1>7. k.pc = "store" /\ k.mem = job[w].mem
  BY <1>2 DEF Job
<1> HIDE DEF k
<1>8. JobsOK' /\ job'[w] = k
  BY <1>5, <1>6, <1>7, BecomeType, TypeParts DEF WellFormed
<1>9. RestOK'
  BY TypeParts DEF Plan, RestOK, external
<1> QED
  BY <1>7, <1>8, <1>9, TypeParts DEF TypeOK, RestOK, JobsOK, WellFormed

LEMMA ExhaustType ==
    ASSUME TypeOK, NEW w \in Worker, Exhaust(w)
    PROVE  /\ TypeOK'
           /\ job'[w].pc = "persist" /\ job'[w].mem.status = "Failed"
           /\ job'[w].mem.ref = job[w].mem.ref
<1> DEFINE k == Concluded(job[w], "Failed")
<1>1. /\ k \in Job /\ k.pc = "persist" /\ k.mem.status = "Failed"
      /\ k.mem.ref = job[w].mem.ref
  BY ConcludedType, TypeParts DEF JobsOK, Status, FinalStatus
<1>2. Become(w, k)
  BY DEF Exhaust
<1> HIDE DEF k
<1>3. JobsOK' /\ job'[w] = k
  BY <1>1, <1>2, BecomeType, TypeParts DEF WellFormed
<1>4. RestOK'
  BY TypeParts DEF Exhaust, RestOK, external
<1> QED
  BY <1>1, <1>3, <1>4, TypeParts DEF TypeOK, RestOK, JobsOK, WellFormed

LEMMA StoreRefType ==
    ASSUME TypeOK, NEW w \in Worker, StoreRef(w)
    PROVE  /\ TypeOK'
           /\ job'[w].pc = "call"
           /\ job'[w].mem.ref \in Ref
           /\ job'[w].mem.status = job[w].mem.status
           /\ \/ row' = job'[w].mem
              \/ row' = row /\ Spend("db")
<1> DEFINE mem == WithRef(job[w])
<1>1. job[w] \in Job /\ job \in [Worker -> Job]
  BY TypeParts DEF JobsOK
<1>2. job[w].suffix \in Ref
  BY DEF StoreRef
<1>3. mem \in Trx /\ mem.ref = job[w].suffix /\ mem.status = job[w].mem.status
  BY <1>1, <1>2 DEF WithRef, Job, Trx
<1>4. PICK s \in job[w].todo :
        Become(w, [job[w] EXCEPT !.pc = "call", !.mem = mem, !.sku = s])
  BY DEF StoreRef
<1>5. s \in Sku
  BY <1>1, <1>4 DEF Job
<1>6. \/ row' = mem /\ UNCHANGED used
      \/ Spend("db") /\ UNCHANGED row
  BY DEF StoreRef
<1> DEFINE k == [job[w] EXCEPT !.pc = "call", !.mem = mem, !.sku = s]
<1> HIDE DEF mem
<1>7. k \in Job
  BY <1>1, <1>3, <1>5 DEF Job
<1>8. k.pc = "call" /\ k.mem = mem /\ k.sku = s
  BY <1>1 DEF Job
<1>9. Become(w, k)
  BY <1>4
<1> HIDE DEF k
<1>10. s # None /\ mem.ref # None
  BY <1>2, <1>3, <1>5, ConstAssumption DEF Sku, Ref
<1>11. WellFormed(k)
  BY <1>7, <1>8, <1>10 DEF WellFormed
<1>12. JobsOK' /\ job'[w] = k
  BY <1>9, <1>11, BecomeType, TypeParts
<1>13. used' \in [FaultKind -> Nat]
  BY <1>6, SpendType, FaultKinds, TypeParts DEF RestOK
<1>14. RestOK'
  BY <1>3, <1>6, <1>13, TypeParts DEF StoreRef, RestOK, external
<1>15. TypeOK'
  BY <1>12, <1>14, TypeParts DEF TypeOK, RestOK, JobsOK, WellFormed
<1> QED
  BY <1>2, <1>3, <1>6, <1>8, <1>12, <1>15

LEMMA AnswerType ==
    ASSUME JobsOK, NEW w \in Worker, job[w].pc = "call",
           NEW ans \in Outcome \cup {"dup", "neterr"}, Answer(w, ans)
    PROVE  /\ JobsOK'
           /\ job'[w].pc = "log" /\ job'[w].ans = ans
           /\ job'[w].mem = job[w].mem
           /\ \A v \in Worker \ {w} : job'[v] = job[v]
<1> DEFINE k == [job[w] EXCEPT !.pc = "log", !.ans = ans]
<1>1. WellFormed(job[w])
  BY DEF JobsOK
<1>2. k \in Job
  BY <1>1 DEF WellFormed, Job
<1>3. k.pc = "log" /\ k.ans = ans /\ k.mem = job[w].mem /\ k.sku = job[w].sku
  BY <1>1 DEF WellFormed, Job
<1>4. Become(w, k)
  BY DEF Answer
<1> HIDE DEF k
<1>5. WellFormed(k)
  BY <1>1, <1>2, <1>3 DEF WellFormed
<1> QED
  BY <1>3, <1>4, <1>5, BecomeType

\* A call names a SKU and a ref_id.
LEMMA CallType ==
    ASSUME TypeOK, NEW w \in Worker, job[w].pc = "call"
    PROVE  job[w].sku \in Sku /\ job[w].mem.ref \in Ref
BY TypeParts DEF JobsOK, WellFormed, Job, Trx

LEMMA CallAnsweredType ==
    ASSUME TypeOK, NEW w \in Worker, CallAnswered(w)
    PROVE  /\ TypeOK'
           /\ job'[w].pc = "log" /\ job'[w].mem = job[w].mem
           /\ \/ /\ digi[job[w].mem.ref] = "none"
                 /\ digi'[job[w].mem.ref] = job'[w].ans
                 /\ \A q \in Ref \ {job[w].mem.ref} : digi'[q] = digi[q]
              \/ /\ digi' = digi /\ digi[job[w].mem.ref] # "none"
                 /\ job'[w].ans \in {digi[job[w].mem.ref], "dup"}
<1> DEFINE r == job[w].mem.ref
           s == job[w].sku
<1>1. job[w].pc = "call"
  BY DEF CallAnswered
<1>2. r \in Ref /\ s \in Sku
  BY <1>1, CallType
<1>3. CASE \E o \in Outcome :
             /\ Submit(r, s, o)
             /\ IF o = "wait" THEN Spend("wait") ELSE UNCHANGED used
             /\ Answer(w, o)
  <2>1. PICK o \in Outcome :
             /\ Submit(r, s, o)
             /\ IF o = "wait" THEN Spend("wait") ELSE UNCHANGED used
             /\ Answer(w, o)
    BY <1>3
  <2> HIDE DEF r, s
  <2>2. JobsOK' /\ job'[w].pc = "log" /\ job'[w].mem = job[w].mem /\ job'[w].ans = o
    BY <1>1, <2>1, AnswerType, TypeParts
  <2>3. used' \in [FaultKind -> Nat]
    BY <2>1, SpendType, FaultKinds, TypeParts DEF RestOK
  <2>4. RestOK'
    BY <1>2, <2>1, <2>3, SubmitType, TypeParts DEF RestOK, CallAnswered
  <2>5. digi[r] = "none" /\ digi'[r] = o /\ \A q \in Ref \ {r} : digi'[q] = digi[q]
    BY <1>2, <2>1, SubmitType, TypeParts DEF Submit
  <2>6. TypeOK'
    BY <2>2, <2>4, TypeParts DEF TypeOK, RestOK, JobsOK, WellFormed
  <2> QED
    BY <2>2, <2>5, <2>6 DEF r
<1>4. CASE /\ digi[r] # "none"
           /\ Answer(w, IF digiSku[r] = s THEN digi[r] ELSE "dup")
           /\ UNCHANGED <<digi, digiSku, used>>
  <2> DEFINE ans == IF digiSku[r] = s THEN digi[r] ELSE "dup"
  <2>1. ans \in Outcome \cup {"dup", "neterr"}
    BY <1>2, <1>4, TypeParts DEF RestOK
  <2>2. Answer(w, ans)
    BY <1>4
  <2> HIDE DEF r, s, ans
  <2>3. JobsOK' /\ job'[w].pc = "log" /\ job'[w].mem = job[w].mem /\ job'[w].ans = ans
    BY <1>1, <2>1, <2>2, AnswerType, TypeParts
  <2>4. RestOK'
    BY <1>4, TypeParts DEF RestOK, CallAnswered
  <2>5. TypeOK'
    BY <2>3, <2>4, TypeParts DEF TypeOK, RestOK, JobsOK, WellFormed
  <2> QED
    BY <1>4, <2>3, <2>5 DEF r, ans
<1> QED
  BY <1>3, <1>4 DEF CallAnswered

LEMMA CallLostType ==
    ASSUME TypeOK, NEW w \in Worker, CallLost(w)
    PROVE  /\ TypeOK'
           /\ job'[w].pc = "log" /\ job'[w].mem = job[w].mem /\ job'[w].ans = "neterr"
<1> DEFINE r == job[w].mem.ref
           s == job[w].sku
<1>1. job[w].pc = "call" /\ Answer(w, "neterr") /\ Spend("net")
  BY DEF CallLost
<1>2. r \in Ref /\ s \in Sku
  BY <1>1, CallType
<1>3. \/ \E o \in Outcome : Submit(r, s, o)
      \/ UNCHANGED <<digi, digiSku>>
  BY DEF CallLost
<1> HIDE DEF r, s
<1>4. /\ JobsOK'
      /\ job'[w].pc = "log" /\ job'[w].mem = job[w].mem /\ job'[w].ans = "neterr"
  BY <1>1, AnswerType, TypeParts
<1>5. used' \in [FaultKind -> Nat]
  BY <1>1, SpendType, FaultKinds, TypeParts DEF RestOK
<1>6. digi' \in [Ref -> Outcome \cup {"none"}] /\ digiSku' \in [Ref -> Sku \cup {None}]
  BY <1>2, <1>3, SubmitType, TypeParts DEF RestOK
<1>7. RestOK'
  BY <1>5, <1>6, TypeParts DEF RestOK, CallLost
<1>8. TypeOK'
  BY <1>4, <1>7, TypeParts DEF TypeOK, RestOK, JobsOK, WellFormed
<1> QED
  BY <1>4, <1>8

LEMMA HandleAnswerType ==
    ASSUME TypeOK, NEW w \in Worker, HandleAnswer(w)
    PROVE  /\ TypeOK'
           /\ job'[w] \in NextJob(job[w])
<1>1. PICK k \in NextJob(job[w]) : Become(w, k)
  BY DEF HandleAnswer
<1>2. WellFormed(job[w])
  BY TypeParts DEF JobsOK
<1>3. WellFormed(k)
  BY <1>2, NextJobType DEF WellFormed
<1>4. JobsOK' /\ job'[w] = k
  BY <1>1, <1>3, BecomeType, TypeParts
<1>5. job[w].sku \in Sku
  BY <1>2 DEF HandleAnswer, WellFormed, Job
<1>6. RestOK'
  BY <1>5, TypeParts DEF HandleAnswer, RestOK, external
<1> QED
  BY <1>1, <1>4, <1>6, TypeParts DEF TypeOK, RestOK, JobsOK, WellFormed

LEMMA PersistType ==
    ASSUME TypeOK, NEW w \in Worker, Persist(w)
    PROVE  /\ TypeOK'
           /\ \/ /\ row' = job[w].mem
                 /\ job[w].mem.status \in FinalStatus
                 /\ job'[w].pc = "notify" /\ job'[w].mem = job[w].mem
              \/ /\ row' = job[w].mem
                 /\ job[w].mem.status \notin FinalStatus
                 /\ job'[w] = Idle
              \/ /\ Spend("db") /\ row' = row
                 /\ job'[w] = Idle
<1> DEFINE notify == [job[w] EXCEPT !.pc = "notify"]
<1>1. WellFormed(job[w]) /\ WellFormed(Idle)
  BY TypeParts, IdleType DEF JobsOK, WellFormed, Idle
<1>2. notify \in Job /\ notify.pc = "notify" /\ notify.mem = job[w].mem
  BY <1>1 DEF WellFormed, Job
<1> HIDE DEF notify
<1>3. job[w].mem \in Trx
  BY <1>1 DEF WellFormed, Job
<1>4. CASE /\ row' = job[w].mem /\ UNCHANGED used
           /\ Become(w, notify) /\ job[w].mem.status \in FinalStatus
  <2>1. JobsOK' /\ job'[w] = notify
    BY <1>2, <1>4, BecomeType, TypeParts DEF WellFormed
  <2>2. RestOK'
    BY <1>3, <1>4, TypeParts DEF Persist, RestOK, external
  <2>3. TypeOK'
    BY <2>1, <2>2, TypeParts DEF TypeOK, RestOK, JobsOK, WellFormed
  <2> QED
    BY <1>2, <1>4, <2>1, <2>3
<1>5. CASE /\ row' = job[w].mem /\ UNCHANGED used
           /\ Become(w, Idle) /\ job[w].mem.status \notin FinalStatus
  <2>1. JobsOK' /\ job'[w] = Idle
    BY <1>1, <1>5, BecomeType, TypeParts
  <2>2. RestOK'
    BY <1>3, <1>5, TypeParts DEF Persist, RestOK, external
  <2>3. TypeOK'
    BY <2>1, <2>2, TypeParts DEF TypeOK, RestOK, JobsOK, WellFormed
  <2> QED
    BY <1>5, <2>1, <2>3
<1>6. CASE Spend("db") /\ Become(w, Idle) /\ UNCHANGED row
  <2>1. JobsOK' /\ job'[w] = Idle
    BY <1>1, <1>6, BecomeType, TypeParts
  <2>2. RestOK'
    BY <1>6, SpendType, FaultKinds, TypeParts DEF Persist, RestOK, external
  <2>3. TypeOK'
    BY <2>1, <2>2, TypeParts DEF TypeOK, RestOK, JobsOK, WellFormed
  <2> QED
    BY <1>6, <2>1, <2>3
<1> QED
  BY <1>4, <1>5, <1>6 DEF Persist, notify

LEMMA NotifyType ==
    ASSUME TypeOK, NEW w \in Worker, Notify(w)
    PROVE  /\ TypeOK'
           /\ job'[w] = Idle
           /\ row'.ref \in {row.ref, job[w].mem.ref}
           /\ \/ row' = row
              \/ row'.ref = job[w].mem.ref /\ row'.status = job[w].mem.status
<1> DEFINE mem == [job[w].mem EXCEPT !.sent = TRUE]
<1>1. WellFormed(job[w]) /\ WellFormed(Idle)
  BY TypeParts, IdleType DEF JobsOK, WellFormed, Idle
<1>2. /\ mem \in Trx /\ mem.ref = job[w].mem.ref
      /\ mem.status = job[w].mem.status /\ mem.status \in FinalStatus
  BY <1>1 DEF WellFormed, Job, Trx, Notify
<1>3. /\ \/ row' = mem
         \/ row' = row
      /\ \/ told' = told \cup {mem.status}
         \/ told' = told
      /\ \/ used' = used
         \/ Spend("db")
  BY DEF Notify
<1>4. JobsOK' /\ job'[w] = Idle
  BY <1>1, BecomeType, TypeParts DEF Notify
<1> HIDE DEF mem
<1>5. used' \in [FaultKind -> Nat]
  BY <1>3, SpendType, FaultKinds, TypeParts DEF RestOK
<1>6. RestOK'
  BY <1>2, <1>3, <1>5, TypeParts DEF Notify, RestOK, external
<1>7. TypeOK'
  BY <1>4, <1>6, TypeParts DEF TypeOK, RestOK, JobsOK, WellFormed
<1> QED
  BY <1>2, <1>3, <1>4, <1>7

LEMMA CrashType ==
    ASSUME TypeOK, NEW w \in Worker, Crash(w) \/ Abandon(w)
    PROVE  TypeOK' /\ job'[w] = Idle
<1>1. WellFormed(Idle)
  BY IdleType DEF WellFormed, Idle
<1>2. JobsOK' /\ job'[w] = Idle
  BY <1>1, BecomeType, TypeParts DEF Crash, Abandon
<1>3. RestOK'
  BY SpendType, FaultKinds, TypeParts DEF Crash, Abandon, RestOK, external
<1> QED
  BY <1>2, <1>3, TypeParts DEF TypeOK, RestOK, JobsOK, WellFormed

LEMMA ResolveType ==
    ASSUME TypeOK, NEW r \in Ref, Resolve(r)
    PROVE  TypeOK'
<1>1. JobsOK'
  BY TypeParts DEF Resolve, JobsOK, WellFormed
<1>2. digi' \in [Ref -> Outcome \cup {"none"}] /\ cbs' \in [Ref -> Nat]
  BY TypeParts DEF Resolve, RestOK
<1>3. \/ used' = used
      \/ Spend("dup")
  BY DEF Resolve
<1>4. used' \in [FaultKind -> Nat]
  BY <1>3, SpendType, FaultKinds, TypeParts DEF RestOK
<1>5. RestOK'
  BY <1>2, <1>4, TypeParts DEF Resolve, RestOK
<1> QED
  BY <1>1, <1>5, TypeParts DEF TypeOK, RestOK, JobsOK, WellFormed

LEMMA NextType == TypeOK /\ [Next]_vars => TypeOK'
<1> SUFFICES ASSUME TypeOK, [Next]_vars PROVE TypeOK'
  OBVIOUS
<1>1. CASE UNCHANGED vars
  BY <1>1 DEF vars, TypeOK
<1>2. CASE Next
  BY <1>2, CreateTrxType, ManualRetryType, ReceiveCallbackType, PlanType, ExhaustType,
     StoreRefType, CallAnsweredType, CallLostType, HandleAnswerType, PersistType,
     NotifyType, CrashType, ResolveType DEF Next, WorkerStep
<1> QED
  BY <1>1, <1>2

\* Every copy of the row, every record of a goroutine and every counter stays
\* within its type, whatever the faults; a call always names a SKU and a ref_id
\* and only a final status is sent to the client.
THEOREM TypeCorrect == Spec => []TypeOK
BY InitType, NextType, PTL DEF Spec

-----------------------------------------------------------------------------
(***************************************************************************)
(* A reported success was bought, whatever the faults.                     *)
(***************************************************************************)

\* An action of one goroutine leaves the others alone.
GoroutineStep(w) ==
    \/ CreateTrx(w) \/ ManualRetry(w) \/ \E r \in Ref : ReceiveCallback(w, r)
    \/ WorkerStep(w) \/ CallLost(w) \/ Abandon(w) \/ Crash(w)

LEMMA NextSteps ==
    Next <=> (\E w \in Worker : GoroutineStep(w)) \/ (\E r \in Ref : Resolve(r))
BY DEF Next, GoroutineStep

LEMMA OthersUnchanged ==
    ASSUME TypeOK, NEW w \in Worker, GoroutineStep(w)
    PROVE  \A v \in Worker \ {w} : job'[v] = job[v]
<1>1. \A k : Become(w, k) => \A v \in Worker \ {w} : job'[v] = job[v]
  BY DEF Become, TypeOK
<1>2. \E k : Become(w, k)
  <2>1. CASE CreateTrx(w)
    BY <2>1 DEF CreateTrx
  <2>2. CASE ManualRetry(w)
    BY <2>2 DEF ManualRetry
  <2>3. CASE \E r \in Ref : ReceiveCallback(w, r)
    BY <2>3 DEF ReceiveCallback
  <2>4. CASE Plan(w)
    BY <2>4 DEF Plan
  <2>5. CASE Exhaust(w)
    BY <2>5 DEF Exhaust
  <2>6. CASE StoreRef(w)
    BY <2>6 DEF StoreRef
  <2>7. CASE CallAnswered(w)
    BY <2>7 DEF CallAnswered, Answer
  <2>8. CASE HandleAnswer(w)
    BY <2>8 DEF HandleAnswer
  <2>9. CASE Persist(w)
    BY <2>9 DEF Persist
  <2>10. CASE Notify(w)
    BY <2>10 DEF Notify
  <2>11. CASE CallLost(w)
    BY <2>11 DEF CallLost, Answer
  <2>12. CASE Crash(w)
    BY <2>12 DEF Crash
  <2>13. CASE Abandon(w)
    BY <2>13 DEF Abandon
  <2> QED
    BY <2>1, <2>2, <2>3, <2>4, <2>5, <2>6, <2>7, <2>8, <2>9, <2>10, <2>11, <2>12, <2>13
       DEF GoroutineStep, WorkerStep
<1> QED
  BY <1>1, <1>2

\* What Digiflazz has completed stays complete.
LEMMA ChargedGrows ==
    ASSUME TypeOK, Next
    PROVE  Charged \subseteq Charged'
<1>1. \A r \in Ref : \A s, o : Submit(r, s, o) => Charged \subseteq Charged'
  BY DEF Submit, Charged, TypeOK
<1>2. \A r \in Ref : Resolve(r) => Charged \subseteq Charged'
  BY DEF Resolve, Charged, TypeOK
<1>3. \A w \in Worker : CallAnswered(w) => Charged \subseteq Charged'
  <2> SUFFICES ASSUME NEW w \in Worker, CallAnswered(w) PROVE Charged \subseteq Charged'
    OBVIOUS
  <2>1. job[w].mem.ref \in Ref
    BY CallType DEF CallAnswered
  <2> QED
    BY <1>1, <2>1 DEF CallAnswered, Charged
<1>4. \A w \in Worker : CallLost(w) => Charged \subseteq Charged'
  <2> SUFFICES ASSUME NEW w \in Worker, CallLost(w) PROVE Charged \subseteq Charged'
    OBVIOUS
  <2>1. job[w].mem.ref \in Ref
    BY CallType DEF CallLost
  <2> QED
    BY <1>1, <2>1 DEF CallLost, Charged
<1>5. \/ UNCHANGED digi
      \/ \E w \in Worker : CallAnswered(w) \/ CallLost(w)
      \/ \E r \in Ref : Resolve(r)
  BY DEF Next, WorkerStep, CreateTrx, ManualRetry, ReceiveCallback, Plan, Exhaust,
         StoreRef, HandleAnswer, Persist, Notify, Crash, Abandon, external
<1> QED
  BY <1>2, <1>3, <1>4, <1>5 DEF Charged

\* The inductive invariant: whoever is about to write or announce Success has
\* read it in an answer or a callback of Digiflazz.
Believes(k) ==
    \/ k.pc = "log" /\ k.ans = "success"
    \/ k.pc # "idle" /\ k.mem.status = "Success"

TruthInv ==
    /\ TypeOK
    /\ SuccessMeansCharged
    /\ \A w \in Worker : Believes(job[w]) => Charged # {}

LEMMA IdleBelieves == ~Believes(Idle)
BY DEF Believes, Idle

\* It is kept by a step that makes nobody believe and writes no Success
\* without a purchase.
LEMMA TruthStep ==
    ASSUME TruthInv, NEW w \in Worker, GoroutineStep(w),
           Believes(job'[w]) => Charged' # {},
           row'.status = "Success" => Charged' # {},
           "Success" \in told' => Charged' # {}
    PROVE  TruthInv'
<1>1. TypeOK'
  BY NextType, NextSteps DEF TruthInv
<1>2. Charged \subseteq Charged'
  BY ChargedGrows, NextSteps DEF TruthInv
<1>3. \A v \in Worker \ {w} : job'[v] = job[v]
  BY OthersUnchanged DEF TruthInv
<1>4. \A v \in Worker : Believes(job'[v]) => Charged' # {}
  BY <1>2, <1>3 DEF TruthInv
<1>5. SuccessMeansCharged'
  BY DEF SuccessMeansCharged
<1> QED
  BY <1>1, <1>4, <1>5 DEF TruthInv

LEMMA TruthNext == TruthInv /\ [Next]_vars => TruthInv'
<1> SUFFICES ASSUME TruthInv, [Next]_vars PROVE TruthInv'
  OBVIOUS
<1> USE DEF TruthInv, SuccessMeansCharged
<1>1. CASE UNCHANGED vars
  <2>1. TypeOK'
    BY <1>1, NextType
  <2> QED
    BY <1>1, <2>1 DEF vars, Charged
<1>2. ASSUME NEW w \in Worker, GoroutineStep(w) PROVE TruthInv'
  <2>0. /\ TypeOK /\ WellFormed(job[w])
        /\ Charged \subseteq Charged'
        /\ Believes(job[w]) => Charged # {}
    BY <1>2, TypeParts, ChargedGrows, NextSteps DEF JobsOK
  <2>1. CASE CreateTrx(w)
    <3>1. ~Believes(job'[w]) /\ row'.status # "Success" /\ told' = told
      BY <2>0, <2>1, CreateTrxType DEF Believes, CreateTrx
    <3> QED
      BY <1>2, <2>0, <3>1, TruthStep
  <2>2. CASE ManualRetry(w)
    <3>1. ~Believes(job'[w]) /\ row' = row /\ told' = told
      BY <2>0, <2>2, ManualRetryType DEF Believes, ManualRetry
    <3> QED
      BY <1>2, <2>0, <3>1, TruthStep
  <2>3. ASSUME NEW r \in Ref, ReceiveCallback(w, r) PROVE TruthInv'
    <3>1. job'[w] = AfterCallback(row, digi[r]) /\ row' = row /\ told' = told
      BY <2>0, <2>3, ReceiveCallbackType DEF ReceiveCallback
    <3>2. row \in Trx
      BY <2>0, TypeParts DEF RestOK
    <3>3. Believes(job'[w]) => digi[r] = "success"
      BY <3>1, <3>2, AfterCallbackType DEF Believes, FinalStatus
    <3>4. Believes(job'[w]) => Charged' # {}
      BY <2>0, <3>3 DEF Charged
    <3> QED
      BY <1>2, <2>0, <3>1, <3>4, TruthStep
  <2>4. CASE Plan(w)
    <3>1. /\ Believes(job'[w]) => Believes(job[w])
          /\ row' = row /\ told' = told
      BY <2>0, <2>4, PlanType DEF Believes, Plan
    <3> QED
      BY <1>2, <2>0, <3>1, TruthStep
  <2>5. CASE Exhaust(w)
    <3>1. ~Believes(job'[w]) /\ row' = row /\ told' = told
      BY <2>0, <2>5, ExhaustType DEF Believes, Exhaust
    <3> QED
      BY <1>2, <2>0, <3>1, TruthStep
  <2>6. CASE StoreRef(w)
    <3>1. /\ Believes(job'[w]) => Believes(job[w])
          /\ \/ row' = job'[w].mem
             \/ row' = row
          /\ row' = job'[w].mem => (row'.status = "Success" => Believes(job[w]))
          /\ told' = told
      BY <2>0, <2>6, StoreRefType DEF Believes, StoreRef
    <3> QED
      BY <1>2, <2>0, <3>1, TruthStep
  <2>7. CASE CallAnswered(w)
    <3>1. job[w].mem.ref \in Ref /\ job[w].pc = "call"
      BY <2>0, <2>7, CallType DEF CallAnswered
    <3>2. job'[w].ans = "success" => digi'[job[w].mem.ref] = "success"
      BY <2>0, <2>7, CallAnsweredType
    <3>3. /\ Believes(job'[w]) => Believes(job[w]) \/ job'[w].ans = "success"
          /\ row' = row /\ told' = told
      BY <2>0, <2>7, <3>1, CallAnsweredType DEF Believes, CallAnswered
    <3>4. Believes(job'[w]) => Charged' # {}
      BY <2>0, <3>1, <3>2, <3>3 DEF Charged
    <3> QED
      BY <1>2, <2>0, <3>3, <3>4, TruthStep
  <2>8. CASE HandleAnswer(w)
    <3>1. /\ job'[w] \in NextJob(job[w]) /\ job[w].pc = "log" /\ job[w] \in Job
          /\ row' = row /\ told' = told
      BY <2>0, <2>8, HandleAnswerType DEF HandleAnswer, external, WellFormed
    <3>2. Believes(job'[w]) => Believes(job[w])
      BY <3>1, NextJobType DEF Believes
    <3> QED
      BY <1>2, <2>0, <3>1, <3>2, TruthStep
  <2>9. CASE Persist(w)
    <3>1. /\ Believes(job'[w]) => Believes(job[w])
          /\ row'.status = "Success" => row.status = "Success" \/ Believes(job[w])
          /\ told' = told
      BY <2>0, <2>9, PersistType, IdleBelieves DEF Believes, Persist
    <3> QED
      BY <1>2, <2>0, <3>1, TruthStep
  <2>10. CASE Notify(w)
    <3>1. /\ ~Believes(job'[w])
          /\ row'.status = "Success" => row.status = "Success" \/ Believes(job[w])
      BY <2>0, <2>10, NotifyType, IdleBelieves DEF Believes, Notify
    <3>2. job[w].mem \in Trx
      BY <2>0 DEF WellFormed, Job
    <3>3. [job[w].mem EXCEPT !.sent = TRUE].status = job[w].mem.status
      BY <3>2 DEF Trx
    <3>4. "Success" \in told' => "Success" \in told \/ Believes(job[w])
      BY <2>10, <3>3 DEF Believes, Notify
    <3> QED
      BY <1>2, <2>0, <3>1, <3>4, TruthStep
  <2>11. CASE CallLost(w)
    <3>1. /\ Believes(job'[w]) => Believes(job[w])
          /\ row' = row /\ told' = told
      BY <2>0, <2>11, CallLostType DEF Believes, CallLost
    <3> QED
      BY <1>2, <2>0, <3>1, TruthStep
  <2>12. CASE Crash(w) \/ Abandon(w)
    <3>1. ~Believes(job'[w]) /\ row' = row /\ told' = told
      BY <2>0, <2>12, CrashType, IdleBelieves DEF Crash, Abandon
    <3> QED
      BY <1>2, <2>0, <3>1, TruthStep
  <2> QED
    BY <1>2, <2>1, <2>2, <2>3, <2>4, <2>5, <2>6, <2>7, <2>8, <2>9, <2>10, <2>11, <2>12
       DEF GoroutineStep, WorkerStep
<1>3. ASSUME NEW r \in Ref, Resolve(r) PROVE TruthInv'
  <2>1. TypeOK' /\ Charged \subseteq Charged'
    BY <1>3, ResolveType, ChargedGrows, NextSteps
  <2> QED
    BY <1>3, <2>1 DEF Resolve
<1> QED
  BY <1>1, <1>2, <1>3, NextSteps

\* Whatever is lost, repeated, overtaken or interrupted, the row says Success,
\* and the client hears Success, only of a purchase Digiflazz completed.
THEOREM SuccessIsCharged == Spec => []SuccessMeansCharged
<1>1. Init => TruthInv
  BY InitType DEF Init, TruthInv, SuccessMeansCharged, Believes, NoTrx, Idle
<1>2. TruthInv => SuccessMeansCharged
  BY DEF TruthInv
<1> QED
  BY <1>1, <1>2, TruthNext, PTL DEF Spec

-----------------------------------------------------------------------------
(***************************************************************************)
(* The token is never copied while the link is reliable.                   *)
(***************************************************************************)

LEMMA ReliableBudget ==
    ASSUME Reliable, used \in [FaultKind -> Nat]
    PROVE  ~Spend("net") /\ ~Spend("dup") /\ ~Spend("db")
BY DEF Reliable, Spend, FaultKind

\* The parts of the invariant that speak of the token.
Token == OneHolder /\ FailureIsSettled /\ CallbacksAreSettled

LEMMA IdleFacts == Idle.pc = "idle"
BY DEF Idle

\* A step of a goroutine that asks Digiflazz for nothing, does not acquire the
\* token, and reports a failure only if one was reported or by giving the
\* token up.
LEMMA QuietStep ==
    ASSUME TypeOK, Token, NEW w \in Worker, GoroutineStep(w),
           UNCHANGED <<digi, cbs>>,
           Holds(w)' => Holds(w),
           row'.status = "Failed" \/ ReportsFailure(w)' =>
               \/ row.status = "Failed" \/ ReportsFailure(w)
               \/ Holds(w) /\ ~Holds(w)'
    PROVE  Token'
<1>1. \A v \in Worker \ {w} : job'[v] = job[v]
  BY OthersUnchanged
<1>2. \A v \in Worker : Holds(v)' => Holds(v)
  BY <1>1 DEF Holds
<1>3. \A r \in Ref : Live(r)' <=> Live(r)
  BY DEF Live
<1>4. OneHolder'
  BY <1>2, <1>3 DEF Token, OneHolder
<1>5. CallbacksAreSettled'
  BY DEF Token, CallbacksAreSettled
<1>6. \A v \in Worker \ {w} : ReportsFailure(v)' <=> ReportsFailure(v)
  BY <1>1 DEF ReportsFailure
<1>7. ASSUME row'.status = "Failed" \/ \E v \in Worker : ReportsFailure(v)'
      PROVE  /\ \A v \in Worker : ~Holds(v)'
             /\ \A r \in Ref : ~Live(r)'
  <2>1. CASE row.status = "Failed" \/ \E v \in Worker : ReportsFailure(v)
    BY <1>2, <1>3, <2>1 DEF Token, FailureIsSettled
  <2>2. CASE Holds(w) /\ ~Holds(w)'
    BY <1>2, <1>3, <2>2 DEF Token, OneHolder
  <2> QED
    BY <1>6, <1>7, <2>1, <2>2
<1>8. FailureIsSettled'
  BY <1>7 DEF FailureIsSettled
<1> QED
  BY <1>4, <1>5, <1>8 DEF Token

\* A step that creates or takes up the token where there is none.
LEMMA TakeUp ==
    ASSUME TypeOK, NEW w \in Worker, GoroutineStep(w),
           \A v \in Worker \ {w} : ~Holds(v) /\ ~ReportsFailure(v),
           ~ReportsFailure(w)', row'.status # "Failed",
           Holds(w)' => \A r \in Ref : ~Live(r)',
           \A q, r \in Ref : Live(q)' /\ Live(r)' => q = r,
           CallbacksAreSettled'
    PROVE  Token'
<1>1. \A v \in Worker \ {w} : job'[v] = job[v]
  BY OthersUnchanged
<1>2. \A v \in Worker \ {w} : ~Holds(v)' /\ ~ReportsFailure(v)'
  BY <1>1 DEF Holds, ReportsFailure
<1>3. OneHolder'
  BY <1>2 DEF OneHolder
<1>4. FailureIsSettled'
  BY <1>2 DEF FailureIsSettled
<1> QED
  BY <1>3, <1>4 DEF Token

\* The parts that speak of the copies of the row.
Copies == RowRecordsCalls /\ NothingBeforeCreate /\ WorkIsOpen

LEMMA TokenParts == TokenInv <=> TypeOK /\ Token /\ Copies
BY DEF TokenInv, Token, Copies

\* A step that leaves digi alone and keeps the record of w in agreement.
LEMMA CopiesStep ==
    ASSUME TypeOK, Copies, NEW w \in Worker, GoroutineStep(w), Active(w), digi' = digi,
           row'.ref = None <=> row.ref = None,
           row'.status # "none",
           Active(w)' => /\ job'[w].mem.ref = None <=> job[w].mem.ref = None
                         /\ job'[w].mem.ref = None => Holds(w)' \/ ReportsFailure(w)'
                         /\ job'[w].mem.status # "none"
                         /\ job'[w].pc \in {"plan", "store", "call", "log"} =>
                                job'[w].mem.status = "Processing"
    PROVE  Copies'
<1>1. \A v \in Worker \ {w} : job'[v] = job[v]
  BY OthersUnchanged
<1>2. \A v \in Worker \ {w} :
        /\ Holds(v)' <=> Holds(v)
        /\ ReportsFailure(v)' <=> ReportsFailure(v)
        /\ Active(v)' <=> Active(v)
  BY <1>1 DEF Holds, ReportsFailure, Active
<1>3. RowRecordsCalls'
  BY <1>1, <1>2 DEF Copies, RowRecordsCalls
<1>4. NothingBeforeCreate'
  BY DEF NothingBeforeCreate
<1>5. WorkIsOpen'
  BY <1>1, <1>2 DEF Copies, WorkIsOpen, Active
<1> QED
  BY <1>3, <1>4, <1>5 DEF Copies

\* The loop of tryAllSKUs, the UPDATE and the notification.
LEMMA LoopKeepsToken ==
    ASSUME Reliable, TokenInv, NEW w \in Worker, GoroutineStep(w),
           Plan(w) \/ Exhaust(w) \/ HandleAnswer(w)
    PROVE  TokenInv'
<1>0. TypeOK /\ Token /\ Copies /\ TypeOK' /\ WellFormed(job[w])
  BY TokenParts, TypeParts, NextType, NextSteps DEF JobsOK
<1>1. row' = row /\ digi' = digi /\ cbs' = cbs /\ Active(w)
  BY DEF Plan, Exhaust, HandleAnswer, external, Active
<1>2. job'[w].mem.ref = job[w].mem.ref
  BY <1>0, PlanType, ExhaustType, HandleAnswerType, NextJobType DEF WellFormed
<1>3. /\ Holds(w)' => Holds(w)
      /\ ~ReportsFailure(w)'
      /\ job[w].mem.ref = None => Holds(w)'
      /\ job'[w].mem.status # "none"
      /\ job'[w].pc = "store" => job'[w].mem.status = "Processing"
      /\ job'[w].pc \in {"store", "persist"}
  <2>1. CASE Plan(w)
    <3>1. job'[w].pc = "store" /\ job'[w].mem = job[w].mem /\ job[w].pc = "plan"
      BY <1>0, <2>1, PlanType DEF Plan
    <3> QED
      BY <1>0, <1>1, <3>1 DEF Holds, ReportsFailure, Copies, WorkIsOpen
  <2>2. CASE Exhaust(w)
    <3>1. job'[w].pc = "persist" /\ job'[w].mem.status = "Failed" /\ job[w].pc = "store"
      BY <1>0, <2>2, ExhaustType DEF Exhaust
    <3> QED
      BY <3>1 DEF Holds, ReportsFailure
  <2>3. CASE HandleAnswer(w)
    <3>1. /\ job[w].pc = "log" /\ job[w] \in Job /\ job'[w] \in NextJob(job[w])
          /\ job[w].mem.ref # None
      BY <1>0, <2>3, HandleAnswerType DEF HandleAnswer, WellFormed
    <3>2. /\ job'[w].pc \in {"store", "persist"}
          /\ job'[w].pc = "store" => job'[w].mem = job[w].mem
          /\ job'[w].pc = "persist" => job'[w].mem.status \in FinalStatus \cup {"Processing"}
          /\ (job[w].ans \in {"success", "pending"}) <=>
                 (job'[w].pc = "persist" /\ job'[w].mem.status # "Failed")
      BY <3>1, NextJobType
    <3>3. job[w].mem.status = "Processing"
      BY <1>0, <3>1 DEF Copies, WorkIsOpen
    <3> QED
      BY <3>1, <3>2, <3>3 DEF Holds, ReportsFailure, FinalStatus
  <2> QED
    BY <2>1, <2>2, <2>3
<1>4. Token'
  BY <1>0, <1>1, <1>3, QuietStep
<1>5. row.status # "none"
  BY <1>0, <1>1 DEF Copies, NothingBeforeCreate
<1>6. Copies'
  BY <1>0, <1>1, <1>2, <1>3, <1>5, CopiesStep
<1> QED
  BY <1>0, <1>4, <1>6, TokenParts DEF TokenInv, Token, Copies

LEMMA StoreRefKeepsToken ==
    ASSUME Reliable, TokenInv, NEW w \in Worker, GoroutineStep(w), StoreRef(w)
    PROVE  TokenInv'
<1>0. TypeOK /\ Token /\ Copies /\ TypeOK' /\ WellFormed(job[w])
  BY TokenParts, TypeParts, NextType, NextSteps DEF JobsOK
<1>1. /\ digi' = digi /\ cbs' = cbs /\ Active(w) /\ Holds(w)
      /\ job[w].pc = "store" /\ job[w].mem.status = "Processing"
  BY <1>0 DEF StoreRef, external, Active, Holds, Copies, WorkIsOpen
<1>2. /\ job'[w].pc = "call" /\ job'[w].mem.ref \in Ref
      /\ row' = job'[w].mem /\ row'.status = "Processing"
  BY <1>0, <1>1, StoreRefType, ReliableBudget, TypeParts DEF RestOK
<1>3. row'.ref # None
  BY <1>2, ConstAssumption DEF Ref
<1>4. Token'
  BY <1>0, <1>1, <1>2, QuietStep DEF Holds, ReportsFailure
<1>5. \A v \in Worker \ {w} : job'[v] = job[v]
  BY <1>0, OthersUnchanged
<1>6. \A v \in Worker \ {w} : ~Holds(v) /\ ~ReportsFailure(v)
  BY <1>0, <1>1 DEF Token, OneHolder, FailureIsSettled
<1>7. \A v \in Worker : Active(v)' => job'[v].mem.ref # None
  <2>1. \A v \in Worker \ {w} : Active(v) => job[v].mem.ref # None
    BY <1>0, <1>6 DEF Copies, RowRecordsCalls
  <2> QED
    BY <1>2, <1>3, <1>5, <2>1 DEF Active
<1>8. RowRecordsCalls'
  BY <1>3, <1>7 DEF RowRecordsCalls
<1>9. NothingBeforeCreate'
  BY <1>2 DEF NothingBeforeCreate
<1>10. WorkIsOpen'
  BY <1>0, <1>2, <1>5 DEF WorkIsOpen, Copies, Active
<1> QED
  BY <1>0, <1>4, <1>8, <1>9, <1>10, TokenParts DEF TokenInv, Token, Copies

LEMMA PersistKeepsToken ==
    ASSUME Reliable, TokenInv, NEW w \in Worker, GoroutineStep(w), Persist(w)
    PROVE  TokenInv'
<1>0. TypeOK /\ Token /\ Copies /\ TypeOK' /\ WellFormed(job[w])
  BY TokenParts, TypeParts, NextType, NextSteps DEF JobsOK
<1>1. digi' = digi /\ cbs' = cbs /\ Active(w) /\ job[w].pc = "persist"
  BY DEF Persist, external, Active
<1>2. /\ row' = job[w].mem
      /\ \/ /\ job'[w].pc = "notify" /\ job'[w].mem = job[w].mem
            /\ job[w].mem.status \in FinalStatus
         \/ /\ job'[w] = Idle /\ job[w].mem.status \notin FinalStatus
  BY <1>0, PersistType, ReliableBudget, TypeParts DEF RestOK
<1>3. /\ ~Holds(w)'
      /\ ReportsFailure(w)' => Holds(w)
      /\ row'.status = "Failed" => Holds(w)
      /\ Holds(w) => job[w].mem.status = "Failed"
  BY <1>1, <1>2, IdleFacts DEF Holds, ReportsFailure
<1>4. Token'
  BY <1>0, <1>1, <1>3, QuietStep
<1>5. /\ row'.ref = None <=> row.ref = None
      /\ row'.status # "none"
      /\ job[w].mem.ref = None => Holds(w)
  BY <1>0, <1>1, <1>2 DEF Copies, RowRecordsCalls, WorkIsOpen, ReportsFailure
<1>6. Active(w)' => /\ job'[w].mem = job[w].mem
                    /\ job'[w].pc = "notify"
                    /\ Holds(w) => ReportsFailure(w)'
  BY <1>2, <1>3, IdleFacts DEF Active, ReportsFailure
<1>7. Copies'
  BY <1>0, <1>1, <1>2, <1>5, <1>6, CopiesStep
<1> QED
  BY <1>0, <1>4, <1>7, TokenParts DEF TokenInv, Token, Copies

LEMMA EndKeepsToken ==
    ASSUME Reliable, TokenInv, NEW w \in Worker, GoroutineStep(w),
           Notify(w) \/ Crash(w) \/ Abandon(w)
    PROVE  TokenInv'
<1>0. TypeOK /\ Token /\ Copies /\ TypeOK' /\ WellFormed(job[w])
  BY TokenParts, TypeParts, NextType, NextSteps DEF JobsOK
<1>1. digi' = digi /\ cbs' = cbs /\ Active(w)
  BY DEF Notify, Crash, Abandon, external, Active
<1>2. /\ job'[w] = Idle
      /\ \/ row' = row
         \/ /\ Notify(w)
            /\ row'.ref = job[w].mem.ref /\ row'.status = job[w].mem.status
  BY <1>0, NotifyType, CrashType DEF Crash, Abandon
<1>3. ~Holds(w)' /\ ~ReportsFailure(w)' /\ ~Active(w)'
  BY <1>2, IdleFacts DEF Holds, ReportsFailure, Active
<1>4. row'.status = "Failed" => row.status = "Failed" \/ ReportsFailure(w)
  BY <1>2 DEF Notify, ReportsFailure
<1>5. Token'
  BY <1>0, <1>1, <1>3, <1>4, QuietStep
<1>6. /\ row'.ref = None <=> row.ref = None
      /\ row'.status # "none"
  BY <1>0, <1>1, <1>2 DEF Copies, RowRecordsCalls, WorkIsOpen, NothingBeforeCreate
<1>7. Copies'
  BY <1>0, <1>1, <1>3, <1>6, CopiesStep
<1> QED
  BY <1>0, <1>5, <1>7, TokenParts DEF TokenInv, Token, Copies

\* The handlers that begin: nobody holds the token before.
LEMMA BeginKeepsToken ==
    ASSUME Reliable, TokenInv, NEW w \in Worker, GoroutineStep(w),
           CreateTrx(w) \/ ManualRetry(w)
    PROVE  TokenInv'
<1>0. TypeOK /\ Token /\ Copies /\ TypeOK'
  BY TokenParts, NextType, NextSteps
<1>1. digi' = digi /\ cbs' = cbs
  BY DEF CreateTrx, ManualRetry, external
<1>2. /\ \A v \in Worker : ~Active(v)
      /\ row.ref = None
      /\ row'.status = "Processing" /\ row'.ref = None
      /\ job'[w].pc = "plan" /\ job'[w].mem = row'
  <2>1. CASE CreateTrx(w)
    <3>1. row.status = "none"
      BY <2>1 DEF CreateTrx
    <3> QED
      BY <1>0, <2>1, <3>1, CreateTrxType DEF Copies, NothingBeforeCreate
  <2>2. CASE ManualRetry(w)
    <3>1. /\ \A v \in Worker : ~Active(v)
          /\ row.status = "Processing" /\ row.ref = None /\ row' = row
      BY <2>2 DEF ManualRetry, Reliable, MayRetry
    <3> QED
      BY <1>0, <2>2, <3>1, ManualRetryType
  <2> QED
    BY <2>1, <2>2
<1>3. \A r \in Ref : digi[r] = "none"
  BY <1>0, <1>2 DEF Copies, RowRecordsCalls
<1>4. \A r \in Ref : ~Live(r)'
  <2>1. cbs \in [Ref -> Nat]
    BY <1>0, TypeParts DEF RestOK
  <2> QED
    BY <1>0, <1>1, <1>3, <2>1 DEF Live, Token, CallbacksAreSettled
<1>5. Token'
  <2>1. \A v \in Worker \ {w} : ~Holds(v) /\ ~ReportsFailure(v)
    BY <1>2 DEF Holds, ReportsFailure, Active
  <2>2. ~ReportsFailure(w)' /\ row'.status # "Failed"
    BY <1>2 DEF ReportsFailure
  <2>3. CallbacksAreSettled'
    BY <1>0, <1>1 DEF Token, CallbacksAreSettled
  <2> QED
    BY <1>0, <1>4, <2>1, <2>2, <2>3, TakeUp
<1>6. \A v \in Worker \ {w} : ~Active(v)'
  BY <1>0, <1>2, OthersUnchanged DEF Active
<1>7. Copies'
  <2>1. RowRecordsCalls'
    BY <1>1, <1>2, <1>3, <1>6 DEF RowRecordsCalls, Holds
  <2>2. NothingBeforeCreate' /\ WorkIsOpen'
    BY <1>2, <1>6 DEF NothingBeforeCreate, WorkIsOpen, Active
  <2> QED
    BY <2>1, <2>2 DEF Copies
<1> QED
  BY <1>0, <1>5, <1>7, TokenParts DEF TokenInv, Token, Copies

LEMMA ReceiveCallbackKeepsToken ==
    ASSUME Reliable, TokenInv, NEW w \in Worker, GoroutineStep(w),
           NEW r \in Ref, ReceiveCallback(w, r)
    PROVE  TokenInv'
<1>0. /\ TypeOK /\ Token /\ Copies /\ TypeOK'
      /\ row \in Trx /\ cbs \in [Ref -> Nat] /\ digi \in [Ref -> Outcome \cup {"none"}]
  BY TokenParts, NextType, NextSteps, TypeParts DEF RestOK
<1>1. /\ row' = row /\ digi' = digi /\ row.status # "none"
      /\ cbs[r] > 0 /\ ~Active(w)
      /\ cbs' = [cbs EXCEPT ![r] = @ - 1]
  BY DEF ReceiveCallback
<1>2. Live(r) /\ cbs[r] = 1 /\ digi[r] \notin {"none", "pending"}
  BY <1>0, <1>1 DEF Live, Token, CallbacksAreSettled
<1>3. cbs'[r] = 0 /\ \A q \in Ref \ {r} : cbs'[q] = cbs[q]
  BY <1>0, <1>1, <1>2
<1>4. /\ \A v \in Worker : ~Holds(v) /\ ~ReportsFailure(v)
      /\ row.status # "Failed"
      /\ \A q \in Ref \ {r} : ~Live(q)
  BY <1>0, <1>2 DEF Token, OneHolder, FailureIsSettled
<1>5. row.ref # None
  BY <1>0, <1>2 DEF Copies, RowRecordsCalls
<1> DEFINE k == AfterCallback(row, digi[r])
<1>7. /\ job'[w] = k
      /\ k.pc \in {"idle", "plan", "persist"}
      /\ k.pc # "idle" => k.mem.ref = row.ref
      /\ k.pc = "plan" => k.mem = row /\ row.status \notin FinalStatus
      /\ k.pc = "persist" => k.mem.status \in FinalStatus
      /\ digi[r] = "success" /\ k.pc = "persist" => k.mem.status = "Success"
      /\ digi[r] = "success" => k.pc # "plan"
  <2>1. job'[w] = k
    BY <1>0, ReceiveCallbackType
  <2>2. /\ k.pc \in {"idle", "plan", "persist"}
        /\ k.pc # "idle" => row.status \notin FinalStatus /\ k.mem.ref = row.ref
        /\ k.pc = "plan" => k.mem = row /\ digi[r] \in Retryable
        /\ k.pc = "persist" => k.mem.status \in FinalStatus
        /\ (k.pc = "persist" /\ k.mem.status = "Success") <=>
               (digi[r] = "success" /\ row.status \notin FinalStatus)
    BY <1>0, AfterCallbackType
  <2> HIDE DEF k
  <2> QED
    BY <2>1, <2>2 DEF Retryable
<1> HIDE DEF k
<1>8. \A q \in Ref \ {r} : ~Live(q)'
  BY <1>1, <1>3, <1>4 DEF Live
<1>9. Live(r)' => digi[r] = "success"
  BY <1>1, <1>2, <1>3 DEF Live
<1>10. Holds(w)' => digi[r] # "success"
  BY <1>7 DEF Holds
<1>11. Token'
  <2>1. \A q \in Ref : Holds(w)' => ~Live(q)'
    BY <1>8, <1>9, <1>10
  <2>2. \A p, q \in Ref : Live(p)' /\ Live(q)' => p = q
    BY <1>8
  <2>3. CallbacksAreSettled'
    BY <1>0, <1>1, <1>3 DEF Token, CallbacksAreSettled
  <2>4. ~ReportsFailure(w)' /\ row'.status # "Failed"
    BY <1>1, <1>4, <1>7 DEF ReportsFailure
  <2> QED
    BY <1>0, <1>4, <2>1, <2>2, <2>3, <2>4, TakeUp
<1>12. \A v \in Worker \ {w} : job'[v] = job[v]
  BY <1>0, OthersUnchanged
<1>13. Copies'
  <2>1. \A v \in Worker : Active(v)' => job'[v].mem.ref # None
    BY <1>0, <1>5, <1>7, <1>12 DEF Copies, RowRecordsCalls, Active
  <2>2. RowRecordsCalls'
    BY <1>1, <1>5, <2>1 DEF RowRecordsCalls
  <2>3. row.status \notin FinalStatus => row.status = "Processing"
    BY <1>0, <1>1 DEF Trx, Status
  <2>4. NothingBeforeCreate'
    BY <1>1 DEF NothingBeforeCreate
  <2>5. /\ Active(w)' => job'[w].mem.status # "none"
        /\ job'[w].pc \in {"plan", "store", "call", "log"} => job'[w].mem.status = "Processing"
    BY <1>7, <2>3 DEF Active, FinalStatus
  <2>6. WorkIsOpen'
    BY <1>0, <1>12, <2>5 DEF WorkIsOpen, Copies, Active
  <2> QED
    BY <2>2, <2>4, <2>6 DEF Copies
<1> QED
  BY <1>0, <1>11, <1>13, TokenParts DEF TokenInv, Token, Copies

\* The call: the token passes to the ref_id when the purchase is complete or
\* pending, and stays with the goroutine otherwise.
LEMMA CallAnsweredKeepsToken ==
    ASSUME Reliable, TokenInv, NEW w \in Worker, GoroutineStep(w), CallAnswered(w)
    PROVE  TokenInv'
<1> PICK c : c = job[w].mem.ref
  OBVIOUS
<1>0. /\ TypeOK /\ Token /\ Copies /\ TypeOK' /\ c \in Ref
      /\ row' = row /\ cbs' = cbs
      /\ cbs \in [Ref -> Nat] /\ digi \in [Ref -> Outcome \cup {"none"}]
  BY TokenParts, NextType, NextSteps, CallType, TypeParts DEF CallAnswered, RestOK
<1>1. /\ Holds(w) /\ Active(w) /\ job[w].mem.status = "Processing"
  BY <1>0 DEF CallAnswered, Holds, Active, Copies, WorkIsOpen
<1>2. /\ \A r \in Ref : ~Live(r)
      /\ \A v \in Worker \ {w} : ~Holds(v) /\ ~ReportsFailure(v)
      /\ row.status # "Failed"
  BY <1>0, <1>1 DEF Token, OneHolder, FailureIsSettled
<1>3. \A r \in Ref : cbs[r] = 0 /\ digi[r] \notin {"success", "pending"}
  BY <1>0, <1>2 DEF Live
<1>4. /\ job'[w].pc = "log" /\ job'[w].mem = job[w].mem
      /\ \A q \in Ref \ {c} : digi'[q] = digi[q]
      /\ digi'[c] = job'[w].ans \/ job'[w].ans \notin {"success", "pending"}
      /\ digi'[c] \in {"success", "pending"} => job'[w].ans = digi'[c]
  <2>1. \/ /\ digi'[c] = job'[w].ans
           /\ \A q \in Ref \ {c} : digi'[q] = digi[q]
        \/ /\ digi' = digi
           /\ job'[w].ans \in {digi[c], "dup"}
    BY <1>0, CallAnsweredType
  <2>2. job'[w].pc = "log" /\ job'[w].mem = job[w].mem
    BY <1>0, CallAnsweredType
  <2> QED
    BY <1>0, <1>3, <2>1, <2>2
<1>5. c # None /\ row.ref # None
  BY <1>0, <1>1, ConstAssumption DEF Copies, RowRecordsCalls, Ref
<1>6. \A q \in Ref \ {c} : ~Live(q)'
  BY <1>0, <1>2, <1>4 DEF Live
<1>7. Live(c)' => digi'[c] \in {"success", "pending"}
  BY <1>0, <1>3 DEF Live
<1>8. Token'
  <2>1. Holds(w)' => \A q \in Ref : ~Live(q)'
    BY <1>4, <1>6, <1>7 DEF Holds
  <2>2. \A p, q \in Ref : Live(p)' /\ Live(q)' => p = q
    BY <1>6
  <2>3. CallbacksAreSettled'
    BY <1>0, <1>3 DEF CallbacksAreSettled
  <2>4. ~ReportsFailure(w)' /\ row'.status # "Failed"
    BY <1>0, <1>2, <1>4 DEF ReportsFailure
  <2> QED
    BY <1>0, <1>2, <2>1, <2>2, <2>3, <2>4, TakeUp
<1>9. \A v \in Worker \ {w} : job'[v] = job[v]
  BY <1>0, OthersUnchanged
<1>10. Copies'
  <2>1. \A v \in Worker : Active(v)' => job'[v].mem.ref # None
    BY <1>0, <1>4, <1>5, <1>9 DEF Copies, RowRecordsCalls, Active
  <2>2. RowRecordsCalls'
    BY <1>0, <1>5, <2>1 DEF RowRecordsCalls
  <2>3. NothingBeforeCreate'
    BY <1>0, <1>1 DEF Copies, NothingBeforeCreate
  <2>4. WorkIsOpen'
    BY <1>0, <1>1, <1>4, <1>9 DEF WorkIsOpen, Copies, Active
  <2> QED
    BY <2>2, <2>3, <2>4 DEF Copies
<1> QED
  BY <1>0, <1>8, <1>10, TokenParts DEF TokenInv, Token, Copies

\* Digiflazz settles what is pending: the token stays with the ref_id, first
\* as the callback on its way.
LEMMA ResolveKeepsToken ==
    ASSUME Reliable, TokenInv, NEW r \in Ref, Resolve(r)
    PROVE  TokenInv'
<1>0. /\ TypeOK /\ Token /\ Copies /\ TypeOK'
      /\ cbs \in [Ref -> Nat] /\ digi \in [Ref -> Outcome \cup {"none"}]
      /\ used \in [FaultKind -> Nat]
  BY TokenParts, ResolveType, TypeParts DEF RestOK
<1>1. row' = row /\ job' = job /\ digi[r] = "pending"
  BY DEF Resolve
<1>2. cbs[r] = 0
  BY <1>0, <1>1 DEF Token, CallbacksAreSettled
<1>3. /\ cbs'[r] = 1 /\ \A q \in Ref \ {r} : cbs'[q] = cbs[q]
      /\ digi'[r] \notin {"none", "pending"}
      /\ \A q \in Ref \ {r} : digi'[q] = digi[q]
  <2>1. cbs' = [cbs EXCEPT ![r] = 1]
    BY <1>0, ReliableBudget DEF Resolve
  <2>2. PICK o \in Outcome \ {"pending", "wait"} : digi' = [digi EXCEPT ![r] = o]
    BY DEF Resolve
  <2>3. o # "none"
    BY ConstAssumption DEF Outcome, FailureClass
  <2> QED
    BY <1>0, <2>1, <2>2, <2>3
<1>4. \A q \in Ref : Live(q)' => Live(q)
  BY <1>1, <1>3 DEF Live
<1>5. /\ \A w \in Worker : Holds(w)' <=> Holds(w)
      /\ \A w \in Worker : ReportsFailure(w)' <=> ReportsFailure(w)
      /\ \A w \in Worker : Active(w)' <=> Active(w)
  BY <1>1, Zenon DEF Holds, ReportsFailure, Active
<1>6. OneHolder' /\ FailureIsSettled'
  BY <1>0, <1>1, <1>4, <1>5 DEF Token, OneHolder, FailureIsSettled
<1>7. CallbacksAreSettled'
  BY <1>0, <1>3 DEF Token, CallbacksAreSettled
<1>8. row.ref # None
  BY <1>0, <1>1 DEF Copies, RowRecordsCalls
<1>9. RowRecordsCalls' /\ NothingBeforeCreate' /\ WorkIsOpen'
  BY <1>0, <1>1, <1>5, <1>8 DEF Copies, RowRecordsCalls, NothingBeforeCreate, WorkIsOpen
<1> QED
  BY <1>0, <1>6, <1>7, <1>9, TokenParts DEF TokenInv

LEMMA TokenInit == Init => TokenInv
<1> SUFFICES ASSUME Init PROVE TokenInv
  OBVIOUS
<1>1. TypeOK
  BY InitType
<1>2. /\ \A w \in Worker : job[w].pc = "idle"
      /\ row.ref = None /\ row.status = "none"
      /\ \A r \in Ref : digi[r] = "none" /\ cbs[r] = 0
  BY IdleFacts DEF Init, NoTrx
<1>3. /\ \A w \in Worker : ~Holds(w) /\ ~ReportsFailure(w) /\ ~Active(w)
      /\ \A r \in Ref : ~Live(r)
  BY <1>2 DEF Holds, ReportsFailure, Active, Live
<1>4. Token
  BY <1>2, <1>3 DEF Token, OneHolder, FailureIsSettled, CallbacksAreSettled
<1>5. Copies
  BY <1>2, <1>3 DEF Copies, RowRecordsCalls, NothingBeforeCreate, WorkIsOpen, Active
<1> QED
  BY <1>1, <1>4, <1>5, TokenParts

LEMMA TokenNext == ASSUME Reliable PROVE TokenInv /\ [Next]_vars => TokenInv'
<1> SUFFICES ASSUME TokenInv, [Next]_vars PROVE TokenInv'
  OBVIOUS
<1>1. CASE UNCHANGED vars
  <2>1. TypeOK'
    BY <1>1, NextType DEF TokenInv
  <2> QED
    BY <1>1, <2>1 DEF vars, TokenInv, OneHolder, FailureIsSettled, RowRecordsCalls,
       CallbacksAreSettled, NothingBeforeCreate, WorkIsOpen, Holds, ReportsFailure,
       Live, Active
<1>2. ASSUME NEW w \in Worker, GoroutineStep(w) PROVE TokenInv'
  <2>1. ~CallLost(w)
    BY ReliableBudget DEF CallLost, TokenInv, TypeOK
  <2> QED
    BY <1>2, <2>1, BeginKeepsToken, ReceiveCallbackKeepsToken, LoopKeepsToken,
       StoreRefKeepsToken, CallAnsweredKeepsToken, PersistKeepsToken, EndKeepsToken
       DEF GoroutineStep, WorkerStep
<1>3. ASSUME NEW r \in Ref, Resolve(r) PROVE TokenInv'
  BY <1>3, ResolveKeepsToken
<1> QED
  BY <1>1, <1>2, <1>3, NextSteps

\* Over a reliable link the token is never copied.
THEOREM TokenCorrect == ASSUME Reliable PROVE Spec => []TokenInv
BY TokenInit, TokenNext, PTL DEF Spec

\* Over a reliable link the customer is charged at most once, however the
\* attempts, callbacks, manual retries and crashes interleave.
THEOREM ChargedOnce == ASSUME Reliable PROVE Spec => []NoDoublePurchase
<1>1. TokenInv => NoDoublePurchase
  BY DEF TokenInv, OneHolder, NoDoublePurchase, Charged, Live
<1> QED
  BY <1>1, TokenCorrect, PTL

\* Over a reliable link a transaction that says Failed has bought nothing.
THEOREM FailedIsNotCharged == ASSUME Reliable PROVE Spec => []FailedMeansNotCharged
<1>1. TokenInv => FailedMeansNotCharged
  BY DEF TokenInv, FailureIsSettled, FailedMeansNotCharged, Live
<1> QED
  BY <1>1, TokenCorrect, PTL

\* Over a reliable link a purchase is asked for under a new ref_id only when
\* the earlier ones have failed.
THEOREM NewRefIsSettled == ASSUME Reliable PROVE Spec => []NewRefOnlyWhenSettled
<1>1. TokenInv => NewRefOnlyWhenSettled
  BY DEF TokenInv, OneHolder, NewRefOnlyWhenSettled, Holds, Live
<1> QED
  BY <1>1, TokenCorrect, PTL

\* Over a reliable link what is pending at Digiflazz is recorded in the row.
THEOREM PendingInRow == ASSUME Reliable PROVE Spec => []PendingIsRecorded
<1>1. TokenInv => PendingIsRecorded
  BY DEF TokenInv, RowRecordsCalls, PendingIsRecorded
<1> QED
  BY <1>1, TokenCorrect, PTL

-----------------------------------------------------------------------------
(***************************************************************************)
(* Over a reliable link DigiTransaction implements PurchaseContract.       *)
(***************************************************************************)
Pending == {r \in Ref : digi[r] = "pending"}

\* Writing the row is a report.
LEMMA RowStep ==
    ASSUME TokenInv, TruthInv, TokenInv', TruthInv', NEW w \in Worker, GoroutineStep(w),
           digi' = digi
    PROVE  Contract!Next \/ UNCHANGED Contract!vars
<1>1. Pending' = Pending /\ Charged' = Charged
  BY DEF Pending, Charged
<1>2. CASE row'.status = row.status
  BY <1>1, <1>2 DEF Contract!vars, Pending
<1>3. CASE row'.status # row.status
  <2>1. row'.status # "none"
    <3>1. \/ CreateTrx(w) \/ StoreRef(w) \/ Persist(w) \/ Notify(w)
      BY <1>3 DEF GoroutineStep, WorkerStep, ManualRetry, ReceiveCallback, Plan, Exhaust,
                  CallAnswered, HandleAnswer, CallLost, Crash, Abandon
    <3>2. TypeOK /\ WorkIsOpen /\ WorkIsOpen'
      BY DEF TokenInv
    <3>3. CASE CreateTrx(w)
      BY <3>2, <3>3, CreateTrxType
    <3>4. CASE StoreRef(w)
      BY <1>3, <3>2, <3>4, StoreRefType DEF WorkIsOpen, Active
    <3>5. CASE Persist(w)
      BY <1>3, <3>2, <3>5, PersistType DEF WorkIsOpen, Active, Persist
    <3>6. CASE Notify(w)
      BY <1>3, <3>2, <3>6, NotifyType DEF WorkIsOpen, Active, Notify
    <3> QED
      BY <3>1, <3>3, <3>4, <3>5, <3>6
  <2>2. row'.status \in {"Processing", "Success", "Failed"}
    BY <2>1 DEF TokenInv, TypeOK, Trx, Status, FinalStatus
  <2>3. row'.status = "Success" => Charged # {}
    BY <1>1 DEF TruthInv, SuccessMeansCharged
  <2>4. row'.status = "Failed" => Pending = {} /\ Charged = {}
    <3>1. row'.status = "Failed" => \A r \in Ref : ~Live(r)'
      BY DEF TokenInv, FailureIsSettled
    <3> QED
      BY <3>1 DEF Live, Pending, Charged
  <2>5. Contract!Report(row'.status)
    BY <1>1, <2>3, <2>4 DEF Contract!Report, Pending
  <2> QED
    BY <2>2, <2>5 DEF Contract!Next
<1> QED
  BY <1>2, <1>3

\* A call buys, or changes nothing the client can see.
LEMMA CallStep ==
    ASSUME TokenInv, TruthInv, NEW w \in Worker, CallAnswered(w)
    PROVE  Contract!Next \/ UNCHANGED Contract!vars
<1> PICK c : c = job[w].mem.ref
  OBVIOUS
<1>1. c \in Ref /\ row' = row /\ Holds(w) /\ Active(w)
  BY CallType DEF CallAnswered, TokenInv, Holds, Active
<1>2. /\ \A r \in Ref : digi[r] \notin {"success", "pending"}
      /\ row.status # "Failed"
  BY <1>1 DEF TokenInv, OneHolder, FailureIsSettled, Live
<1>3. Pending = {} /\ Charged = {}
  BY <1>2 DEF Pending, Charged
<1>4. row.status = "Processing"
  BY <1>1, <1>2, <1>3 DEF TokenInv, TypeOK, Trx, Status, FinalStatus, TruthInv,
     SuccessMeansCharged, NothingBeforeCreate
<1>5. \A q \in Ref \ {c} : digi'[q] = digi[q]
  BY <1>1, CallAnsweredType DEF TokenInv
<1>6. CASE digi'[c] = "pending"
  <2>1. Pending' = {c} /\ Charged' = {}
    BY <1>1, <1>2, <1>5, <1>6 DEF Pending, Charged
  <2>2. Contract!Buy(c)
    BY <1>1, <1>3, <1>4, <2>1 DEF Contract!Buy, Pending
  <2> QED
    BY <1>1, <2>2 DEF Contract!Next
<1>7. CASE digi'[c] = "success"
  <2>1. Pending' = {} /\ Charged' = {c}
    BY <1>1, <1>2, <1>5, <1>7 DEF Pending, Charged
  <2>2. Contract!Buy(c)
    BY <1>1, <1>3, <1>4, <2>1 DEF Contract!Buy, Pending
  <2> QED
    BY <1>1, <2>2 DEF Contract!Next
<1>8. CASE digi'[c] \notin {"success", "pending"}
  <2>1. Pending' = {} /\ Charged' = {}
    BY <1>1, <1>2, <1>5, <1>8 DEF Pending, Charged
  <2> QED
    BY <1>1, <1>3, <2>1 DEF Contract!vars, Pending
<1> QED
  BY <1>6, <1>7, <1>8

\* Digiflazz completes or rejects what is open.
LEMMA SettleStep ==
    ASSUME TokenInv, NEW r \in Ref, Resolve(r)
    PROVE  Contract!Next \/ UNCHANGED Contract!vars
<1>1. row' = row /\ digi[r] = "pending" /\ digi \in [Ref -> Outcome \cup {"none"}]
  BY DEF Resolve, TokenInv, TypeOK
<1>2. PICK o \in Outcome \ {"pending", "wait"} : digi' = [digi EXCEPT ![r] = o]
  BY DEF Resolve
<1>3. \A q \in Ref \ {r} : digi[q] \notin {"success", "pending"}
  BY <1>1 DEF TokenInv, OneHolder, Live
<1>4. Pending = {r} /\ Charged = {}
  BY <1>1, <1>3 DEF Pending, Charged
<1>5. Pending' = {}
  BY <1>1, <1>2, <1>3 DEF Pending
<1>6. CASE o = "success"
  <2>1. Charged' = {r}
    BY <1>1, <1>2, <1>3, <1>6 DEF Charged
  <2>2. Contract!Complete(r)
    BY <1>1, <1>4, <1>5, <2>1 DEF Contract!Complete, Pending
  <2> QED
    BY <2>2 DEF Contract!Next
<1>7. CASE o # "success"
  <2>1. Charged' = {}
    BY <1>1, <1>2, <1>3, <1>7 DEF Charged
  <2>2. Contract!Reject(r)
    BY <1>1, <1>4, <1>5, <2>1 DEF Contract!Reject, Pending
  <2> QED
    BY <2>2 DEF Contract!Next
<1> QED
  BY <1>6, <1>7

\* Attempts, callbacks, retries and notifications together are one purchase at
\* a time, at most one completed, and a truthful answer.
THEOREM ImplementsContract == ASSUME Reliable PROVE Spec => KeepsContract
<1>1. Init => Contract!Init
  BY DEF Init, NoTrx, Contract!Init, Charged
<1>2. TokenInv /\ TruthInv /\ [Next]_vars => [Contract!Next]_(Contract!vars)
  <2> SUFFICES ASSUME TokenInv, TruthInv, [Next]_vars
               PROVE  Contract!Next \/ UNCHANGED Contract!vars
    OBVIOUS
  <2>1. TokenInv' /\ TruthInv'
    BY TokenNext, TruthNext
  <2>2. CASE UNCHANGED vars
    BY <2>2 DEF vars, Contract!vars, Charged
  <2>3. ASSUME NEW w \in Worker, GoroutineStep(w)
        PROVE  Contract!Next \/ UNCHANGED Contract!vars
    <3>1. CASE CallAnswered(w)
      BY <3>1, CallStep
    <3>2. CASE ~CallAnswered(w)
      <4>1. ~CallLost(w)
        BY ReliableBudget DEF CallLost, TokenInv, TypeOK
      <4>2. digi' = digi
        BY <2>3, <3>2, <4>1 DEF GoroutineStep, WorkerStep, CreateTrx, ManualRetry,
           ReceiveCallback, Plan, Exhaust, StoreRef, HandleAnswer, Persist, Notify, Crash,
           Abandon, external
      <4> QED
        BY <2>1, <2>3, <4>2, RowStep
    <3> QED
      BY <3>1, <3>2
  <2>4. ASSUME NEW r \in Ref, Resolve(r)
        PROVE  Contract!Next \/ UNCHANGED Contract!vars
    BY <2>4, SettleStep
  <2> QED
    BY <2>2, <2>3, <2>4, NextSteps
<1>3. Spec => []TruthInv
  <2>1. Init => TruthInv
    BY InitType DEF Init, TruthInv, SuccessMeansCharged, Believes, NoTrx, Idle
  <2> QED
    BY <2>1, TruthNext, PTL DEF Spec
<1> QED
  BY <1>1, <1>2, <1>3, TokenCorrect, PTL DEF Spec, KeepsContract, Contract!Spec

-----------------------------------------------------------------------------
(***************************************************************************)
(* When, moreover, the answer to a request is stored before the callback   *)
(* of that request arrives, handlers take turns: no two of them ever work  *)
(* on the row at once.  A final status is then final, and the client hears *)
(* one of them.                                                            *)
(***************************************************************************)

\* The ref_id r is not settled: Digiflazz still works on it, or its callback
\* is on the way.
Unsettled(r) == digi[r] = "pending" \/ cbs[r] > 0

\* The goroutine k was told that r is pending and has not stored that yet.
StoresPending(k, r) ==
    /\ k.mem.ref = r
    /\ \/ k.pc = "log" /\ k.ans = "pending"
       \/ k.pc = "persist" /\ k.mem.status = "Processing"

OneAtWork == \A v, w \in Worker : Active(v) /\ Active(w) => v = w

AnswerFirst ==
    \A w \in Worker, r \in Ref :
        Active(w) /\ Unsettled(r) => StoresPending(job[w], r)

\* What the row says while somebody works on a copy of it.
RowFollows ==
    \A w \in Worker : Active(w) =>
        row.status = IF job[w].pc = "notify" THEN job[w].mem.status ELSE "Processing"

\* What the client was told follows the row.
ToldFollows ==
    /\ told \subseteq {row.status} \cap FinalStatus
    /\ row.sent => row.status \in told
    /\ \A w \in Worker : Active(w) => ~job[w].mem.sent

OrderInv == TokenInv /\ OneAtWork /\ AnswerFirst /\ RowFollows /\ ToldFollows

FinalStays == row.status \in FinalStatus => row'.status = row.status

LEMMA OrderInit == Init => OrderInv
<1> SUFFICES ASSUME Init PROVE OrderInv
  OBVIOUS
<1>1. \A w \in Worker : ~Active(w)
  BY DEF Init, Active, Idle
<1>2. told = {} /\ ~row.sent
  BY DEF Init, NoTrx
<1> QED
  BY <1>1, <1>2, TokenInit DEF OrderInv, OneAtWork, AnswerFirst, RowFollows, ToldFollows

\* A step of the only goroutine at work, or of one that begins.
LEMMA OrderStep ==
    ASSUME OrderInv, TokenInv', NEW w \in Worker, GoroutineStep(w),
           \A v \in Worker \ {w} : ~Active(v),
           Active(w)' => /\ row'.status = IF job'[w].pc = "notify" THEN job'[w].mem.status
                                          ELSE "Processing"
                         /\ ~job'[w].mem.sent
                         /\ \A r \in Ref : Unsettled(r)' => StoresPending(job'[w], r),
           told' \subseteq {row'.status} \cap FinalStatus,
           row'.sent => row'.status \in told'
    PROVE  OrderInv'
<1>1. \A v \in Worker \ {w} : job'[v] = job[v]
  BY OthersUnchanged, TokenParts DEF OrderInv
<1>2. \A v \in Worker \ {w} : ~Active(v)'
  BY <1>1 DEF Active
<1>3. OneAtWork' /\ RowFollows' /\ ToldFollows'
  BY <1>2 DEF OneAtWork, RowFollows, ToldFollows
<1>4. AnswerFirst'
  BY <1>2 DEF AnswerFirst, Unsettled
<1> QED
  BY <1>3, <1>4 DEF OrderInv

\* The copy a step goes on with has the callback_sent of the copy before it.
LEMMA NextJobSent ==
    ASSUME NEW j \in Job, NEW k \in NextJob(j)
    PROVE  /\ k.mem.sent = j.mem.sent
           /\ j.ans = "pending" => k.pc = "persist" /\ k.mem.status = "Processing"
<1>1. \A s \in Status : Concluded(j, s).mem.sent = j.mem.sent
  BY DEF Concluded, Job, Trx
<1>2. {"Success", "Processing", "Failed"} \subseteq Status
  BY DEF Status, FinalStatus
<1>3. j.ans = "pending" => k = Concluded(j, "Processing")
  BY DEF NextJob
<1>4. j.ans = "pending" => k.pc = "persist" /\ k.mem.status = "Processing"
  BY <1>2, <1>3, ConcludedType
<1>5. CASE k.pc = "store"
  BY <1>4, <1>5, NextJobType
<1>6. CASE k.pc # "store"
  <2>1. k.pc = "persist"
    BY <1>6, NextJobType
  <2>2. SameSkuNewRef(j).pc = "store" /\ NextSkuNewRef(j).pc = "store"
    BY SameSkuType, NextSkuNewRefType
  <2>3. [j EXCEPT !.pc = "store", !.net = @ + 1].pc = "store"
    BY DEF Job
  <2>4. k \in {Concluded(j, "Success"), Concluded(j, "Processing"), Concluded(j, "Failed")}
    BY <2>1, <2>2, <2>3 DEF NextJob
  <2> QED
    BY <1>1, <1>2, <1>4, <2>4
<1> QED
  BY <1>5, <1>6

LEMMA AfterCallbackSent ==
    ASSUME NEW t \in Trx, NEW rc, ~t.sent, AfterCallback(t, rc).pc # "idle"
    PROVE  ~AfterCallback(t, rc).mem.sent
<1> DEFINE j == [Idle EXCEPT !.kind = "callback", !.mem = t]
           s == [j EXCEPT !.mem.sent = FALSE]
           p == [j EXCEPT !.pc = "plan"]
<1>1. j \in Job /\ j.mem = t
  BY IdleType DEF Idle, Job
<1>2. s \in Job /\ ~s.mem.sent
  BY <1>1 DEF Job, Trx
<1>3. p.mem = t
  BY <1>1 DEF Job
<1>4. \A k \in Job, st \in Status : Concluded(k, st).mem.sent = k.mem.sent
  BY DEF Concluded, Job, Trx
<1>5. "Success" \in Status /\ "Failed" \in Status
  BY DEF Status, FinalStatus
<1>6. AfterCallback(t, rc) \in {Idle, Concluded(s, "Success"), p, Concluded(j, "Failed")}
  BY DEF AfterCallback
<1> HIDE DEF j, s, p
<1>7. AfterCallback(t, rc) # Idle
  BY IdleFacts
<1> QED
  BY <1>1, <1>2, <1>3, <1>4, <1>5, <1>6, <1>7

LEMMA BeginKeepsOrder ==
    ASSUME Reliable, OrderInv, TokenInv', NEW w \in Worker, GoroutineStep(w),
           CreateTrx(w) \/ ManualRetry(w)
    PROVE  OrderInv' /\ FinalStays
<1>0. TypeOK /\ Token /\ Copies
  BY TokenParts DEF OrderInv
<1>1. digi' = digi /\ cbs' = cbs /\ told' = told
  BY DEF CreateTrx, ManualRetry, external
<1>2. /\ \A v \in Worker : ~Active(v)
      /\ row.ref = None
      /\ row'.status = "Processing" /\ row.status \in {"none", "Processing"}
      /\ job'[w].pc = "plan" /\ job'[w].mem = row'
      /\ row'.sent => row.sent
  <2>1. CASE CreateTrx(w)
    <3>1. row.status = "none" /\ ~row'.sent
      BY <2>1 DEF CreateTrx, NoTrx
    <3> QED
      BY <1>0, <2>1, <3>1, CreateTrxType DEF Copies, NothingBeforeCreate
  <2>2. CASE ManualRetry(w)
    <3>1. /\ \A v \in Worker : ~Active(v)
          /\ row.status = "Processing" /\ row.ref = None /\ row' = row
      BY <2>2 DEF ManualRetry, Reliable, MayRetry
    <3> QED
      BY <1>0, <2>2, <3>1, ManualRetryType
  <2> QED
    BY <2>1, <2>2
<1>3. \A r \in Ref : digi[r] = "none"
  BY <1>0, <1>2 DEF Copies, RowRecordsCalls
<1>4. \A r \in Ref : ~Unsettled(r)'
  <2>1. cbs \in [Ref -> Nat]
    BY <1>0, TypeParts DEF RestOK
  <2> QED
    BY <1>0, <1>1, <1>3, <2>1 DEF Unsettled, Token, CallbacksAreSettled
<1>5. told = {} /\ ~row.sent
  BY <1>2 DEF OrderInv, ToldFollows, FinalStatus
<1>6. OrderInv'
  BY <1>1, <1>2, <1>4, <1>5, OrderStep
<1> QED
  BY <1>2, <1>6 DEF FinalStays, FinalStatus

LEMMA ReceiveKeepsOrder ==
    ASSUME Reliable, ~Overtake, OrderInv, TokenInv', NEW w \in Worker, GoroutineStep(w),
           NEW r \in Ref, ReceiveCallback(w, r)
    PROVE  OrderInv' /\ FinalStays
<1>0. /\ TypeOK /\ Token /\ Copies
      /\ row \in Trx /\ cbs \in [Ref -> Nat]
  BY TokenParts, TypeParts DEF RestOK, OrderInv
<1>1. /\ row' = row /\ digi' = digi /\ told' = told /\ row.status # "none"
      /\ cbs[r] > 0
      /\ cbs' = [cbs EXCEPT ![r] = @ - 1]
      /\ \A v \in Worker :
           job[v].pc \in {"store", "call", "log", "persist"} => job[v].mem.ref # r
  BY DEF ReceiveCallback
<1>2. Live(r) /\ cbs[r] = 1 /\ digi[r] # "pending"
  BY <1>0, <1>1 DEF Live, Token, CallbacksAreSettled
<1>3. \A q \in Ref \ {r} : ~Live(q)
  BY <1>0, <1>2 DEF Token, OneHolder
<1>4. \A q \in Ref : ~Unsettled(q)'
  BY <1>0, <1>1, <1>2, <1>3 DEF Unsettled, Live
<1>5. \A v \in Worker : ~Active(v)
  <2>1. Unsettled(r)
    BY <1>1 DEF Unsettled
  <2>2. \A v \in Worker : Active(v) => StoresPending(job[v], r)
    BY <2>1 DEF OrderInv, AnswerFirst
  <2> QED
    BY <1>1, <2>2 DEF StoresPending
<1>6. job'[w] = AfterCallback(row, digi[r])
  BY <1>0, ReceiveCallbackType
<1>7. Active(w)' => /\ row.status \notin FinalStatus
                    /\ job'[w].pc # "notify"
  BY <1>0, <1>6, AfterCallbackType DEF Active
<1>8. row.status \notin FinalStatus => row.status = "Processing" /\ told = {} /\ ~row.sent
  BY <1>0, <1>1 DEF Trx, Status, OrderInv, ToldFollows
<1>9. Active(w)' => ~job'[w].mem.sent
  BY <1>0, <1>6, <1>7, <1>8, AfterCallbackSent DEF Active
<1>10. OrderInv'
  BY <1>1, <1>4, <1>5, <1>7, <1>8, <1>9, OrderStep DEF OrderInv, ToldFollows
<1> QED
  BY <1>1, <1>10 DEF FinalStays

\* The steps of a goroutine that is already at work.
LEMMA AtWork ==
    ASSUME OrderInv, NEW w \in Worker, Active(w)
    PROVE  /\ TypeOK /\ Token /\ Copies /\ WellFormed(job[w])
           /\ \A v \in Worker \ {w} : ~Active(v)
           /\ row.status = IF job[w].pc = "notify" THEN job[w].mem.status ELSE "Processing"
           /\ ~job[w].mem.sent
           /\ \A r \in Ref : Unsettled(r) => StoresPending(job[w], r)
           /\ job[w].pc # "notify" => told = {} /\ ~row.sent
<1>1. TypeOK /\ Token /\ Copies /\ WellFormed(job[w])
  BY TokenParts, TypeParts DEF OrderInv, JobsOK
<1>2. row.status = IF job[w].pc = "notify" THEN job[w].mem.status ELSE "Processing"
  BY DEF OrderInv, RowFollows
<1>3. job[w].pc # "notify" => told = {} /\ ~row.sent
  BY <1>2 DEF OrderInv, ToldFollows, FinalStatus
<1> QED
  BY <1>1, <1>2, <1>3 DEF OrderInv, OneAtWork, ToldFollows, AnswerFirst

LEMMA LoopKeepsOrder ==
    ASSUME OrderInv, TokenInv', NEW w \in Worker, GoroutineStep(w),
           Plan(w) \/ Exhaust(w) \/ HandleAnswer(w)
    PROVE  OrderInv' /\ FinalStays
<1>1. row' = row /\ digi' = digi /\ cbs' = cbs /\ told' = told /\ Active(w)
  BY DEF Plan, Exhaust, HandleAnswer, external, Active
<1>2. job[w].pc \in {"plan", "store", "log"}
  BY DEF Plan, Exhaust, HandleAnswer
<1>3. /\ job'[w].pc \in {"store", "persist"}
      /\ job'[w].mem.sent = job[w].mem.sent
      /\ \A r \in Ref : StoresPending(job[w], r) => StoresPending(job'[w], r)
  <2>1. CASE Plan(w)
    BY <1>1, <2>1, AtWork, PlanType DEF Plan, StoresPending
  <2>2. CASE Exhaust(w)
    <3>1. job'[w].pc = "persist" /\ job[w].pc = "store"
      BY <1>1, <2>2, AtWork, ExhaustType DEF Exhaust
    <3>2. job'[w] = Concluded(job[w], "Failed")
      BY <1>1, <2>2, AtWork DEF Exhaust, Become, TypeOK
    <3>3. Concluded(job[w], "Failed").mem.sent = job[w].mem.sent
      BY <1>1, AtWork DEF Concluded, WellFormed, Job, Trx
    <3> QED
      BY <3>1, <3>2, <3>3 DEF StoresPending
  <2>3. CASE HandleAnswer(w)
    <3>1. /\ job[w].pc = "log" /\ job[w] \in Job /\ job'[w] \in NextJob(job[w])
      BY <1>1, <2>3, AtWork, HandleAnswerType DEF HandleAnswer, WellFormed
    <3> QED
      BY <3>1, NextJobType, NextJobSent DEF StoresPending
  <2> QED
    BY <2>1, <2>2, <2>3
<1>4. OrderInv'
  BY <1>1, <1>2, <1>3, AtWork, OrderStep DEF Unsettled
<1> QED
  BY <1>1, <1>4 DEF FinalStays

LEMMA StoreRefKeepsOrder ==
    ASSUME Reliable, OrderInv, TokenInv', NEW w \in Worker, GoroutineStep(w), StoreRef(w)
    PROVE  OrderInv' /\ FinalStays
<1>1. /\ digi' = digi /\ cbs' = cbs /\ told' = told /\ Active(w) /\ Holds(w)
      /\ job[w].pc = "store"
  BY DEF StoreRef, external, Active, Holds
<1>2. /\ job'[w].pc = "call"
      /\ row' = job'[w].mem /\ row'.status = job[w].mem.status
  BY <1>1, AtWork, StoreRefType, ReliableBudget, TypeParts DEF RestOK
<1>3. job[w].mem.status = "Processing"
  BY <1>1, AtWork DEF Copies, WorkIsOpen
<1>4. row' = WithRef(job[w])
  BY <1>1, AtWork, ReliableBudget, TypeParts DEF StoreRef, RestOK
<1>5. WithRef(job[w]).sent = job[w].mem.sent
  BY <1>1, AtWork DEF WithRef, WellFormed, Job, Trx
<1>6. \A r \in Ref : ~Unsettled(r)'
  BY <1>1, AtWork DEF Unsettled, Token, OneHolder, Live
<1>7. OrderInv'
  BY <1>1, <1>2, <1>3, <1>4, <1>5, <1>6, AtWork, OrderStep
<1> QED
  BY <1>1, <1>7, AtWork DEF FinalStays, FinalStatus

LEMMA CallKeepsOrder ==
    ASSUME OrderInv, TokenInv', NEW w \in Worker, GoroutineStep(w), CallAnswered(w)
    PROVE  OrderInv' /\ FinalStays
<1>1. /\ row' = row /\ cbs' = cbs /\ told' = told /\ Active(w) /\ Holds(w)
      /\ job[w].pc = "call"
  BY DEF CallAnswered, Active, Holds
<1> PICK c : c = job[w].mem.ref
  OBVIOUS
<1>2. /\ c \in Ref
      /\ job'[w].pc = "log" /\ job'[w].mem = job[w].mem
      /\ \/ /\ digi'[c] = job'[w].ans
            /\ \A q \in Ref \ {c} : digi'[q] = digi[q]
         \/ digi' = digi
  BY <1>1, AtWork, CallType, CallAnsweredType
<1>3. \A r \in Ref : ~Unsettled(r)
  BY <1>1, AtWork DEF Unsettled, Token, OneHolder, Live
<1>4. \A r \in Ref : Unsettled(r)' => StoresPending(job'[w], r)
  BY <1>1, <1>2, <1>3 DEF Unsettled, StoresPending
<1>5. OrderInv'
  BY <1>1, <1>2, <1>4, AtWork, OrderStep
<1> QED
  BY <1>1, <1>5 DEF FinalStays

LEMMA PersistKeepsOrder ==
    ASSUME Reliable, OrderInv, TokenInv', NEW w \in Worker, GoroutineStep(w), Persist(w)
    PROVE  OrderInv' /\ FinalStays
<1>1. digi' = digi /\ cbs' = cbs /\ told' = told /\ Active(w) /\ job[w].pc = "persist"
  BY DEF Persist, external, Active
<1>2. /\ row' = job[w].mem
      /\ \/ /\ job'[w].pc = "notify" /\ job'[w].mem = job[w].mem
            /\ job[w].mem.status \in FinalStatus
         \/ /\ job'[w] = Idle /\ job[w].mem.status \notin FinalStatus
  BY <1>1, AtWork, PersistType, ReliableBudget, TypeParts DEF RestOK
<1>3. Active(w)' => job'[w].pc = "notify" /\ job[w].mem.status \in FinalStatus
  BY <1>2, IdleFacts DEF Active
<1>4. Active(w)' => \A r \in Ref : ~Unsettled(r)'
  BY <1>1, <1>3, AtWork DEF Unsettled, StoresPending, FinalStatus
<1>5. OrderInv'
  BY <1>1, <1>2, <1>3, <1>4, AtWork, OrderStep
<1> QED
  BY <1>1, <1>5, AtWork DEF FinalStays, FinalStatus

LEMMA EndKeepsOrder ==
    ASSUME OrderInv, TokenInv', NEW w \in Worker, GoroutineStep(w),
           Notify(w) \/ Crash(w) \/ Abandon(w)
    PROVE  OrderInv' /\ FinalStays
<1>1. digi' = digi /\ cbs' = cbs /\ Active(w)
  BY DEF Notify, Crash, Abandon, external, Active
<1>2. ~Active(w)'
  BY <1>1, AtWork, NotifyType, CrashType, IdleFacts DEF Active
<1>3. /\ row'.status = row.status
      /\ told' \subseteq {row'.status} \cap FinalStatus
      /\ row'.sent => row'.status \in told'
  <2>1. CASE Notify(w)
    <3> DEFINE mem == [job[w].mem EXCEPT !.sent = TRUE]
    <3>1. mem.status = job[w].mem.status /\ mem.status \in FinalStatus
      BY <1>1, <2>1, AtWork DEF WellFormed, Job, Trx, Notify
    <3>2. job[w].mem.status = row.status
      BY <1>1, <2>1, AtWork DEF Notify
    <3>3. \/ told' = told \cup {mem.status} /\ row' \in {mem, row}
          \/ told' = told /\ row' = row
      BY <2>1 DEF Notify
    <3> HIDE DEF mem
    <3> QED
      BY <3>1, <3>2, <3>3 DEF OrderInv, ToldFollows
  <2>2. CASE Crash(w) \/ Abandon(w)
    <3>1. row' = row /\ told' = told
      BY <2>2 DEF Crash, Abandon
    <3> QED
      BY <3>1 DEF OrderInv, ToldFollows
  <2> QED
    BY <2>1, <2>2
<1>4. OrderInv'
  BY <1>1, <1>2, <1>3, AtWork, OrderStep
<1> QED
  BY <1>3, <1>4 DEF FinalStays

LEMMA ResolveKeepsOrder ==
    ASSUME OrderInv, TokenInv', NEW r \in Ref, Resolve(r)
    PROVE  OrderInv' /\ FinalStays
<1>0. TypeOK
  BY TokenParts DEF OrderInv
<1>1. /\ UNCHANGED <<row, job, told>> /\ digi[r] = "pending"
      /\ \A q \in Ref \ {r} : digi'[q] = digi[q] /\ cbs'[q] = cbs[q]
  BY <1>0 DEF Resolve, TypeOK
<1>2. \A q \in Ref : Unsettled(q)' => Unsettled(q)
  BY <1>1 DEF Unsettled
<1>3. AnswerFirst'
  BY <1>1, <1>2 DEF OrderInv, AnswerFirst, Active
<1>4. OneAtWork' /\ RowFollows' /\ ToldFollows'
  BY <1>1 DEF OrderInv, OneAtWork, RowFollows, ToldFollows, Active
<1> QED
  BY <1>1, <1>3, <1>4 DEF OrderInv, FinalStays

LEMMA OrderNext ==
    ASSUME Reliable, ~Overtake
    PROVE  OrderInv /\ [Next]_vars => OrderInv' /\ FinalStays
<1> SUFFICES ASSUME OrderInv, [Next]_vars PROVE OrderInv' /\ FinalStays
  OBVIOUS
<1>0. TokenInv'
  BY TokenNext DEF OrderInv
<1>1. CASE UNCHANGED vars
  <2>1. UNCHANGED <<row, job, told, digi, cbs>>
    BY <1>1 DEF vars
  <2>2. OneAtWork' /\ RowFollows' /\ ToldFollows' /\ AnswerFirst'
    BY <2>1 DEF OrderInv, OneAtWork, RowFollows, ToldFollows, AnswerFirst, Active, Unsettled
  <2> QED
    BY <1>0, <2>1, <2>2 DEF OrderInv, FinalStays
<1>2. ASSUME NEW w \in Worker, GoroutineStep(w) PROVE OrderInv' /\ FinalStays
  <2>1. ~CallLost(w)
    BY ReliableBudget, TokenParts, TypeParts DEF CallLost, OrderInv, RestOK
  <2> QED
    BY <1>0, <1>2, <2>1, BeginKeepsOrder, ReceiveKeepsOrder, LoopKeepsOrder,
       StoreRefKeepsOrder, CallKeepsOrder, PersistKeepsOrder, EndKeepsOrder
       DEF GoroutineStep, WorkerStep
<1> QED
  BY <1>0, <1>1, <1>2, ResolveKeepsOrder, NextSteps

\* Over a reliable link, and when no callback overtakes the answer it belongs
\* to, handlers work on the row one after the other, crashes and operators'
\* retries included: their unconditional UPDATEs cannot undo each other.
THEOREM HandlersTakeTurns ==
    ASSUME Reliable, ~Overtake PROVE Spec => []OneAtWork
<1>1. OrderInv => OneAtWork
  BY DEF OrderInv
<1> QED
  BY <1>1, OrderInit, OrderNext, PTL DEF Spec

\* Then no handler's write takes back a Success or a Failed.
THEOREM FinalStatusStays ==
    ASSUME Reliable, ~Overtake PROVE Spec => FinalIsFinal
<1>1. OrderInv /\ [Next]_vars => [row.status \in FinalStatus => row'.status = row.status]_row
  BY OrderNext DEF FinalStays
<1> QED
  BY <1>1, OrderInit, OrderNext, PTL DEF Spec, FinalIsFinal

\* And the client hears one outcome, the one callback_sent stands for.
THEOREM ClientToldTruly ==
    ASSUME Reliable, ~Overtake PROVE Spec => []ToldTruly
<1>1. OrderInv => ToldTruly
  BY DEF OrderInv, ToldFollows, ToldTruly, FinalStatus
<1> QED
  BY <1>1, OrderInit, OrderNext, PTL DEF Spec

-----------------------------------------------------------------------------
(***************************************************************************)
(* One SKU per ref_id.  The loop numbers its ref_ids in memory, and        *)
(* RetryWithNextSKU numbers on from the rows of transaction_logs: as long  *)
(* as no process dies, the two counts agree.                               *)
(***************************************************************************)

\* Somebody has an answer that transaction_logs does not hold yet.
Answering == \E w \in Worker : job[w].pc = "log"

\* The ref_ids Digiflazz knows are the suffixes 0, 1, ... of as many calls as
\* were logged, and the next call takes the next one.
InStep(k) ==
    /\ k.ans \notin {"dup", "neterr"}
    /\ k.pc # "idle" => k.kind # "manual"
    /\ k.pc \in {"store", "call", "log"} => k.suffix = attempts
    /\ k.pc \in {"call", "log"} => k.mem.ref = attempts
    /\ k.pc = "plan" => IF k.kind = "create" THEN attempts = 0 /\ k.suffix = 0
                        ELSE k.kind = "callback" /\ attempts > 0

Counted ==
    /\ \A r \in Ref : digi[r] # "none" <=> r < attempts \/ (r = attempts /\ Answering)
    /\ row.status = "Processing" /\ row.ref = None => \E w \in Worker : Active(w)
    /\ \A w \in Worker : InStep(job[w])

CountInv == OrderInv /\ (Smooth => Counted)

LEMMA ConcludedFields ==
    ASSUME NEW j \in Job, NEW s \in Status
    PROVE  Concluded(j, s).ans = j.ans /\ Concluded(j, s).kind = j.kind
BY DEF Concluded, Job, Trx

LEMMA NextRefFields ==
    ASSUME NEW j \in Job, NEW k \in {SameSkuNewRef(j), NextSkuNewRef(j)}
    PROVE  k.ans = j.ans /\ k.kind = j.kind /\ k.suffix = j.suffix + 1
<1> DEFINE n == j.suffix + 1
           same == [j EXCEPT !.pc = "store", !.suffix = n, !.net = 0]
<1>1. n \in Nat
  BY DEF Job
<1>2. SameSkuNewRef(j) = same
  BY DEF SameSkuNewRef
<1> HIDE DEF n
<1>3. same.ans = j.ans /\ same.kind = j.kind /\ same.suffix = n /\ same \in Job
  BY <1>1 DEF Job
<1> DEFINE next == [same EXCEPT !.todo = @ \ {j.sku}]
<1>4. NextSkuNewRef(j) = next
  BY <1>2 DEF NextSkuNewRef
<1> HIDE DEF same
<1>5. next.ans = same.ans /\ next.kind = same.kind /\ next.suffix = same.suffix
  BY <1>3 DEF Job
<1> QED
  BY <1>2, <1>3, <1>4, <1>5 DEF n

LEMMA NextJobFields ==
    ASSUME NEW j \in Job, j.ans # "neterr", NEW k \in NextJob(j)
    PROVE  /\ k.ans = j.ans /\ k.kind = j.kind
           /\ k.pc = "store" => k.suffix = j.suffix + 1
<1>1. k \in {Concluded(j, "Success"), Concluded(j, "Processing"), Concluded(j, "Failed"),
             SameSkuNewRef(j), NextSkuNewRef(j)}
  BY DEF NextJob
<1>2. {"Success", "Processing", "Failed"} \subseteq Status
  BY DEF Status, FinalStatus
<1>3. CASE k \in {SameSkuNewRef(j), NextSkuNewRef(j)}
  BY <1>3, NextRefFields
<1>4. CASE k \notin {SameSkuNewRef(j), NextSkuNewRef(j)}
  BY <1>1, <1>2, <1>4, ConcludedFields, ConcludedType
<1> QED
  BY <1>3, <1>4

LEMMA AfterCallbackFields ==
    ASSUME NEW t \in Trx, NEW rc
    PROVE  /\ AfterCallback(t, rc).ans = "none"
           /\ AfterCallback(t, rc).pc # "idle" => AfterCallback(t, rc).kind = "callback"
<1> DEFINE j == [Idle EXCEPT !.kind = "callback", !.mem = t]
           s == [j EXCEPT !.mem.sent = FALSE]
           p == [j EXCEPT !.pc = "plan"]
<1>1. j \in Job /\ j.ans = "none" /\ j.kind = "callback"
  BY IdleType DEF Idle, Job
<1>2. s \in Job /\ s.ans = "none" /\ s.kind = "callback"
  BY <1>1 DEF Job, Trx
<1>3. p.ans = "none" /\ p.kind = "callback"
  BY <1>1 DEF Job
<1>4. "Success" \in Status /\ "Failed" \in Status
  BY DEF Status, FinalStatus
<1>5. AfterCallback(t, rc) \in {Idle, Concluded(s, "Success"), p, Concluded(j, "Failed")}
  BY DEF AfterCallback
<1>6. Idle.ans = "none" /\ Idle.pc = "idle"
  BY DEF Idle
<1> HIDE DEF j, s, p
<1> QED
  BY <1>1, <1>2, <1>3, <1>4, <1>5, <1>6, ConcludedFields

\* No process has died yet, so none had before this step.
LEMMA SmoothBefore ==
    ASSUME TypeOK, [Next]_vars, Smooth'
    PROVE  Smooth /\ \A w \in Worker : ~Crash(w)
<1>1. \/ used' = used
      \/ \E k \in FaultKind : Spend(k)
  BY FaultKinds DEF Next, WorkerStep, CreateTrx, ManualRetry, ReceiveCallback, Plan, Exhaust,
         StoreRef, CallAnswered, CallLost, HandleAnswer, Persist, Notify, Crash, Abandon,
         Resolve, vars
<1>2. used \in [FaultKind -> Nat] /\ "crash" \in FaultKind /\ "net" \in FaultKind
  BY DEF TypeOK, FaultKind
<1>3. used["crash"] \in Nat /\ used["net"] \in Nat
  BY <1>2
<1>4. used'["crash"] >= used["crash"] /\ used'["net"] >= used["net"]
      /\ used'["crash"] \in Nat /\ used'["net"] \in Nat
  <2>1. CASE used' = used
    BY <1>3, <2>1
  <2>2. ASSUME NEW k \in FaultKind, Spend(k)
        PROVE  /\ used'["crash"] >= used["crash"] /\ used'["net"] >= used["net"]
               /\ used'["crash"] \in Nat /\ used'["net"] \in Nat
    BY <1>2, <1>3, <2>2 DEF Spend
  <2> QED
    BY <1>1, <2>1, <2>2
<1>5. Smooth
  BY <1>3, <1>4 DEF Smooth
<1>6. ASSUME NEW w \in Worker, Crash(w) PROVE FALSE
  <2>1. used'["crash"] = used["crash"] + 1
    BY <1>2, <1>6 DEF Crash, Spend
  <2> QED
    BY <1>3, <1>4, <2>1 DEF Smooth
<1> QED
  BY <1>5, <1>6

LEMMA CountStep ==
    ASSUME OrderInv, Counted, NEW w \in Worker, GoroutineStep(w),
           \A v \in Worker \ {w} : ~Active(v),
           InStep(job[w])',
           \A r \in Ref : digi'[r] # "none" <=>
               r < attempts' \/ (r = attempts' /\ job'[w].pc = "log"),
           row'.status = "Processing" /\ row'.ref = None => Active(w)'
    PROVE  Counted'
<1>1. \A v \in Worker \ {w} : job'[v] = job[v]
  BY OthersUnchanged, TokenParts DEF OrderInv
<1>2. \A v \in Worker \ {w} : job'[v].pc = "idle"
  BY <1>1 DEF Active
<1>3. \A v \in Worker : InStep(job[v])'
  BY <1>1, <1>2 DEF Counted, InStep
<1>4. Answering' <=> job'[w].pc = "log"
  BY <1>2 DEF Answering
<1> QED
  BY <1>3, <1>4 DEF Counted

\* Who is at work is at work alone.
LEMMA CountFacts ==
    ASSUME OrderInv, Counted, NEW w \in Worker, \A v \in Worker \ {w} : ~Active(v)
    PROVE  /\ TypeOK /\ Token /\ Copies /\ attempts \in Nat
           /\ InStep(job[w])
           /\ Answering <=> job[w].pc = "log"
           /\ \A r \in Ref : digi[r] # "none" <=>
                 r < attempts \/ (r = attempts /\ job[w].pc = "log")
<1>1. TypeOK /\ Token /\ Copies /\ attempts \in Nat
  BY TokenParts DEF OrderInv, TypeOK
<1>2. Answering <=> job[w].pc = "log"
  BY DEF Answering, Active
<1> QED
  BY <1>1, <1>2 DEF Counted

LEMMA BeginKeepsCount ==
    ASSUME Reliable, OrderInv, Counted, NEW w \in Worker, GoroutineStep(w),
           CreateTrx(w) \/ ManualRetry(w)
    PROVE  Counted'
<1>1. CreateTrx(w)
  BY DEF ManualRetry, Reliable, MayRetry, Counted
<1>2. /\ \A v \in Worker : ~Active(v)
      /\ row.ref = None
  BY <1>1, TokenParts DEF CreateTrx, Copies, NothingBeforeCreate, OrderInv
<1>3. \A r \in Ref : digi[r] = "none"
  BY <1>2, TokenParts DEF Copies, RowRecordsCalls, OrderInv
<1>4. 0 \in Ref
  BY ConstAssumption DEF Ref
<1>5. attempts = 0
  BY <1>2, <1>3, <1>4, CountFacts
<1>6. job'[w].pc = "plan" /\ row'.status = "Processing"
  BY <1>1, <1>2, CountFacts, CreateTrxType
<1>7. job'[w].kind = "create" /\ job'[w].suffix = 0 /\ job'[w].ans = "none"
  BY <1>1, <1>2, CountFacts DEF CreateTrx, Become, TypeOK, Idle
<1>8. digi' = digi /\ attempts' = attempts
  BY <1>1 DEF CreateTrx, external
<1>9. InStep(job[w])'
  BY <1>5, <1>6, <1>7, <1>8 DEF InStep
<1> QED
  BY <1>2, <1>3, <1>5, <1>6, <1>8, <1>9, CountStep DEF Ref, Active

LEMMA ReceiveKeepsCount ==
    ASSUME Reliable, ~Overtake, OrderInv, Counted, NEW w \in Worker, GoroutineStep(w),
           NEW r \in Ref, ReceiveCallback(w, r)
    PROVE  Counted'
<1>1. /\ row' = row /\ digi' = digi /\ attempts' = attempts /\ cbs[r] > 0 /\ ~Active(w)
      /\ \A v \in Worker :
           job[v].pc \in {"store", "call", "log", "persist"} => job[v].mem.ref # r
  BY DEF ReceiveCallback
<1>2. \A v \in Worker : ~Active(v)
  <2>1. \A v \in Worker : Active(v) => StoresPending(job[v], r)
    BY <1>1 DEF OrderInv, AnswerFirst, Unsettled
  <2> QED
    BY <1>1, <2>1 DEF StoresPending
<1>3. TypeOK /\ Copies /\ digi[r] # "none"
  BY <1>1, <1>2, CountFacts DEF Token, CallbacksAreSettled
<1>4. row.ref # None
  BY <1>3 DEF Copies, RowRecordsCalls
<1>5. attempts > 0
  BY <1>1, <1>2, <1>3, CountFacts DEF Active, Ref
<1> DEFINE k == AfterCallback(row, digi[r])
<1>6. /\ job'[w] = k /\ row \in Trx
  BY <1>3, ReceiveCallbackType, TypeParts DEF RestOK
<1> HIDE DEF k
<1>7. /\ k.ans = "none" /\ k.pc \in {"idle", "plan", "persist"}
      /\ k.pc # "idle" => k.kind = "callback"
  BY <1>6, AfterCallbackFields, AfterCallbackType DEF k
<1>8. InStep(job[w])'
  BY <1>1, <1>5, <1>6, <1>7 DEF InStep
<1>9. \A q \in Ref : digi'[q] # "none" <=>
          q < attempts' \/ (q = attempts' /\ job'[w].pc = "log")
  BY <1>1, <1>2, <1>6, <1>7, CountFacts DEF Active
<1> QED
  BY <1>1, <1>2, <1>4, <1>8, <1>9, CountStep

LEMMA PlanKeepsCount ==
    ASSUME OrderInv, Counted, NEW w \in Worker, GoroutineStep(w), Plan(w)
    PROVE  Counted'
<1>1. Active(w) /\ job[w].pc = "plan" /\ digi' = digi /\ attempts' = attempts
  BY DEF Plan, Active, external
<1>2. \A v \in Worker \ {w} : ~Active(v)
  BY <1>1, AtWork
<1>3. TypeOK /\ attempts \in Nat /\ InStep(job[w]) /\ job[w] \in Job
  BY <1>1, <1>2, CountFacts, AtWork DEF WellFormed
<1> DEFINE suffix == IF job[w].kind # "callback" THEN job[w].suffix
                     ELSE IF attempts = 0 THEN 1 ELSE attempts
<1>4. PICK todo : Become(w, [job[w] EXCEPT !.pc = "store", !.todo = todo, !.suffix = suffix])
  BY DEF Plan
<1>5. suffix = attempts
  BY <1>1, <1>3 DEF InStep
<1> HIDE DEF suffix
<1> DEFINE k == [job[w] EXCEPT !.pc = "store", !.todo = todo, !.suffix = suffix]
<1>6. k.pc = "store" /\ k.suffix = suffix /\ k.ans = job[w].ans /\ k.kind = job[w].kind
  BY <1>3 DEF Job
<1>7. job'[w] = k
  BY <1>3, <1>4 DEF Become, TypeOK
<1> HIDE DEF k
<1>8. InStep(job[w])' /\ Active(w)'
  BY <1>1, <1>3, <1>5, <1>6, <1>7 DEF InStep, Active
<1>9. \A q \in Ref : digi'[q] # "none" <=>
          q < attempts' \/ (q = attempts' /\ job'[w].pc = "log")
  BY <1>1, <1>2, <1>6, <1>7, CountFacts
<1> QED
  BY <1>2, <1>8, <1>9, CountStep

LEMMA ExhaustKeepsCount ==
    ASSUME OrderInv, Counted, NEW w \in Worker, GoroutineStep(w), Exhaust(w)
    PROVE  Counted'
<1>1. Active(w) /\ job[w].pc = "store" /\ digi' = digi /\ attempts' = attempts
  BY DEF Exhaust, Active, external
<1>2. \A v \in Worker \ {w} : ~Active(v)
  BY <1>1, AtWork
<1>3. TypeOK /\ InStep(job[w]) /\ job[w] \in Job
  BY <1>1, <1>2, CountFacts, AtWork DEF WellFormed
<1>4. job'[w] = Concluded(job[w], "Failed") /\ job'[w].pc = "persist"
  BY <1>3, ExhaustType DEF Exhaust, Become, TypeOK
<1>5. job'[w].ans = job[w].ans /\ job'[w].kind = job[w].kind
  BY <1>3, <1>4, ConcludedFields DEF Status, FinalStatus
<1>6. InStep(job[w])' /\ Active(w)'
  BY <1>1, <1>3, <1>4, <1>5 DEF InStep, Active
<1>7. \A q \in Ref : digi'[q] # "none" <=>
          q < attempts' \/ (q = attempts' /\ job'[w].pc = "log")
  BY <1>1, <1>2, <1>4, CountFacts
<1> QED
  BY <1>2, <1>6, <1>7, CountStep

LEMMA StoreRefKeepsCount ==
    ASSUME OrderInv, Counted, NEW w \in Worker, GoroutineStep(w), StoreRef(w)
    PROVE  Counted'
<1>1. Active(w) /\ job[w].pc = "store" /\ digi' = digi /\ attempts' = attempts
  BY DEF StoreRef, Active, external
<1>2. \A v \in Worker \ {w} : ~Active(v)
  BY <1>1, AtWork
<1>3. TypeOK /\ InStep(job[w]) /\ job[w] \in Job
  BY <1>1, <1>2, CountFacts, AtWork DEF WellFormed
<1> DEFINE mem == WithRef(job[w])
<1>4. mem.ref = job[w].suffix
  BY <1>3 DEF WithRef, Job, Trx
<1>5. PICK s : job' = [job EXCEPT ![w] = [job[w] EXCEPT !.pc = "call", !.mem = mem, !.sku = s]]
  BY DEF StoreRef, Become
<1> HIDE DEF mem
<1> DEFINE k == [job[w] EXCEPT !.pc = "call", !.mem = mem, !.sku = s]
<1>6. /\ k.pc = "call" /\ k.mem = mem /\ k.suffix = job[w].suffix
      /\ k.ans = job[w].ans /\ k.kind = job[w].kind
  BY <1>3 DEF Job
<1>7. job'[w] = k
  BY <1>3, <1>5 DEF TypeOK
<1> HIDE DEF k
<1>8. InStep(job[w])' /\ Active(w)'
  BY <1>1, <1>3, <1>4, <1>6, <1>7 DEF InStep, Active
<1>9. \A q \in Ref : digi'[q] # "none" <=>
          q < attempts' \/ (q = attempts' /\ job'[w].pc = "log")
  BY <1>1, <1>2, <1>6, <1>7, CountFacts
<1> QED
  BY <1>2, <1>8, <1>9, CountStep

\* The call is for a ref_id Digiflazz has never seen.
LEMMA CallKeepsCount ==
    ASSUME OrderInv, Counted, NEW w \in Worker, GoroutineStep(w), CallAnswered(w)
    PROVE  Counted'
<1>1. Active(w) /\ job[w].pc = "call" /\ attempts' = attempts
  BY DEF CallAnswered, Active
<1>2. \A v \in Worker \ {w} : ~Active(v)
  BY <1>1, AtWork
<1>3. TypeOK /\ attempts \in Nat /\ InStep(job[w]) /\ job[w] \in Job /\ job[w].mem.ref \in Ref
  BY <1>1, <1>2, CountFacts, AtWork, CallType DEF WellFormed
<1>4. job[w].mem.ref = attempts /\ job[w].suffix = attempts
  BY <1>1, <1>3 DEF InStep
<1>5. digi[attempts] = "none"
  BY <1>1, <1>2, <1>3, <1>4, CountFacts
<1>6. PICK o \in Outcome : Submit(attempts, job[w].sku, o) /\ Answer(w, o)
  BY <1>4, <1>5 DEF CallAnswered
<1> DEFINE k == [job[w] EXCEPT !.pc = "log", !.ans = o]
<1>7. /\ k.pc = "log" /\ k.ans = o /\ k.mem = job[w].mem /\ k.suffix = job[w].suffix
      /\ k.kind = job[w].kind
  BY <1>3 DEF Job
<1>8. job'[w] = k
  BY <1>3, <1>6 DEF Answer, Become, TypeOK
<1> HIDE DEF k
<1>9. o \notin {"dup", "neterr", "none"}
  BY ConstAssumption DEF Outcome, FailureClass
<1>10. InStep(job[w])' /\ Active(w)'
  BY <1>1, <1>3, <1>4, <1>7, <1>8, <1>9 DEF InStep, Active
<1>11. digi'[attempts] = o /\ \A q \in Ref \ {attempts} : digi'[q] = digi[q]
  BY <1>3, <1>4, <1>6 DEF Submit, TypeOK
<1>12. \A q \in Ref : digi'[q] # "none" <=>
          q < attempts' \/ (q = attempts' /\ job'[w].pc = "log")
  BY <1>1, <1>2, <1>3, <1>7, <1>8, <1>9, <1>11, CountFacts DEF Ref
<1> QED
  BY <1>2, <1>10, <1>12, CountStep

LEMMA HandleKeepsCount ==
    ASSUME OrderInv, Counted, NEW w \in Worker, GoroutineStep(w), HandleAnswer(w)
    PROVE  Counted'
<1>1. Active(w) /\ job[w].pc = "log" /\ digi' = digi /\ attempts' = attempts + 1
  BY DEF HandleAnswer, Active, external
<1>2. \A v \in Worker \ {w} : ~Active(v)
  BY <1>1, AtWork
<1>3. TypeOK /\ attempts \in Nat /\ InStep(job[w]) /\ job[w] \in Job
  BY <1>1, <1>2, CountFacts, AtWork DEF WellFormed
<1>4. job'[w] \in NextJob(job[w])
  BY <1>3, HandleAnswerType
<1>5. /\ job'[w].pc \in {"store", "persist"}
      /\ job'[w].ans = job[w].ans /\ job'[w].kind = job[w].kind
      /\ job'[w].pc = "store" => job'[w].suffix = job[w].suffix + 1
  BY <1>3, <1>4, NextJobType, NextJobFields DEF InStep
<1>6. InStep(job[w])' /\ Active(w)'
  BY <1>1, <1>3, <1>5 DEF InStep, Active
<1>7. \A q \in Ref : digi'[q] # "none" <=>
          q < attempts' \/ (q = attempts' /\ job'[w].pc = "log")
  BY <1>1, <1>2, <1>3, <1>5, CountFacts DEF Ref
<1> QED
  BY <1>2, <1>6, <1>7, CountStep

LEMMA EndKeepsCount ==
    ASSUME Reliable, OrderInv, Counted, NEW w \in Worker, GoroutineStep(w),
           Persist(w) \/ Notify(w)
    PROVE  Counted'
<1>1. /\ Active(w) /\ job[w].pc \in {"persist", "notify"}
      /\ digi' = digi /\ attempts' = attempts
  BY DEF Persist, Notify, Active, external
<1>2. \A v \in Worker \ {w} : ~Active(v)
  BY <1>1, AtWork
<1>3. /\ TypeOK /\ Copies /\ InStep(job[w]) /\ WellFormed(job[w]) /\ job[w] \in Job
      /\ row.status = IF job[w].pc = "notify" THEN job[w].mem.status ELSE "Processing"
  BY <1>1, <1>2, CountFacts, AtWork DEF WellFormed
<1>4. Idle.ans = "none" /\ Idle.pc = "idle"
  BY DEF Idle
<1>5. /\ InStep(job[w])'
      /\ job'[w].pc # "log"
      /\ row'.status = "Processing" => row'.ref # None
  <2>1. CASE Persist(w)
    <3>1. job[w].pc = "persist"
      BY <2>1 DEF Persist
    <3>2. \/ /\ row' = job[w].mem /\ job[w].mem.status \in FinalStatus
             /\ job'[w] = [job[w] EXCEPT !.pc = "notify"]
          \/ /\ row' = job[w].mem /\ job[w].mem.status \notin FinalStatus
             /\ job'[w] = Idle
      BY <1>3, <2>1, ReliableBudget DEF Persist, Become, TypeOK
    <3> DEFINE k == [job[w] EXCEPT !.pc = "notify"]
    <3>3. k.pc = "notify" /\ k.ans = job[w].ans /\ k.kind = job[w].kind
      BY <1>3 DEF Job
    <3>4. job[w].mem.status = "Processing" => job[w].mem.ref # None
      BY <1>1, <1>3, <3>1 DEF Copies, RowRecordsCalls, Holds, ReportsFailure
    <3> HIDE DEF k
    <3>5. job'[w] \in {k, Idle}
      BY <3>2 DEF k
    <3> QED
      BY <1>1, <1>3, <1>4, <3>1, <3>2, <3>3, <3>4, <3>5 DEF InStep, FinalStatus
  <2>2. CASE Notify(w)
    <3>1. job'[w] = Idle /\ row'.status \in {row.status, job[w].mem.status}
      BY <1>3, <2>2, NotifyType
    <3>2. row.status \in FinalStatus /\ row.status = job[w].mem.status
      BY <1>3, <2>2 DEF Notify, WellFormed
    <3> QED
      BY <1>4, <3>1, <3>2 DEF InStep, FinalStatus
  <2> QED
    BY <2>1, <2>2
<1>6. \A q \in Ref : digi'[q] # "none" <=>
          q < attempts' \/ (q = attempts' /\ job'[w].pc = "log")
  BY <1>1, <1>2, <1>5, CountFacts
<1> QED
  BY <1>2, <1>5, <1>6, CountStep

LEMMA ResolveKeepsCount ==
    ASSUME OrderInv, Counted, NEW r \in Ref, Resolve(r)
    PROVE  Counted'
<1>1. TypeOK
  BY TokenParts DEF OrderInv
<1>2. PICK o \in Outcome \ {"pending", "wait"} : digi' = [digi EXCEPT ![r] = o]
  BY DEF Resolve
<1>3. o # "none" /\ digi[r] # "none"
  BY ConstAssumption DEF Resolve, Outcome, FailureClass
<1>4. \A q \in Ref : digi'[q] # "none" <=> digi[q] # "none"
  BY <1>1, <1>2, <1>3 DEF TypeOK
<1>5. UNCHANGED <<row, job, attempts>>
  BY DEF Resolve
<1> QED
  BY <1>4, <1>5 DEF Counted, Answering, InStep, Active

LEMMA CountNext ==
    ASSUME Reliable, ~Overtake
    PROVE  CountInv /\ [Next]_vars => CountInv'
<1> SUFFICES ASSUME CountInv, [Next]_vars, Smooth' PROVE Counted'
  BY OrderNext DEF CountInv
<1>0. OrderInv /\ TypeOK /\ used \in [FaultKind -> Nat]
  BY TokenParts DEF CountInv, OrderInv, TypeOK
<1>1. Counted /\ \A w \in Worker : ~Crash(w)
  BY <1>0, SmoothBefore DEF CountInv
<1>2. CASE UNCHANGED vars
  <2>1. UNCHANGED <<row, job, digi, attempts>>
    BY <1>2 DEF vars
  <2> QED
    BY <1>1, <2>1 DEF Counted, Answering, InStep, Active
<1>3. ASSUME NEW w \in Worker, GoroutineStep(w) PROVE Counted'
  <2>1. ~CallLost(w) /\ ~Abandon(w) /\ ~Crash(w)
    BY <1>0, <1>1, ReliableBudget DEF CallLost, Abandon
  <2> QED
    BY <1>0, <1>1, <1>3, <2>1, BeginKeepsCount, ReceiveKeepsCount, PlanKeepsCount,
       ExhaustKeepsCount, StoreRefKeepsCount, CallKeepsCount, HandleKeepsCount, EndKeepsCount
       DEF GoroutineStep, WorkerStep
<1> QED
  BY <1>0, <1>1, <1>2, <1>3, ResolveKeepsCount, NextSteps

LEMMA CountInit == Init => CountInv
<1> SUFFICES ASSUME Init PROVE CountInv
  OBVIOUS
<1>1. \A w \in Worker : job[w].pc = "idle" /\ job[w].ans = "none"
  BY DEF Init, Idle
<1>2. attempts = 0 /\ (\A r \in Ref : digi[r] = "none") /\ row.status = "none"
  BY DEF Init, NoTrx
<1>3. \A r \in Ref : ~(r < 0)
  BY DEF Ref
<1> QED
  BY <1>1, <1>2, <1>3, OrderInit DEF CountInv, Counted, InStep, Answering, Ref

\* Over a reliable link, when answers are stored before callbacks arrive and
\* no process has died, Digiflazz never refuses a request as a repeated ref_id:
\* the number the loop counts in memory and the number RetryWithNextSKU counts
\* in transaction_logs always name a ref_id that was never used.
THEOREM RefIdsAreFresh ==
    ASSUME Reliable, ~Overtake PROVE Spec => []RefForOneSku
<1>1. CountInv => RefForOneSku
  BY DEF CountInv, Counted, InStep, RefForOneSku
<1> QED
  BY <1>1, CountInit, CountNext, PTL DEF Spec
=============================================================================
