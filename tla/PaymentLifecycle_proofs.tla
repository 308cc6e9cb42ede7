----------------------- MODULE PaymentLifecycle_proofs -----------------------
(***************************************************************************)
(* Theorems about PaymentLifecycle, for any number of handlers, whether    *)
(* they overlap or not, and any budget of faults.                          *)
(***************************************************************************)
EXTENDS PaymentLifecycle, FiniteSetTheorems, TLAPS

Paid(p) == p.status = "Success" \/ p.paid

\* A payment is created once: until then there is nothing to handle.
CreatedOnce ==
    /\ row.status = "none" =>
         /\ prov = "none" /\ recon.status = "none"
         /\ \A w \in Worker : ~Active(w)
    /\ \A w \in Worker : job[w].pc = "create" => prov = "none"
    /\ \A v, w \in Worker : job[v].pc = "create" /\ job[w].pc = "create" => v = w

\* A handler works on a payment that exists and announces something; webhooks
\* and operators bring final statuses; only an operator's decision closes a
\* reconciliation.
WellFormed(j) ==
    /\ j.pc # "idle" => j.mem.status # "none"
    /\ j.pc = "announce" => j.event # None
    /\ j.pc # "idle" /\ j.kind \in {"resolve", "webhook"} =>
         j.pc \in {"write", "announce", "close"} /\ j.mem.status \in Final
    /\ j.pc = "close" => j.kind = "resolve"

\* Whatever says Success speaks of a payment that was collected: the row, the
\* webhooks, the copies and the events of the handlers, and what was told.
SaysSuccess(j) == Paid(j.mem) \/ (j.event = "Success" /\ j.event # None)
Grounded ==
    /\ Paid(row) => Collected
    /\ "Success" \in hooks => Collected
    /\ \A w \in Worker : SaysSuccess(job[w]) => Collected
    /\ told["Success"] > 0 => Collected

CollectInv == TypeOK /\ CreatedOnce /\ (\A w \in Worker : WellFormed(job[w])) /\ Grounded

-----------------------------------------------------------------------------
(***************************************************************************)
(* Jobs.                                                                   *)
(***************************************************************************)

\* Idle is a job that says nothing.
LEMMA IdleJob == /\ Idle \in Job /\ Idle.pc = "idle" /\ ~SaysSuccess(Idle) /\ WellFormed(Idle)
                 /\ NoPayment \in Payment /\ NoPayment.status = "none" /\ ~Paid(NoPayment)
<1>1. NoPayment \in Payment /\ NoPayment.status = "none" /\ NoPayment.paid = FALSE
  BY DEF NoPayment, Payment, Status
<1>2. Idle \in Job /\ Idle.pc = "idle" /\ Idle.mem = NoPayment /\ Idle.event = None
  BY <1>1 DEF Idle, Job
<1> QED
  BY <1>1, <1>2 DEF SaysSuccess, Paid, WellFormed

\* The job of a handler that has read the row says what the row says.
Taken(kind, pc, mem) == [Idle EXCEPT !.pc = pc, !.kind = kind, !.mem = mem]

LEMMA TakenJob ==
    ASSUME NEW mem \in Payment,
           NEW kind \in {"create", "refresh", "cancel", "expire", "webhook", "resolve"},
           NEW pc \in {"create", "inquire", "cancel", "write"}
    PROVE  /\ Taken(kind, pc, mem) \in Job
           /\ Taken(kind, pc, mem).pc = pc /\ Taken(kind, pc, mem).kind = kind
           /\ Taken(kind, pc, mem).mem = mem /\ Taken(kind, pc, mem).event = None
           /\ SaysSuccess(Taken(kind, pc, mem)) => Paid(mem)
           /\ kind \notin {"resolve", "webhook"} /\ mem.status # "none" => WellFormed(Taken(kind, pc, mem))
<1>1. Idle \in Job /\ Idle.event = None
  BY IdleJob DEF Idle
<1>2. /\ Taken(kind, pc, mem) \in Job /\ Taken(kind, pc, mem).pc = pc /\ Taken(kind, pc, mem).kind = kind
      /\ Taken(kind, pc, mem).mem = mem /\ Taken(kind, pc, mem).event = None
  BY <1>1 DEF Taken, Job
<1> QED
  BY <1>2 DEF SaysSuccess, WellFormed

LEMMA HandlerIsTaken == ASSUME NEW kind, NEW pc PROVE Handler(kind, pc) = Taken(kind, pc, row)
  BY DEF Handler, Taken

\* A job about to write a status says Success only if it said so before, or if
\* that is the status.
LEMMA WritesJob ==
    ASSUME NEW j \in Job, NEW s \in Final \cup {"Pending"}, j.kind \in {"resolve", "webhook"} => s \in Final
    PROVE  /\ Writes(j, s) \in Job
           /\ Writes(j, s).pc = "write"
           /\ WellFormed(Writes(j, s))
           /\ SaysSuccess(Writes(j, s)) => SaysSuccess(j) \/ s = "Success"
<1> DEFINE mem == WithStatus(j.mem, s)
           event == IF s = j.mem.status THEN None ELSE s
           k == [j EXCEPT !.pc = "write", !.mem = mem, !.event = event]
<1>1. j.mem \in Payment
  BY DEF Job
<1>2. mem \in Payment /\ mem.status = s /\ (Paid(mem) => Paid(j.mem) \/ s = "Success")
  BY <1>1 DEF WithStatus, Payment, Status, Paid
<1>3. event \in Final \cup {"Pending", None} /\ (event = "Success" /\ event # None => s = "Success")
  OBVIOUS
<1>4. Writes(j, s) = k
  BY DEF Writes
<1> HIDE DEF mem, event
<1>5. k \in Job /\ k.pc = "write" /\ k.kind = j.kind /\ k.mem = mem /\ k.event = event
  BY <1>2, <1>3 DEF Job
<1> HIDE DEF k
<1> QED
  BY <1>2, <1>3, <1>4, <1>5 DEF SaysSuccess, WellFormed, Final

\* What holds of all jobs after w has taken up the job j.
LEMMA Move ==
    ASSUME CollectInv, Collected => Collected', NEW w \in Worker, NEW j \in Job, Become(w, j),
           WellFormed(j), SaysSuccess(j) => Collected'
    PROVE  /\ job' \in [Worker -> Job]
           /\ \A v \in Worker : WellFormed(job'[v])
           /\ \A v \in Worker : SaysSuccess(job'[v]) => Collected'
           /\ j.pc # "create" => \A v \in Worker : job'[v].pc = "create" => v # w /\ job[v].pc = "create"
<1>1. job' = [job EXCEPT ![w] = j] /\ job \in [Worker -> Job]
  BY DEF Become, CollectInv, TypeOK
<1>2. \A v \in Worker : job'[v] = IF v = w THEN j ELSE job[v]
  BY <1>1
<1>3. job' \in [Worker -> Job]
  BY <1>1
<1> QED
  BY <1>2, <1>3 DEF CollectInv, Grounded

\* The parts of the invariant that a step has to show once the payment exists.
LEMMA Kept ==
    ASSUME CollectInv, TypeOK', row'.status # "none",
           \A v \in Worker : WellFormed(job'[v]),
           \A v \in Worker : SaysSuccess(job'[v]) => Collected',
           \A v \in Worker : job'[v].pc = "create" => job[v].pc = "create" /\ prov' = "none",
           Paid(row') => Collected',
           "Success" \in hooks' => Collected',
           told'["Success"] > 0 => Collected'
    PROVE  CollectInv'
<1>1. CreatedOnce'
  BY DEF CollectInv, CreatedOnce
<1>2. Grounded'
  BY DEF Grounded
<1> QED
  BY <1>1, <1>2 DEF CollectInv

\* What was collected stays collected.
LEMMA CollectedStays == CollectInv /\ [Next]_vars => (Collected => Collected')
<1> SUFFICES ASSUME CollectInv, [Next]_vars, Collected PROVE Collected'
  OBVIOUS
<1> USE DEF Collected, operator, outside
<1>1. ASSUME NEW w \in Worker, CreatePayment(w) \/ Refresh(w) \/ Cancel(w) \/ Expire(w) PROVE Collected'
  BY <1>1 DEF CreatePayment, Refresh, Cancel, Expire
<1>2. ASSUME NEW w \in Worker, NEW s \in Final, ApplyWebhook(w, s) \/ Resolve(w, s) PROVE Collected'
  BY <1>2 DEF ApplyWebhook, Resolve
<1>3. ASSUME NEW w \in Worker, CreateAtProvider(w) PROVE Collected'
  BY <1>3 DEF CreateAtProvider, CollectInv, CreatedOnce
<1>4. ASSUME NEW w \in Worker, Inquire(w) \/ CancelAtProvider(w) PROVE Collected'
  BY <1>4 DEF Inquire, CancelAtProvider
<1>5. ASSUME NEW w \in Worker, Write(w) \/ Announce(w) \/ CloseReconciliation(w) \/ Crash(w) PROVE Collected'
  BY <1>5 DEF Write, Announce, CloseReconciliation, Crash
<1>6. ASSUME NEW s \in {"Success", "Failed", "Expired"}, ProviderSettles(s) PROVE Collected'
  BY <1>6 DEF ProviderSettles
<1>7. ASSUME Deadline \/ OpenReconciliation \/ UNCHANGED vars PROVE Collected'
  BY <1>7 DEF Deadline, OpenReconciliation, vars
<1> QED
  BY <1>1, <1>2, <1>3, <1>4, <1>5, <1>6, <1>7 DEF Next, Step

-----------------------------------------------------------------------------
LEMMA CollectInit == Init => CollectInv
<1> SUFFICES ASSUME Init PROVE CollectInv
  OBVIOUS
<1>1. TypeOK
  BY IdleJob DEF Init, TypeOK
<1>2. CreatedOnce
  BY IdleJob DEF Init, CreatedOnce, Active
<1>3. Grounded
  BY IdleJob DEF Init, Grounded, Final
<1>4. \A w \in Worker : WellFormed(job[w])
  BY IdleJob DEF Init
<1> QED
  BY <1>1, <1>2, <1>3, <1>4 DEF CollectInv

\* A fault is counted and counts are never taken back.
LEMMA CauseCounts ==
    ASSUME used \in [FaultKind -> Nat], NEW K, Cause(K)
    PROVE  /\ used' \in [FaultKind -> Nat]
           /\ \A k \in FaultKind : used'[k] >= used[k] /\ (k \in K => used'[k] > 0)
<1>1. used' = [k \in FaultKind |-> IF k \in K THEN used[k] + 1 ELSE used[k]]
  BY Zenon DEF Cause
<1> QED
  BY <1>1

LEMMA FaultsCounted ==
    CollectInv /\ [Next]_vars =>
        /\ used' \in [FaultKind -> Nat]
        /\ \A k \in FaultKind : used'[k] >= used[k]
<1> SUFFICES ASSUME CollectInv, [Next]_vars
             PROVE  used' \in [FaultKind -> Nat] /\ \A k \in FaultKind : used'[k] >= used[k]
  OBVIOUS
<1>t. used \in [FaultKind -> Nat]
  BY DEF CollectInv, TypeOK
<1>1. CASE \E K : Cause(K)
  BY <1>1, <1>t, CauseCounts
<1>2. CASE UNCHANGED used
  BY <1>2, <1>t
<1>3. ASSUME NEW w \in Worker PROVE \A K : Enter(w, K) => \E L : Cause(L)
  BY DEF Enter
<1>4. \A k : Spend(k) => \E L : Cause(L)
  BY DEF Spend
<1>5. ASSUME NEW w \in Worker, CreatePayment(w) \/ Refresh(w) \/ Cancel(w) \/ Expire(w) PROVE \E K : Cause(K)
  BY <1>3, <1>5 DEF CreatePayment, Refresh, Cancel, Expire
<1>6. ASSUME NEW w \in Worker, NEW s \in Final, ApplyWebhook(w, s) \/ Resolve(w, s) PROVE \E K : Cause(K)
  BY <1>3, <1>6 DEF ApplyWebhook, Resolve
<1>7. ASSUME NEW w \in Worker, Step(w) PROVE UNCHANGED used \/ \E K : Cause(K)
  BY <1>4, <1>7 DEF Step, CreateAtProvider, Inquire, CancelAtProvider, Write, Announce, CloseReconciliation
<1>8. ASSUME NEW w \in Worker, Crash(w) PROVE \E K : Cause(K)
  BY <1>4, <1>8 DEF Crash
<1>9. ASSUME \/ \E s \in {"Success", "Failed", "Expired"} : ProviderSettles(s)
             \/ Deadline \/ OpenReconciliation \/ UNCHANGED vars
      PROVE  UNCHANGED used \/ \E K : Cause(K)
  BY <1>4, <1>9 DEF ProviderSettles, Deadline, OpenReconciliation, vars
<1> QED
  BY <1>1, <1>2, <1>5, <1>6, <1>7, <1>8, <1>9 DEF Next

LEMMA CollectStep == CollectInv /\ [Next]_vars => CollectInv'
<1> SUFFICES ASSUME CollectInv, [Next]_vars PROVE CollectInv'
  OBVIOUS
<1>c. Collected => Collected'
  BY CollectedStays
<1>s. used' \in [FaultKind -> Nat]
  BY FaultsCounted
<1>r. row \in Payment /\ (Paid(row) => Collected')
  BY <1>c DEF CollectInv, TypeOK, Grounded
<1>j. \A w \in Worker : /\ job[w] \in Job /\ WellFormed(job[w])
                        /\ SaysSuccess(job[w]) => Collected'
                        /\ job[w].pc # "idle" => row.status # "none"
  BY <1>c DEF CollectInv, TypeOK, Grounded, CreatedOnce, Active
<1>h. ("Success" \in hooks => Collected') /\ (told["Success"] > 0 => Collected')
  BY <1>c DEF CollectInv, Grounded
<1>p. \A w \in Worker : job[w].pc = "create" => prov = "none"
  BY DEF CollectInv, CreatedOnce
<1>1. ASSUME NEW w \in Worker, CreatePayment(w) PROVE CollectInv'
  <2> DEFINE first == [NoPayment EXCEPT !.status = "Pending"]
  <2>1. first \in Payment /\ first.status = "Pending" /\ ~Paid(first)
    BY DEF NoPayment, Payment, Status, Paid
  <2> HIDE DEF first
  <2>2. row' = first /\ row.status = "none"
    BY <1>1 DEF CreatePayment, first
  <2> DEFINE j == Taken("create", "create", first)
  <2>3. j \in Job /\ WellFormed(j) /\ (SaysSuccess(j) => Paid(first))
    BY <2>1, TakenJob
  <2>4. Become(w, j)
    BY <1>1, <2>2 DEF CreatePayment, Handler, Idle, Taken
  <2> HIDE DEF j
  <2>5. /\ job' \in [Worker -> Job]
        /\ \A v \in Worker : WellFormed(job'[v])
        /\ \A v \in Worker : SaysSuccess(job'[v]) => Collected'
    BY <1>c, <2>1, <2>3, <2>4, Move
  <2>6. prov = "none" /\ \A v \in Worker : job[v].pc = "idle"
    BY <2>2 DEF CollectInv, CreatedOnce, Active
  <2>7. \A v \in Worker \ {w} : job'[v] = job[v]
    BY <2>4 DEF Become, CollectInv, TypeOK
  <2>8. UNCHANGED <<prov, hooks, due, told, recon, ruled>>
    BY <1>1 DEF CreatePayment, outside, operator
  <2>9. TypeOK'
    BY <1>s, <2>1, <2>2, <2>5, <2>8 DEF CollectInv, TypeOK
  <2>10. CreatedOnce'
    BY <2>1, <2>2, <2>6, <2>7, <2>8 DEF CreatedOnce
  <2>11. Grounded'
    BY <1>h, <2>1, <2>2, <2>5, <2>8 DEF Grounded
  <2> QED
    BY <2>5, <2>9, <2>10, <2>11 DEF CollectInv
<1>2. ASSUME NEW w \in Worker, Refresh(w) \/ Cancel(w) \/ Expire(w) PROVE CollectInv'
  <2>1. PICK j \in Job : /\ Become(w, j) /\ j.pc # "create"
                         /\ WellFormed(j) /\ (SaysSuccess(j) => Paid(row))
    <3>1. row.status # "none"
      BY <1>2 DEF Refresh, Cancel, Expire
    <3>2. CASE Refresh(w)
      BY <1>r, <3>1, <3>2, TakenJob, HandlerIsTaken DEF Refresh
    <3>3. CASE Cancel(w)
      BY <1>r, <3>1, <3>3, TakenJob, HandlerIsTaken DEF Cancel
    <3>4. CASE Expire(w)
      <4> DEFINE h == Handler("expire", "write")
      <4>1. h \in Job /\ h.kind = "expire" /\ (SaysSuccess(h) => Paid(row))
        BY <1>r, TakenJob, HandlerIsTaken
      <4>2. Become(w, Writes(h, "Expired"))
        BY <3>4 DEF Expire
      <4> HIDE DEF h
      <4> QED
        BY <4>1, <4>2, WritesJob DEF Final
    <3> QED
      BY <1>2, <3>2, <3>3, <3>4
  <2>2. SaysSuccess(j) => Collected'
    BY <1>r, <2>1
  <2>3. /\ job' \in [Worker -> Job]
        /\ \A v \in Worker : WellFormed(job'[v])
        /\ \A v \in Worker : SaysSuccess(job'[v]) => Collected'
        /\ \A v \in Worker : job'[v].pc = "create" => job[v].pc = "create"
    BY <1>c, <2>1, <2>2, Move
  <2>4. used' \in [FaultKind -> Nat] /\ row.status # "none"
    BY <1>2, <1>s DEF Refresh, Cancel, Expire, CollectInv, TypeOK
  <2>5. UNCHANGED <<row, outside, told, operator>>
    BY <1>2 DEF Refresh, Cancel, Expire
  <2>6. TypeOK'
    BY <2>3, <2>4, <2>5 DEF CollectInv, TypeOK, outside, operator
  <2> QED
    BY <1>r, <1>h, <1>p, <2>3, <2>4, <2>5, <2>6, Kept DEF outside, operator, Paid
<1>3. ASSUME NEW w \in Worker, NEW s \in Final, ApplyWebhook(w, s) \/ Resolve(w, s) PROVE CollectInv'
  <2>1. row.status # "none" /\ (s = "Success" => Collected')
    BY <1>3, <1>h DEF ApplyWebhook, Resolve, Collected, CollectInv, CreatedOnce
  <2>2. PICK j \in Job : /\ Become(w, j) /\ j.pc # "create" /\ WellFormed(j)
                         /\ SaysSuccess(j) => Paid(row) \/ s = "Success"
    <3>1. CASE Become(w, Idle)
      BY <3>1, IdleJob
    <3>2. CASE \E kind \in {"webhook", "resolve"} : Become(w, Writes(Handler(kind, "write"), s))
      <4>1. PICK kind \in {"webhook", "resolve"} : Become(w, Writes(Handler(kind, "write"), s))
        BY <3>2
      <4> DEFINE h == Handler(kind, "write")
      <4>2. h \in Job /\ (SaysSuccess(h) => Paid(row))
        BY <1>r, TakenJob, HandlerIsTaken
      <4>3. Become(w, Writes(h, s))
        BY <4>1
      <4> HIDE DEF h
      <4> QED
        BY <4>2, <4>3, WritesJob
    <3> QED
      BY <1>3, <3>1, <3>2 DEF ApplyWebhook, Resolve
  <2>3. SaysSuccess(j) => Collected'
    BY <1>r, <2>1, <2>2
  <2>4. /\ job' \in [Worker -> Job]
        /\ \A v \in Worker : WellFormed(job'[v])
        /\ \A v \in Worker : SaysSuccess(job'[v]) => Collected'
        /\ \A v \in Worker : job'[v].pc = "create" => job[v].pc = "create"
    BY <1>c, <2>2, <2>3, Move
  <2>5. /\ used' \in [FaultKind -> Nat] /\ hooks' \subseteq hooks /\ ruled' \subseteq ruled \cup {s}
        /\ UNCHANGED <<row, prov, due, told, recon>>
    BY <1>3, <1>s DEF ApplyWebhook, Resolve, outside, operator, CollectInv, TypeOK
  <2>6. TypeOK'
    BY <2>4, <2>5 DEF CollectInv, TypeOK
  <2> QED
    BY <1>r, <1>h, <1>p, <2>1, <2>4, <2>5, <2>6, Kept DEF Paid
<1>4. ASSUME NEW w \in Worker, CreateAtProvider(w) PROVE CollectInv'
  <2>1. PICK j \in Job : /\ Become(w, j) /\ j.pc = "write" /\ WellFormed(j)
                         /\ SaysSuccess(j) => SaysSuccess(job[w])
    <3>1. CASE Become(w, [job[w] EXCEPT !.pc = "write", !.event = "Pending"])
      <4> DEFINE k == [job[w] EXCEPT !.pc = "write", !.event = "Pending"]
      <4>1. /\ k \in Job /\ k.pc = "write" /\ k.event = "Pending"
            /\ k.mem = job[w].mem /\ k.kind = job[w].kind
        BY <1>j DEF Job
      <4>2. Become(w, k)
        BY <3>1
      <4> HIDE DEF k
      <4>3. WellFormed(k) /\ (SaysSuccess(k) => SaysSuccess(job[w]))
        BY <1>4, <1>j, <4>1 DEF CreateAtProvider, WellFormed, SaysSuccess
      <4> QED
        BY <4>1, <4>2, <4>3
    <3>2. CASE Become(w, Writes(job[w], "Failed"))
      BY <1>j, <3>2, WritesJob DEF Final
    <3> QED
      BY <1>4, <3>1, <3>2 DEF CreateAtProvider
  <2>2. SaysSuccess(j) => Collected'
    BY <1>j, <2>1
  <2>3. /\ job' \in [Worker -> Job]
        /\ \A v \in Worker : WellFormed(job'[v])
        /\ \A v \in Worker : SaysSuccess(job'[v]) => Collected'
        /\ \A v \in Worker : job'[v].pc = "create" => v # w /\ job[v].pc = "create"
    BY <1>c, <2>1, <2>2, Move
  <2>4. job[w].pc = "create"
    BY <1>4 DEF CreateAtProvider
  <2>5. \A v \in Worker : job'[v].pc # "create"
    BY <2>3, <2>4 DEF CollectInv, CreatedOnce
  <2>6. /\ used' \in [FaultKind -> Nat] /\ prov' \in {"none", "Pending"}
        /\ UNCHANGED <<row, hooks, due, told, recon, ruled>>
    BY <1>4, <1>s DEF CreateAtProvider, operator, CollectInv, TypeOK
  <2>7. TypeOK'
    BY <2>3, <2>6 DEF CollectInv, TypeOK
  <2> QED
    BY <1>r, <1>h, <1>j, <2>3, <2>4, <2>5, <2>6, <2>7, Kept DEF Paid
<1>5. ASSUME NEW w \in Worker, Inquire(w) \/ CancelAtProvider(w) PROVE CollectInv'
  <2>0. job[w].pc \in {"inquire", "cancel"} /\ job[w].kind \notin {"resolve", "webhook"} /\ job[w].mem.status # "none"
    BY <1>5, <1>j DEF Inquire, CancelAtProvider, WellFormed
  <2>1. PICK j \in Job : /\ Become(w, j) /\ j.pc # "create" /\ WellFormed(j)
                         /\ SaysSuccess(j) => Collected'
    <3>1. CASE Become(w, Idle)
      BY <3>1, IdleJob
    <3>2. CASE \E s \in Final \cup {"Pending"} :
                 Become(w, Writes(job[w], s)) /\ (s = "Success" => Collected')
      <4>1. PICK s \in Final \cup {"Pending"} : Become(w, Writes(job[w], s)) /\ (s = "Success" => Collected')
        BY <3>2
      <4>2. job[w] \in Job /\ job[w].kind \notin {"resolve", "webhook"} /\ (SaysSuccess(job[w]) => Collected')
        BY <1>j, <2>0
      <4>3. /\ Writes(job[w], s) \in Job /\ Writes(job[w], s).pc = "write" /\ WellFormed(Writes(job[w], s))
            /\ SaysSuccess(Writes(job[w], s)) => SaysSuccess(job[w]) \/ s = "Success"
        BY <4>2, WritesJob
      <4> QED
        BY <4>1, <4>2, <4>3
    <3>3. CASE Inquire(w) /\ prov # "none" /\ Become(w, Writes(job[w], prov))
      <4>1. prov \in Final \cup {"Pending"} /\ (prov = "Success" => Collected')
        BY <1>c, <3>3 DEF CollectInv, TypeOK, Collected
      <4> QED
        BY <3>2, <3>3, <4>1
    <3>4. CASE Become(w, Writes(job[w], job[w].mem.status))
      <4>1. job[w].mem.status \in Final \cup {"Pending"}
        BY <1>j, <2>0 DEF Job, Payment, Status
      <4>2. job[w].mem.status = "Success" => Collected'
        BY <1>j DEF SaysSuccess, Paid
      <4> QED
        BY <3>2, <3>4, <4>1, <4>2
    <3>5. CASE Become(w, Writes(job[w], "Cancelled"))
      BY <3>2, <3>5 DEF Final
    <3> QED
      BY <1>5, <3>1, <3>3, <3>4, <3>5 DEF Inquire, CancelAtProvider
  <2>2. /\ job' \in [Worker -> Job]
        /\ \A v \in Worker : WellFormed(job'[v])
        /\ \A v \in Worker : SaysSuccess(job'[v]) => Collected'
        /\ \A v \in Worker : job'[v].pc = "create" => job[v].pc = "create"
    BY <1>c, <2>1, Move
  <2>3. /\ used' \in [FaultKind -> Nat] /\ prov' \in {prov, "Cancelled"} /\ (prov # "Pending" => prov' = prov)
        /\ hooks' \subseteq hooks \cup {"Cancelled"}
        /\ UNCHANGED <<row, due, told, recon, ruled>>
    BY <1>5, <1>s DEF Inquire, CancelAtProvider, outside, operator, CollectInv, TypeOK
  <2>4. TypeOK'
    BY <2>2, <2>3 DEF CollectInv, TypeOK, Final
  <2> QED
    BY <1>r, <1>h, <1>j, <1>p, <2>0, <2>2, <2>3, <2>4, Kept DEF Paid
<1>6. ASSUME NEW w \in Worker, Write(w) PROVE CollectInv'
  <2> DEFINE mem == job[w].mem
  <2>0. /\ job[w] \in Job /\ job[w].pc = "write" /\ mem \in Payment /\ mem.status # "none"
        /\ row.status # "none" /\ (Paid(mem) => Collected')
    BY <1>6, <1>j DEF Write, WellFormed, Job, SaysSuccess
  <2>1. PICK j \in Job : /\ Become(w, j) /\ j.pc # "create" /\ WellFormed(j)
                         /\ SaysSuccess(j) => Collected'
    <3>1. ASSUME NEW pc \in {"announce", "close"}, pc = "announce" => job[w].event # None,
                 pc = "close" => job[w].kind = "resolve", Become(w, [job[w] EXCEPT !.pc = pc])
          PROVE  \E j \in Job : /\ Become(w, j) /\ j.pc # "create" /\ WellFormed(j)
                                /\ SaysSuccess(j) => Collected'
      <4> DEFINE j == [job[w] EXCEPT !.pc = pc]
      <4>1. j \in Job /\ j.pc = pc /\ j.mem = mem /\ j.kind = job[w].kind /\ j.event = job[w].event
        BY <2>0 DEF Job
      <4>2. Become(w, j)
        BY <3>1
      <4> HIDE DEF j
      <4>3. WellFormed(j) /\ (SaysSuccess(j) => Collected')
        BY <1>j, <2>0, <3>1, <4>1 DEF WellFormed, SaysSuccess
      <4> QED
        BY <3>1, <4>1, <4>2, <4>3
    <3>2. CASE Become(w, Idle)
      BY <3>2, IdleJob
    <3>3. \/ Become(w, Idle)
          \/ job[w].event # None /\ Become(w, [job[w] EXCEPT !.pc = "announce"])
          \/ job[w].kind = "resolve" /\ Become(w, [job[w] EXCEPT !.pc = "close"])
      BY <1>6, ConstAssumption DEF Write, Finished, Status, Final
    <3> QED
      BY <3>1, <3>2, <3>3
  <2>2. /\ job' \in [Worker -> Job]
        /\ \A v \in Worker : WellFormed(job'[v])
        /\ \A v \in Worker : SaysSuccess(job'[v]) => Collected'
        /\ \A v \in Worker : job'[v].pc = "create" => job[v].pc = "create"
    BY <1>c, <2>1, Move
  <2>3. /\ used' \in [FaultKind -> Nat] /\ row' \in {row, mem}
        /\ hooks' = hooks \/ (hooks' = hooks \cup {mem.status} /\ job[w].kind = "webhook")
        /\ UNCHANGED <<prov, due, told, recon, ruled>>
    BY <1>6, <1>s DEF Write, operator, CollectInv, TypeOK
  <2>4. hooks' \subseteq Final /\ ("Success" \in hooks' => Collected')
    BY <1>h, <1>j, <2>0, <2>3 DEF WellFormed, CollectInv, TypeOK, Paid
  <2>5. TypeOK'
    BY <2>0, <2>2, <2>3, <2>4 DEF CollectInv, TypeOK
  <2> QED
    BY <1>r, <1>h, <1>p, <2>0, <2>2, <2>3, <2>4, <2>5, Kept
<1>7. ASSUME NEW w \in Worker, Announce(w) \/ CloseReconciliation(w) \/ Crash(w) PROVE CollectInv'
  <2>0. job[w] \in Job /\ job[w].pc # "idle" /\ row.status # "none"
    BY <1>7, <1>j DEF Announce, CloseReconciliation, Crash, Active
  <2>1. PICK j \in Job : /\ Become(w, j) /\ j.pc # "create" /\ WellFormed(j)
                         /\ SaysSuccess(j) => Collected'
    <3>1. CASE Become(w, Idle)
      BY <3>1, IdleJob
    <3>2. CASE Announce(w) /\ job[w].kind = "resolve" /\ Become(w, [job[w] EXCEPT !.pc = "close"])
      <4> DEFINE j == [job[w] EXCEPT !.pc = "close"]
      <4>1. j \in Job /\ j.pc = "close" /\ j.mem = job[w].mem /\ j.kind = job[w].kind /\ j.event = job[w].event
        BY <2>0 DEF Job
      <4>2. Become(w, j)
        BY <3>2
      <4> HIDE DEF j
      <4>3. WellFormed(j) /\ (SaysSuccess(j) => Collected')
        BY <1>j, <2>0, <3>2, <4>1 DEF WellFormed, SaysSuccess
      <4> QED
        BY <4>1, <4>2, <4>3
    <3> QED
      BY <1>7, <3>1, <3>2 DEF Announce, CloseReconciliation, Crash, Finished
  <2>2. /\ job' \in [Worker -> Job]
        /\ \A v \in Worker : WellFormed(job'[v])
        /\ \A v \in Worker : SaysSuccess(job'[v]) => Collected'
        /\ \A v \in Worker : job'[v].pc = "create" => job[v].pc = "create"
    BY <1>c, <2>1, Move
  <2>3. /\ used' \in [FaultKind -> Nat]
        /\ UNCHANGED <<row, prov, hooks, due, ruled>>
    BY <1>7, <1>s DEF Announce, CloseReconciliation, Crash, outside, operator, CollectInv, TypeOK
  <2>4. told' \in [Final \cup {"Pending"} -> Nat] /\ (told'["Success"] > 0 => Collected')
    <3>1. told \in [Final \cup {"Pending"} -> Nat]
      BY DEF CollectInv, TypeOK
    <3>2. CASE Announce(w)
      <4> DEFINE e == job[w].event
      <4>1. told' = [told EXCEPT ![e] = told[e] + 1] /\ (e = "Success" => Collected')
        BY <1>j, <3>2 DEF Announce, WellFormed, SaysSuccess
      <4>2. e \in Final \cup {"Pending"}
        BY <1>j, <3>2 DEF Announce, WellFormed, Job
      <4> HIDE DEF e
      <4>3. told' \in [Final \cup {"Pending"} -> Nat] /\ (e # "Success" => told'["Success"] = told["Success"])
        BY <3>1, <4>1, <4>2 DEF Final
      <4> QED
        BY <1>h, <4>1, <4>3
    <3>3. CASE ~Announce(w)
      BY <1>7, <1>h, <3>1, <3>3 DEF CloseReconciliation, Crash
    <3> QED
      BY <3>2, <3>3
  <2>5. recon' \in [status : {"none", "open", "resolved"}, resolved : Final \cup {None}]
    <3>1. CASE CloseReconciliation(w)
      <4>1. job[w].mem.status \in Final
        BY <1>j, <2>0, <3>1 DEF CloseReconciliation, WellFormed
      <4> QED
        BY <3>1, <4>1 DEF CloseReconciliation, CollectInv, TypeOK
    <3>2. CASE ~CloseReconciliation(w)
      BY <1>7, <3>2 DEF Announce, Crash, operator, CollectInv, TypeOK
    <3> QED
      BY <3>1, <3>2
  <2>6. TypeOK'
    BY <2>2, <2>3, <2>4, <2>5 DEF CollectInv, TypeOK
  <2> QED
    BY <1>r, <1>h, <1>p, <2>0, <2>2, <2>3, <2>4, <2>6, Kept DEF Paid
<1>8. ASSUME NEW s \in {"Success", "Failed", "Expired"}, ProviderSettles(s) PROVE CollectInv'
  <2>1. prov = "Pending" /\ prov' = s /\ hooks' = hooks \cup {s} /\ UNCHANGED <<row, job, due, told, recon, ruled, used>>
    BY <1>8 DEF ProviderSettles, operator
  <2>2. row.status # "none" /\ \A v \in Worker : job[v].pc # "create"
    BY <1>p, <2>1 DEF CollectInv, CreatedOnce
  <2>3. TypeOK'
    BY <2>1 DEF CollectInv, TypeOK, Final
  <2>4. "Success" \in hooks' => Collected'
    BY <1>h, <2>1 DEF Collected
  <2> QED
    BY <1>r, <1>h, <1>j, <2>1, <2>2, <2>3, <2>4, Kept
<1>9. ASSUME Deadline \/ OpenReconciliation PROVE CollectInv'
  <2>1. row.status # "none" /\ UNCHANGED <<row, job, prov, hooks, told, ruled>>
    BY <1>9 DEF Deadline, OpenReconciliation, outside, operator
  <2>2. due' \in BOOLEAN /\ used' \in [FaultKind -> Nat]
    BY <1>9, <1>s DEF Deadline, OpenReconciliation, outside, CollectInv, TypeOK
  <2>3. recon' \in [status : {"none", "open", "resolved"}, resolved : Final \cup {None}]
    BY <1>9 DEF Deadline, OpenReconciliation, operator, CollectInv, TypeOK
  <2>4. TypeOK'
    BY <2>1, <2>2, <2>3 DEF CollectInv, TypeOK
  <2> QED
    BY <1>r, <1>h, <1>j, <1>p, <2>1, <2>4, Kept
<1>10. ASSUME UNCHANGED vars PROVE CollectInv'
  BY <1>10 DEF vars, CollectInv, TypeOK, CreatedOnce, Grounded, Collected, Active, Job
<1> QED
  BY <1>1, <1>2, <1>3, <1>4, <1>5, <1>6, <1>7, <1>8, <1>9, <1>10 DEF Next, Step

\* No Success that nobody paid: paid_at, the status of the row and what the
\* client is told agree with the provider or with an operator, however the
\* handlers overlap, fail, repeat or die.
THEOREM SuccessIsReal == Spec => []SuccessIsCollected
<1>1. CollectInv => SuccessIsCollected
  BY DEF CollectInv, Grounded, SuccessIsCollected, Paid
<1> QED
  BY CollectInit, CollectStep, <1>1, PTL DEF Spec

-----------------------------------------------------------------------------
(***************************************************************************)
(* A final status the row is left with was announced.                      *)
(***************************************************************************)

\* The status was told, or a handler is about to tell it, or one died.
Announced(s) ==
    \/ used["crash"] > 0
    \/ told[s] > 0
    \/ \E w \in Worker : job[w].pc = "announce" /\ job[w].event = s

Heard == {s \in Final : Announced(s)}

\* A handler that asks the provider took the payment for pending.  One that
\* writes a final status announces it, unless the row had it when it was read.
Announces(j, heard) ==
    /\ j.pc \in {"create", "inquire", "cancel"} => j.mem.status = "Pending"
    /\ j.pc = "write" /\ j.event # None => j.event = j.mem.status
    /\ j.pc = "write" /\ j.event = None /\ j.mem.status \in Final => j.mem.status \in heard

AnnounceInv ==
    /\ row.status \in Final => row.status \in Heard
    /\ \A w \in Worker : Announces(job[w], Heard)

\* What was announced stays so.
LEMMA AnnouncedStays ==
    CollectInv /\ [Next]_vars => Heard \subseteq Heard'
<1> SUFFICES ASSUME CollectInv, [Next]_vars, NEW s \in Final, Announced(s) PROVE Announced(s)'
  BY DEF Heard
<1>t. /\ job \in [Worker -> Job] /\ told \in [Final \cup {"Pending"} -> Nat] /\ used \in [FaultKind -> Nat]
      /\ "crash" \in FaultKind
  BY DEF CollectInv, TypeOK, FaultKind
<1>s. /\ used["crash"] > 0 => used'["crash"] > 0
      /\ Spend("crash") => used'["crash"] > 0
  <2>1. used["crash"] \in Nat /\ used'["crash"] \in Nat /\ used'["crash"] >= used["crash"]
    BY <1>t, FaultsCounted
  <2>2. Spend("crash") => used'["crash"] > 0
    BY <1>t, CauseCounts DEF Spend
  <2> QED
    BY <2>1, <2>2
<1>1. ASSUME NEW w \in Worker, NEW j, Become(w, j), job[w].pc # "announce",
             UNCHANGED told, (used["crash"] > 0 => used'["crash"] > 0)
      PROVE  Announced(s)'
  <2>1. \A v \in Worker \ {w} : job'[v] = job[v]
    BY <1>1, <1>t DEF Become
  <2> QED
    BY <1>1, <2>1 DEF Announced
<1>2. ASSUME NEW w \in Worker, CreatePayment(w) \/ Refresh(w) \/ Cancel(w) \/ Expire(w) PROVE Announced(s)'
  <2>1. job[w].pc # "announce" /\ UNCHANGED told /\ (used["crash"] > 0 => used'["crash"] > 0)
    BY <1>2, <1>s DEF CreatePayment, Refresh, Cancel, Expire, Enter, Active
  <2> QED
    BY <1>1, <1>2, <2>1 DEF CreatePayment, Refresh, Cancel, Expire
<1>3. ASSUME NEW w \in Worker, NEW f \in Final, ApplyWebhook(w, f) \/ Resolve(w, f) PROVE Announced(s)'
  <2>1. job[w].pc # "announce" /\ UNCHANGED told /\ (used["crash"] > 0 => used'["crash"] > 0)
    BY <1>3, <1>s DEF ApplyWebhook, Resolve, Enter, Active
  <2> QED
    BY <1>1, <1>3, <2>1 DEF ApplyWebhook, Resolve
<1>4. ASSUME NEW w \in Worker, CreateAtProvider(w) \/ Inquire(w) \/ CancelAtProvider(w) PROVE Announced(s)'
  <2>1. job[w].pc # "announce" /\ UNCHANGED told /\ (used["crash"] > 0 => used'["crash"] > 0)
    BY <1>4, <1>s DEF CreateAtProvider, Inquire, CancelAtProvider
  <2> QED
    BY <1>1, <1>4, <2>1 DEF CreateAtProvider, Inquire, CancelAtProvider
<1>5. ASSUME NEW w \in Worker, Write(w) \/ CloseReconciliation(w) PROVE Announced(s)'
  <2>1. job[w].pc # "announce" /\ UNCHANGED told /\ (used["crash"] > 0 => used'["crash"] > 0)
    BY <1>5, <1>s DEF Write, CloseReconciliation
  <2> QED
    BY <1>1, <1>5, <2>1 DEF Write, CloseReconciliation
<1>6. ASSUME NEW w \in Worker, Announce(w) PROVE Announced(s)'
  <2> DEFINE e == job[w].event
  <2>1. told' = [told EXCEPT ![e] = told[e] + 1] /\ used' = used
    BY <1>6 DEF Announce
  <2>2. \A v \in Worker \ {w} : job'[v] = job[v]
    BY <1>6, <1>t DEF Announce, Become
  <2>3. e = s => told'[s] > 0
    BY <1>t, <2>1
  <2>4. told[s] > 0 => told'[s] > 0
    BY <1>t, <2>1
  <2> QED
    BY <2>1, <2>2, <2>3, <2>4 DEF Announced
<1>7. ASSUME NEW w \in Worker, Crash(w) PROVE Announced(s)'
  BY <1>7, <1>s DEF Crash, Announced
<1>8. ASSUME NEW f \in {"Success", "Failed", "Expired"}, ProviderSettles(f) PROVE Announced(s)'
  BY <1>8 DEF ProviderSettles, Announced
<1>9. ASSUME Deadline \/ OpenReconciliation PROVE Announced(s)'
  <2>1. UNCHANGED <<job, told>> /\ (used["crash"] > 0 => used'["crash"] > 0)
    BY <1>9, <1>s DEF Deadline, OpenReconciliation
  <2> QED
    BY <2>1 DEF Announced
<1>10. ASSUME UNCHANGED vars PROVE Announced(s)'
  BY <1>10 DEF vars, Announced
<1> QED
  BY <1>2, <1>3, <1>4, <1>5, <1>6, <1>7, <1>8, <1>9, <1>10 DEF Next, Step

\* A job about to write a status announces it, or the copy had it before.
LEMMA WritesAnnounces ==
    ASSUME NEW j \in Job, NEW s \in Final \cup {"Pending"}
    PROVE  /\ Writes(j, s).pc = "write" /\ Writes(j, s).mem.status = s
           /\ s = j.mem.status => Writes(j, s).event = None
           /\ s # j.mem.status => Writes(j, s).event = s
<1> DEFINE mem == WithStatus(j.mem, s)
           event == IF s = j.mem.status THEN None ELSE s
           k == [j EXCEPT !.pc = "write", !.mem = mem, !.event = event]
<1>1. mem.status = s
  BY DEF WithStatus
<1>2. Writes(j, s) = k
  BY DEF Writes
<1> HIDE DEF mem, event
<1>3. k.pc = "write" /\ k.mem = mem /\ k.event = event
  BY DEF Job
<1> QED
  BY <1>1, <1>2, <1>3 DEF event

LEMMA AnnounceStep == CollectInv /\ AnnounceInv /\ [Next]_vars => AnnounceInv'
<1> SUFFICES ASSUME CollectInv, AnnounceInv, [Next]_vars PROVE AnnounceInv'
  OBVIOUS
<1>a. Heard \subseteq Heard'
  BY AnnouncedStays
<1>t. /\ job \in [Worker -> Job] /\ row \in Payment
      /\ \A w \in Worker : job[w] \in Job /\ WellFormed(job[w]) /\ Announces(job[w], Heard)
  BY DEF CollectInv, TypeOK, AnnounceInv
<1>r. row.status \in Final => row.status \in Heard'
  BY <1>a DEF AnnounceInv
<1>1. ASSUME NEW w \in Worker, NEW j, Become(w, j), Announces(j, Heard'),
             row'.status \in Final => row'.status \in Heard'
      PROVE  AnnounceInv'
  <2>1. \A v \in Worker : job'[v] = IF v = w THEN j ELSE job[v]
    BY <1>1, <1>t DEF Become
  <2>2. \A v \in Worker : Announces(job'[v], Heard')
    BY <1>1, <1>a, <1>t, <2>1 DEF Announces
  <2> QED
    BY <1>1, <2>2 DEF AnnounceInv
<1>i. Announces(Idle, Heard')
  BY DEF Announces, Idle
<1>2. ASSUME NEW j \in Job, NEW s \in Final \cup {"Pending"}, s = j.mem.status /\ s \in Final => s \in Heard'
      PROVE  Announces(Writes(j, s), Heard')
  <2> DEFINE k == Writes(j, s)
  <2>1. /\ k.pc = "write" /\ k.mem.status = s
        /\ s = j.mem.status => k.event = None
        /\ s # j.mem.status => k.event = s
    BY WritesAnnounces
  <2>2. s # None
    BY ConstAssumption DEF Status
  <2> HIDE DEF k
  <2>3. Announces(k, Heard')
    BY <1>2, <2>1, <2>2 DEF Announces
  <2> QED
    BY <2>3 DEF k
<1>h. ASSUME NEW kind \in {"refresh", "cancel", "expire", "webhook", "resolve"},
             NEW pc \in {"inquire", "cancel", "write"}
      PROVE  /\ Handler(kind, pc) \in Job /\ Handler(kind, pc).mem = row
             /\ row.status = "Pending" => Announces(Handler(kind, pc), Heard')
  <2>1. Handler(kind, pc) \in Job /\ Handler(kind, pc).mem = row /\ Handler(kind, pc).event = None
    BY <1>t, TakenJob, HandlerIsTaken
  <2> QED
    BY <2>1 DEF Announces, Final
<1>3. ASSUME NEW w \in Worker, CreatePayment(w) PROVE AnnounceInv'
  <2> DEFINE first == [NoPayment EXCEPT !.status = "Pending"]
  <2>1. first \in Payment /\ first.status = "Pending"
    BY DEF NoPayment, Payment, Status
  <2> HIDE DEF first
  <2>2. row' = first /\ Become(w, Taken("create", "create", first))
    BY <1>3 DEF CreatePayment, first, Handler, Idle, Taken
  <2>3. Announces(Taken("create", "create", first), Heard')
    BY <2>1, TakenJob DEF Announces
  <2> QED
    BY <1>1, <2>1, <2>2, <2>3 DEF Final
<1>4. ASSUME NEW w \in Worker, Refresh(w) \/ Cancel(w) PROVE AnnounceInv'
  BY <1>1, <1>4, <1>h, <1>r DEF Refresh, Cancel
<1>5. ASSUME NEW w \in Worker, Expire(w) PROVE AnnounceInv'
  <2> DEFINE h == Handler("expire", "write")
  <2>1. h \in Job /\ h.mem = row /\ row.status = "Pending" /\ Become(w, Writes(h, "Expired")) /\ row' = row
    BY <1>5, <1>h DEF Expire
  <2> HIDE DEF h
  <2>2. Announces(Writes(h, "Expired"), Heard')
    BY <1>2, <2>1 DEF Final
  <2> QED
    BY <1>1, <1>r, <2>1, <2>2
<1>6. ASSUME NEW w \in Worker, NEW s \in Final, ApplyWebhook(w, s) \/ Resolve(w, s) PROVE AnnounceInv'
  <2>1. CASE Become(w, Idle)
    BY <1>1, <1>6, <1>i, <1>r, <2>1 DEF ApplyWebhook, Resolve
  <2>2. CASE \E kind \in {"webhook", "resolve"} : Become(w, Writes(Handler(kind, "write"), s))
    <3>1. PICK kind \in {"webhook", "resolve"} : Become(w, Writes(Handler(kind, "write"), s))
      BY <2>2
    <3> DEFINE h == Handler(kind, "write")
    <3>2. h \in Job /\ h.mem = row
      BY <1>h
    <3>3. Become(w, Writes(h, s)) /\ row' = row
      BY <1>6, <3>1 DEF ApplyWebhook, Resolve
    <3> HIDE DEF h
    <3>4. Announces(Writes(h, s), Heard')
      BY <1>2, <1>r, <3>2
    <3> QED
      BY <1>1, <1>r, <3>3, <3>4
  <2> QED
    BY <1>6, <2>1, <2>2 DEF ApplyWebhook, Resolve
<1>7. ASSUME NEW w \in Worker, CreateAtProvider(w) \/ Inquire(w) \/ CancelAtProvider(w) PROVE AnnounceInv'
  <2>0. job[w] \in Job /\ job[w].mem.status = "Pending" /\ row' = row
    BY <1>7, <1>t DEF CreateAtProvider, Inquire, CancelAtProvider, Announces
  <2>1. CASE Become(w, Idle)
    BY <1>1, <1>i, <1>r, <2>0, <2>1
  <2>2. ASSUME NEW s \in Final \cup {"Pending"}, Become(w, Writes(job[w], s)) PROVE AnnounceInv'
    <3>1. Announces(Writes(job[w], s), Heard')
      BY <1>2, <2>0 DEF Final
    <3> QED
      BY <1>1, <1>r, <2>0, <2>2, <3>1
  <2>3. CASE Become(w, [job[w] EXCEPT !.pc = "write", !.event = "Pending"])
    <3> DEFINE k == [job[w] EXCEPT !.pc = "write", !.event = "Pending"]
    <3>1. k.pc = "write" /\ k.event = "Pending" /\ k.mem = job[w].mem
      BY <2>0 DEF Job
    <3>2. Become(w, k)
      BY <2>3
    <3> HIDE DEF k
    <3>3. Announces(k, Heard')
      BY <2>0, <3>1 DEF Announces, Final
    <3> QED
      BY <1>1, <1>r, <2>0, <3>2, <3>3
  <2>4. /\ "Failed" \in Final \cup {"Pending"} /\ "Cancelled" \in Final \cup {"Pending"}
        /\ job[w].mem.status \in Final \cup {"Pending"}
        /\ prov # "none" => prov \in Final \cup {"Pending"}
    BY <2>0 DEF Final, CollectInv, TypeOK
  <2> QED
    BY <1>7, <2>1, <2>2, <2>3, <2>4 DEF CreateAtProvider, Inquire, CancelAtProvider
<1>8. ASSUME NEW w \in Worker, Write(w) PROVE AnnounceInv'
  <2> DEFINE j == job[w]
             k == [j EXCEPT !.pc = "announce"]
  <2>0. j \in Job /\ j.pc = "write" /\ Announces(j, Heard)
    BY <1>8, <1>t DEF Write
  <2>1. k.pc = "announce" /\ k.event = j.event
    BY <2>0 DEF Job
  <2>2. Announces(k, Heard') /\ Announces(Finished(j), Heard')
    <3>1. Announces(k, Heard')
      BY <2>1 DEF Announces
    <3>2. [j EXCEPT !.pc = "close"].pc = "close"
      BY <2>0 DEF Job
    <3>3. Announces([j EXCEPT !.pc = "close"], Heard')
      BY <3>2 DEF Announces
    <3> QED
      BY <1>i, <3>1, <3>3 DEF Finished
  <2>3. CASE row' = row /\ (Become(w, k) \/ Become(w, Idle))
    BY <1>1, <1>i, <1>r, <2>2, <2>3
  <2>4. CASE row' = j.mem /\ j.event = None /\ Become(w, Finished(j))
    <3>1. j.mem.status \in Final => j.mem.status \in Heard'
      BY <1>a, <2>0, <2>4 DEF Announces
    <3> QED
      BY <1>1, <2>2, <2>4, <3>1
  <2>5. CASE row' = j.mem /\ j.event # None /\ Become(w, k)
    <3>1. j.event = j.mem.status
      BY <2>0, <2>5 DEF Announces
    <3>2. job'[w] = k
      BY <1>t, <2>5 DEF Become
    <3> HIDE DEF k
    <3>3. row'.status \in Final => row'.status \in Heard'
      BY <2>1, <2>5, <3>1, <3>2 DEF Heard, Announced
    <3> QED
      BY <1>1, <2>2, <2>5, <3>3
  <2> QED
    BY <1>8, <2>3, <2>4, <2>5 DEF Write
<1>9. ASSUME NEW w \in Worker, Announce(w) \/ CloseReconciliation(w) \/ Crash(w) PROVE AnnounceInv'
  <2>1. row' = row /\ (Become(w, Idle) \/ Become(w, [job[w] EXCEPT !.pc = "close"]))
    BY <1>9 DEF Announce, CloseReconciliation, Crash, Finished
  <2>2. [job[w] EXCEPT !.pc = "close"].pc = "close"
    BY <1>t DEF Job
  <2>3. Announces([job[w] EXCEPT !.pc = "close"], Heard')
    BY <2>2 DEF Announces
  <2> QED
    BY <1>1, <1>i, <1>r, <2>1, <2>3
<1>10. ASSUME UNCHANGED <<row, job>> PROVE AnnounceInv'
  BY <1>10, <1>a, <1>t, <1>r DEF AnnounceInv, Announces
<1>11. ASSUME NEW s \in {"Success", "Failed", "Expired"}, ProviderSettles(s) PROVE AnnounceInv'
  BY <1>10, <1>11 DEF ProviderSettles
<1>12. ASSUME Deadline \/ OpenReconciliation \/ UNCHANGED vars PROVE AnnounceInv'
  BY <1>10, <1>12 DEF Deadline, OpenReconciliation, vars
<1> QED
  BY <1>3, <1>4, <1>5, <1>6, <1>7, <1>8, <1>9, <1>11, <1>12 DEF Next, Step

LEMMA AnnounceInit == Init => AnnounceInv
<1> SUFFICES ASSUME Init PROVE AnnounceInv
  OBVIOUS
<1>1. row.status \notin Final /\ \A w \in Worker : job[w].pc = "idle"
  BY IdleJob DEF Init, Final
<1> QED
  BY <1>1 DEF AnnounceInv, Announces

\* A payment left in a final status was announced with that status, however
\* handlers overwrite each other and writes fail, unless a process died.
THEOREM FinalIsTold == Spec => []FinalIsAnnounced
<1>1. CollectInv /\ AnnounceInv => FinalIsAnnounced
  <2> SUFFICES ASSUME CollectInv, AnnounceInv, \A w \in Worker : ~Active(w),
                      used["crash"] = 0, row.status \in Final
               PROVE  told[row.status] > 0
    BY DEF FinalIsAnnounced
  <2>1. Announced(row.status)
    BY DEF AnnounceInv, Heard
  <2> QED
    BY <2>1 DEF Announced, Active
<1> QED
  BY CollectInit, CollectStep, AnnounceInit, AnnounceStep, <1>1, PTL DEF Spec

-----------------------------------------------------------------------------
(***************************************************************************)
(* Handlers that have not overlapped so far.                               *)
(***************************************************************************)

InTurn == used["overlap"] = 0

\* One handler at a time; what it was started for still holds; a reconciliation
\* is closed with the status the payment has, and leaves nothing to do.
TurnInv ==
    /\ \A v, w \in Worker : Active(v) /\ Active(w) => v = w
    /\ \A w \in Worker :
         /\ job[w].pc \in {"create", "inquire", "cancel", "write"} /\ job[w].kind # "resolve" =>
              row.status = "Pending"
         /\ Active(w) /\ job[w].kind = "resolve" =>
              /\ recon.status = "open"
              /\ job[w].pc \in {"announce", "close"} => job[w].mem.status = row.status
    /\ recon.status = "resolved" => /\ row.status = recon.resolved /\ recon.resolved \in Final
                                    /\ \A w \in Worker : ~Active(w)

\* What w does when nobody else is at work.
LEMMA Alone ==
    ASSUME CollectInv, NEW w \in Worker, NEW j \in Job, Become(w, j),
           \A v \in Worker \ {w} : ~Active(v),
           recon'.status = "resolved" => row'.status = recon'.resolved /\ recon'.resolved \in Final /\ j.pc = "idle",
           j.pc \in {"create", "inquire", "cancel", "write"} /\ j.kind # "resolve" => row'.status = "Pending",
           j.pc # "idle" /\ j.kind = "resolve" =>
              /\ recon'.status = "open"
              /\ j.pc \in {"announce", "close"} => j.mem.status = row'.status
    PROVE  TurnInv'
<1>1. \A v \in Worker : job'[v] = IF v = w THEN j ELSE job[v]
  BY DEF Become, CollectInv, TypeOK
<1> QED
  BY <1>1 DEF TurnInv, Active

\* A handler that enters without an overlap enters alone.
LEMMA NobodyElse ==
    ASSUME CollectInv, InTurn', NEW w \in Worker, NEW K, Enter(w, K)
    PROVE  \A v \in Worker : ~Active(v)
<1>1. used \in [FaultKind -> Nat] /\ "overlap" \in FaultKind
  BY DEF CollectInv, TypeOK, FaultKind
<1>2. ~Cause(K \cup {"overlap"})
  BY <1>1, CauseCounts DEF InTurn
<1> QED
  BY <1>2 DEF Enter

\* The kind and the end of a job about to write.
LEMMA WritesKind ==
    ASSUME NEW j \in Job, NEW s \in Final \cup {"Pending"}
    PROVE  Writes(j, s).kind = j.kind /\ Writes(j, s).pc = "write"
<1> DEFINE mem == WithStatus(j.mem, s)
           event == IF s = j.mem.status THEN None ELSE s
           k == [j EXCEPT !.pc = "write", !.mem = mem, !.event = event]
<1>1. Writes(j, s) = k
  BY DEF Writes
<1> HIDE DEF mem, event
<1> QED
  BY <1>1 DEF Job

LEMMA TurnInit == Init => TurnInv
  BY IdleJob DEF Init, TurnInv, Active

LEMMA TurnStep == CollectInv /\ TurnInv /\ [Next]_vars /\ InTurn' => TurnInv'
<1> SUFFICES ASSUME CollectInv, TurnInv, [Next]_vars, InTurn' PROVE TurnInv'
  OBVIOUS
<1>t. \A w \in Worker : job[w] \in Job /\ WellFormed(job[w])
  BY DEF CollectInv, TypeOK
<1>r. row \in Payment
  BY DEF CollectInv, TypeOK
<1>f. \A w \in Worker : \A K : Enter(w, K) => \A v \in Worker : ~Active(v)
  BY NobodyElse
<1>a. \A w \in Worker : Active(w) => (\A v \in Worker \ {w} : ~Active(v)) /\ recon.status # "resolved"
  BY DEF TurnInv
<1>o. recon.status = "resolved" => row.status = recon.resolved /\ recon.resolved \in Final
  BY DEF TurnInv
<1>i. Idle \in Job /\ Idle.pc = "idle"
  BY IdleJob
<1>1. ASSUME NEW w \in Worker, CreatePayment(w) PROVE TurnInv'
  <2> DEFINE first == [NoPayment EXCEPT !.status = "Pending"]
             j == Taken("create", "create", first)
  <2>1. first \in Payment /\ first.status = "Pending"
    BY DEF NoPayment, Payment, Status
  <2> HIDE DEF first
  <2>2. row' = first /\ Become(w, j) /\ recon' = recon /\ row.status = "none" /\ \E K : Enter(w, K)
    BY <1>1 DEF CreatePayment, first, Handler, Idle, Taken, operator
  <2>3. j \in Job /\ j.kind = "create" /\ j.pc = "create"
    BY <2>1, TakenJob
  <2> HIDE DEF j
  <2>4. recon.status # "resolved"
    BY <1>o, <2>2 DEF Final
  <2> QED
    BY <1>f, <2>1, <2>2, <2>3, <2>4, Alone
<1>2. ASSUME NEW w \in Worker, Refresh(w) \/ Cancel(w) \/ Expire(w) PROVE TurnInv'
  <2>1. row.status = "Pending" /\ UNCHANGED <<row, recon>> /\ \E K : Enter(w, K)
    BY <1>2 DEF Refresh, Cancel, Expire, operator
  <2>2. PICK j \in Job : Become(w, j) /\ j.kind # "resolve" /\ j.pc \in {"inquire", "cancel", "write"}
    <3>1. CASE Refresh(w)
      BY <1>r, <3>1, TakenJob, HandlerIsTaken DEF Refresh
    <3>2. CASE Cancel(w)
      BY <1>r, <3>2, TakenJob, HandlerIsTaken DEF Cancel
    <3>3. CASE Expire(w)
      <4> DEFINE h == Handler("expire", "write")
      <4>1. h \in Job /\ h.kind = "expire" /\ Become(w, Writes(h, "Expired"))
        BY <1>r, <3>3, TakenJob, HandlerIsTaken DEF Expire
      <4> HIDE DEF h
      <4> QED
        BY <4>1, WritesJob, WritesKind DEF Final
    <3> QED
      BY <1>2, <3>1, <3>2, <3>3
  <2>3. recon.status # "resolved"
    BY <1>o, <2>1 DEF Final
  <2> QED
    BY <1>f, <2>1, <2>2, <2>3, Alone
<1>3. ASSUME NEW w \in Worker, NEW s \in Final, ApplyWebhook(w, s) \/ Resolve(w, s) PROVE TurnInv'
  <2>1. UNCHANGED <<row, recon>> /\ \A v \in Worker : ~Active(v)
    BY <1>3, <1>f DEF ApplyWebhook, Resolve, operator
  <2>2. CASE Become(w, Idle)
    BY <1>o, <1>i, <2>1, <2>2, Alone
  <2>3. ASSUME NEW kind \in {"webhook", "resolve"}, Become(w, Writes(Handler(kind, "write"), s)),
               kind = "webhook" => row.status = "Pending", kind = "resolve" => recon.status = "open"
        PROVE  TurnInv'
    <3> DEFINE h == Handler(kind, "write")
    <3>1. h \in Job /\ h.kind = kind /\ Become(w, Writes(h, s))
      BY <1>r, <2>3, TakenJob, HandlerIsTaken
    <3> HIDE DEF h
    <3>2. Writes(h, s) \in Job /\ Writes(h, s).kind = kind /\ Writes(h, s).pc = "write"
      BY <3>1, WritesJob, WritesKind
    <3>3. recon.status # "resolved"
      BY <1>o, <2>3 DEF Final
    <3> QED
      BY <2>1, <2>3, <3>1, <3>2, <3>3, Alone
  <2>4. CASE ApplyWebhook(w, s) /\ ~Ignores(row)
    <3>1. row.status = "Pending"
      BY <1>r, <2>4 DEF ApplyWebhook, Ignores, Payment, Status
    <3> QED
      BY <2>3, <2>4, <3>1 DEF ApplyWebhook
  <2>5. CASE Resolve(w, s)
    BY <2>3, <2>5 DEF Resolve
  <2> QED
    BY <1>3, <2>2, <2>4, <2>5 DEF ApplyWebhook
<1>4. ASSUME NEW w \in Worker, CreateAtProvider(w) \/ Inquire(w) \/ CancelAtProvider(w) PROVE TurnInv'
  <2>1. /\ UNCHANGED <<row, recon>> /\ job[w] \in Job /\ Active(w)
        /\ job[w].kind # "resolve" /\ row.status = "Pending"
    BY <1>4, <1>t DEF CreateAtProvider, Inquire, CancelAtProvider, operator, Active, WellFormed, TurnInv
  <2>2. PICK j \in Job : Become(w, j) /\ (j.pc = "idle" \/ (j.pc = "write" /\ j.kind = job[w].kind))
    <3>1. CASE Become(w, Idle)
      <4>1. Idle \in Job /\ Become(w, Idle) /\ (Idle.pc = "idle" \/ (Idle.pc = "write" /\ Idle.kind = job[w].kind))
        BY <3>1, IdleJob
      <4> QED
        BY <4>1
    <3>2. CASE \E s \in Final \cup {"Pending"} : Become(w, Writes(job[w], s))
      <4>1. job[w].kind \notin {"webhook", "resolve"}
        BY <1>4, <1>t DEF CreateAtProvider, Inquire, CancelAtProvider, WellFormed
      <4> QED
        BY <2>1, <3>2, <4>1, WritesJob, WritesKind
    <3>3. CASE Become(w, [job[w] EXCEPT !.pc = "write", !.event = "Pending"])
      <4> DEFINE k == [job[w] EXCEPT !.pc = "write", !.event = "Pending"]
      <4>1. k \in Job /\ k.pc = "write" /\ k.kind = job[w].kind
        BY <2>1 DEF Job
      <4> QED
        BY <3>3, <4>1
    <3>4. /\ "Failed" \in Final \cup {"Pending"} /\ "Cancelled" \in Final \cup {"Pending"}
          /\ prov # "none" => prov \in Final \cup {"Pending"}
          /\ job[w].pc = "inquire" => job[w].mem.status \in Final \cup {"Pending"}
      BY <1>t, <2>1 DEF Final, Status, Payment, Job, WellFormed, CollectInv, TypeOK
    <3> QED
      BY <1>4, <3>1, <3>2, <3>3, <3>4 DEF CreateAtProvider, Inquire, CancelAtProvider
  <2> QED
    BY <1>a, <2>1, <2>2, Alone
<1>5. ASSUME NEW w \in Worker, Write(w) PROVE TurnInv'
  <2> DEFINE j == job[w]
             k == [j EXCEPT !.pc = "announce"]
             c == [j EXCEPT !.pc = "close"]
  <2>1. j \in Job /\ j.pc = "write" /\ Active(w) /\ recon' = recon
        /\ (j.kind = "resolve" => recon.status = "open")
    BY <1>5, <1>t DEF Write, operator, Active, TurnInv
  <2>2. /\ k \in Job /\ k.pc = "announce" /\ k.kind = j.kind /\ k.mem = j.mem
        /\ c \in Job /\ c.pc = "close" /\ c.kind = j.kind /\ c.mem = j.mem
    BY <2>1 DEF Job
  <2>3. CASE Become(w, Idle)
    BY <1>a, <1>i, <2>1, <2>3, Alone
  <2>4. CASE row' = j.mem /\ (Become(w, k) \/ Become(w, c))
    <3> HIDE DEF j, k, c
    <3> QED
      BY <1>a, <2>1, <2>2, <2>4, Alone
  <2>5. CASE Become(w, k) /\ j.kind = "create"
    <3> HIDE DEF j, k, c
    <3> QED
      BY <1>a, <2>1, <2>2, <2>5, Alone
  <2> QED
    BY <1>5, <2>3, <2>4, <2>5 DEF Write, Finished
<1>6. ASSUME NEW w \in Worker, Announce(w) \/ CloseReconciliation(w) \/ Crash(w) PROVE TurnInv'
  <2> DEFINE j == job[w]
             c == [j EXCEPT !.pc = "close"]
  <2>1. j \in Job /\ Active(w) /\ UNCHANGED row
    BY <1>6, <1>t DEF Announce, CloseReconciliation, Crash, Active
  <2>2. c \in Job /\ c.pc = "close" /\ c.kind = j.kind /\ c.mem = j.mem
    BY <2>1 DEF Job
  <2>3. CASE Announce(w) /\ j.kind = "resolve"
    <3>1. Become(w, c) /\ recon' = recon /\ recon.status = "open" /\ j.mem.status = row.status
      BY <2>1, <2>3 DEF Announce, Finished, operator, TurnInv
    <3> HIDE DEF j, c
    <3> QED
      BY <1>a, <2>1, <2>2, <2>3, <3>1, Alone
  <2>4. CASE CloseReconciliation(w)
    <3>1. j.mem.status = row.status /\ j.mem.status \in Final /\ recon.status = "open" /\ j.kind = "resolve"
      BY <1>t, <2>1, <2>4 DEF CloseReconciliation, TurnInv, WellFormed, Active
    <3>2. recon' = [status |-> "resolved", resolved |-> j.mem.status] /\ Become(w, Idle)
      BY <2>4, <3>1 DEF CloseReconciliation
    <3>3. recon'.resolved = j.mem.status
      BY <3>2
    <3> HIDE DEF j
    <3> QED
      BY <1>a, <1>i, <2>1, <3>1, <3>2, <3>3, Alone
  <2>5. CASE Become(w, Idle) /\ recon' = recon
    BY <1>a, <1>i, <2>1, <2>5, Alone
  <2> QED
    BY <1>6, <2>3, <2>4, <2>5 DEF Announce, Crash, Finished, operator
<1>7. ASSUME UNCHANGED <<row, job, recon>> PROVE TurnInv'
  BY <1>7 DEF TurnInv, Active
<1>8. ASSUME OpenReconciliation PROVE TurnInv'
  <2>1. recon.status = "none" /\ recon' = [recon EXCEPT !.status = "open"] /\ UNCHANGED <<row, job>>
    BY <1>8 DEF OpenReconciliation
  <2>2. recon'.status = "open"
    BY <2>1 DEF CollectInv, TypeOK
  <2>3. \A w \in Worker : Active(w) => job[w].kind # "resolve"
    BY <2>1 DEF TurnInv
  <2> QED
    BY <2>1, <2>2, <2>3 DEF TurnInv, Active
<1>9. ASSUME NEW s \in {"Success", "Failed", "Expired"}, ProviderSettles(s) PROVE TurnInv'
  BY <1>7, <1>9 DEF ProviderSettles, operator
<1>10. ASSUME Deadline \/ UNCHANGED vars PROVE TurnInv'
  BY <1>7, <1>10 DEF Deadline, operator, vars
<1> QED
  BY <1>1, <1>2, <1>3, <1>4, <1>5, <1>6, <1>8, <1>9, <1>10 DEF Next, Step

\* As long as no two handlers have overlapped.
TurnsTaken == InTurn => TurnInv

LEMMA TurnsInit == Init => TurnsTaken
  BY TurnInit DEF TurnsTaken

\* Overlaps are counted: who is in turn now has been so far.
LEMMA StillInTurn == CollectInv /\ [Next]_vars /\ InTurn' => InTurn
<1> SUFFICES ASSUME CollectInv, [Next]_vars, InTurn' PROVE InTurn
  OBVIOUS
<1>1. used["overlap"] \in Nat /\ used'["overlap"] >= used["overlap"]
  BY FaultsCounted DEF CollectInv, TypeOK, FaultKind
<1> QED
  BY <1>1 DEF InTurn

LEMMA TurnsStep == CollectInv /\ TurnsTaken /\ [Next]_vars => TurnsTaken'
  BY StillInTurn, TurnStep DEF TurnsTaken

\* Handlers in turn so far: a resolved reconciliation and the payment agree, whatever
\* fails or dies in between.
THEOREM ResolutionHolds == Spec => []ResolutionStands
<1>1. TurnsTaken => ResolutionStands
  BY DEF TurnsTaken, InTurn, TurnInv, ResolutionStands
<1> QED
  BY CollectInit, CollectStep, TurnsInit, TurnsStep, <1>1, PTL DEF Spec

-----------------------------------------------------------------------------
\* No two handlers have overlapped and every write has reached the database.
Orderly == InTurn /\ used["db"] = 0

\* Until an operator rules, the final status that was told is the one of the
\* row, was told once, and a handler about to tell one is the first to do so.
OnceInv == ruled = {} =>
    /\ \A w \in Worker : Active(w) => job[w].kind # "resolve"
    /\ \A s \in Final : told[s] <= 1 /\ (told[s] > 0 => row.status = s)
    /\ \A w \in Worker : job[w].pc = "announce" =>
         job[w].event = row.status /\ \A s \in Final : told[s] = 0

LEMMA OnceInit == Init => OnceInv
  BY IdleJob DEF Init, OnceInv, Active

LEMMA OnceStep ==
    CollectInv /\ AnnounceInv /\ TurnInv /\ OnceInv /\ [Next]_vars /\ Orderly' => OnceInv'
<1> SUFFICES ASSUME CollectInv, AnnounceInv, TurnInv, OnceInv, [Next]_vars, Orderly', ruled' = {} PROVE OnceInv'
  BY DEF OnceInv
<1>t. /\ \A w \in Worker : job[w] \in Job /\ WellFormed(job[w])
      /\ told \in [Final \cup {"Pending"} -> Nat] /\ used \in [FaultKind -> Nat] /\ row \in Payment
      /\ job \in [Worker -> Job]
  BY DEF CollectInv, TypeOK
<1>n. InTurn'
  BY DEF Orderly
<1>d. ~Spend("db")
  BY <1>t, CauseCounts DEF Spend, Orderly, FaultKind
<1>r. ruled = {}
  <2>1. ruled \subseteq ruled'
    BY DEF Next, Step, CreatePayment, Refresh, Cancel, Expire, ApplyWebhook, Resolve, CreateAtProvider,
           Inquire, CancelAtProvider, Write, Announce, CloseReconciliation, Crash, ProviderSettles,
           Deadline, OpenReconciliation, operator, vars
  <2> QED
    BY <2>1
<1>o. /\ \A w \in Worker : Active(w) => job[w].kind # "resolve"
      /\ \A s \in Final : told[s] <= 1 /\ (told[s] > 0 => row.status = s)
      /\ \A w \in Worker : job[w].pc = "announce" =>
           job[w].event = row.status /\ \A s \in Final : told[s] = 0
  BY <1>r DEF OnceInv
<1>f. \A w \in Worker : \A K : Enter(w, K) => \A v \in Worker : ~Active(v)
  BY <1>n, NobodyElse
<1>a. \A w \in Worker : Active(w) => \A v \in Worker \ {w} : ~Active(v)
  BY DEF TurnInv
<1>p. row.status = "none" \/ row.status = "Pending" => \A s \in Final : told[s] = 0
  <2> SUFFICES ASSUME row.status = "none" \/ row.status = "Pending", NEW s \in Final PROVE told[s] = 0
    OBVIOUS
  <2>1. row.status # s /\ told[s] \in Nat
    BY <1>t DEF Final
  <2> QED
    BY <1>o, <2>1
<1>1. ASSUME NEW w \in Worker, NEW j \in Job, Become(w, j), \A v \in Worker \ {w} : ~Active(v),
             j.pc # "idle" => j.kind # "resolve", j.pc # "announce",
             UNCHANGED told, row' = row \/ \A s \in Final : told[s] = 0
      PROVE  OnceInv'
  <2>1. \A v \in Worker : job'[v] = IF v = w THEN j ELSE job[v]
    BY <1>1, <1>t DEF Become
  <2>2. \A v \in Worker : (Active(v)' => job'[v].kind # "resolve") /\ job'[v].pc # "announce"
    BY <1>1, <2>1 DEF Active
  <2>3. \A s \in Final : told'[s] <= 1 /\ (told'[s] > 0 => row'.status = s)
    BY <1>1, <1>o
  <2> QED
    BY <2>2, <2>3 DEF OnceInv
<1>2. ASSUME NEW w \in Worker, CreatePayment(w) PROVE OnceInv'
  <2> DEFINE first == [NoPayment EXCEPT !.status = "Pending"]
             j == Taken("create", "create", first)
  <2>1. first \in Payment
    BY DEF NoPayment, Payment, Status
  <2> HIDE DEF first
  <2>2. Become(w, j) /\ UNCHANGED told /\ row.status = "none" /\ \E K : Enter(w, K)
    BY <1>2 DEF CreatePayment, first, Handler, Idle, Taken
  <2>3. j \in Job /\ j.kind = "create" /\ j.pc = "create"
    BY <2>1, TakenJob
  <2> HIDE DEF j
  <2> QED
    BY <1>1, <1>f, <1>p, <2>2, <2>3
<1>3. ASSUME NEW w \in Worker, Refresh(w) \/ Cancel(w) PROVE OnceInv'
  <2>1. UNCHANGED <<row, told>> /\ \E K : Enter(w, K)
    BY <1>3 DEF Refresh, Cancel
  <2>2. PICK j \in Job : Become(w, j) /\ j.kind # "resolve" /\ j.pc # "announce"
    BY <1>3, <1>t, TakenJob, HandlerIsTaken DEF Refresh, Cancel
  <2> QED
    BY <1>1, <1>f, <2>1, <2>2
<1>4. ASSUME NEW w \in Worker, NEW s \in Final, Expire(w) \/ ApplyWebhook(w, s) \/ Resolve(w, s) PROVE OnceInv'
  <2>1. UNCHANGED <<row, told>> /\ \E K : Enter(w, K) /\ ~Resolve(w, s)
    BY <1>4 DEF Expire, ApplyWebhook, Resolve
  <2>2. CASE Become(w, Idle)
    BY <1>1, <1>f, <2>1, <2>2, IdleJob
  <2>3. ASSUME NEW kind \in {"expire", "webhook"}, NEW e \in Final, Become(w, Writes(Handler(kind, "write"), e))
        PROVE  OnceInv'
    <3> DEFINE h == Handler(kind, "write")
    <3>1. h \in Job /\ h.kind = kind /\ Become(w, Writes(h, e))
      BY <1>t, <2>3, TakenJob, HandlerIsTaken
    <3> HIDE DEF h
    <3>2. Writes(h, e) \in Job /\ Writes(h, e).kind = kind /\ Writes(h, e).pc = "write"
      BY <3>1, WritesJob, WritesKind
    <3> QED
      BY <1>1, <1>f, <2>1, <3>1, <3>2
  <2> QED
    BY <1>4, <2>1, <2>2, <2>3 DEF Expire, ApplyWebhook, Final
<1>5. ASSUME NEW w \in Worker, CreateAtProvider(w) \/ Inquire(w) \/ CancelAtProvider(w) PROVE OnceInv'
  <2>1. UNCHANGED <<row, told>> /\ job[w] \in Job /\ Active(w) /\ job[w].kind # "resolve"
    BY <1>5, <1>t, <1>o DEF CreateAtProvider, Inquire, CancelAtProvider, Active
  <2>2. PICK j \in Job : Become(w, j) /\ (j.pc = "idle" \/ (j.pc = "write" /\ j.kind = job[w].kind))
    <3>1. CASE Become(w, Idle)
      <4>1. Idle \in Job /\ Become(w, Idle) /\ (Idle.pc = "idle" \/ (Idle.pc = "write" /\ Idle.kind = job[w].kind))
        BY <3>1, IdleJob
      <4> QED
        BY <4>1
    <3>2. CASE \E s \in Final \cup {"Pending"} : Become(w, Writes(job[w], s))
      <4>1. job[w].kind \notin {"webhook", "resolve"}
        BY <1>5, <1>t DEF CreateAtProvider, Inquire, CancelAtProvider, WellFormed
      <4> QED
        BY <2>1, <3>2, <4>1, WritesJob, WritesKind
    <3>3. CASE Become(w, [job[w] EXCEPT !.pc = "write", !.event = "Pending"])
      <4> DEFINE k == [job[w] EXCEPT !.pc = "write", !.event = "Pending"]
      <4>1. k \in Job /\ k.pc = "write" /\ k.kind = job[w].kind
        BY <2>1 DEF Job
      <4> QED
        BY <3>3, <4>1
    <3>4. /\ "Failed" \in Final \cup {"Pending"} /\ "Cancelled" \in Final \cup {"Pending"}
          /\ prov # "none" => prov \in Final \cup {"Pending"}
          /\ job[w].pc = "inquire" => job[w].mem.status \in Final \cup {"Pending"}
      BY <1>t, <2>1 DEF Final, Status, Payment, Job, WellFormed, CollectInv, TypeOK
    <3> QED
      BY <1>5, <3>1, <3>2, <3>3, <3>4 DEF CreateAtProvider, Inquire, CancelAtProvider
  <2> QED
    BY <1>1, <1>a, <2>1, <2>2
<1>6. ASSUME NEW w \in Worker, Write(w) PROVE OnceInv'
  <2> DEFINE j == job[w]
             k == [j EXCEPT !.pc = "announce"]
  <2>1. /\ j \in Job /\ j.pc = "write" /\ Active(w) /\ UNCHANGED told /\ row' = j.mem
        /\ j.kind # "resolve" /\ \A s \in Final : told[s] = 0
    BY <1>6, <1>t, <1>d, <1>o, <1>p DEF Write, Active, TurnInv
  <2>2. k \in Job /\ k.pc = "announce" /\ k.kind = j.kind /\ k.event = j.event
    BY <2>1 DEF Job
  <2>3. CASE j.event = None /\ Become(w, Idle)
    BY <1>1, <1>a, <2>1, <2>3, IdleJob
  <2>4. CASE j.event # None /\ Become(w, k)
    <3>1. j.event = j.mem.status
      BY <2>1, <2>4 DEF AnnounceInv, Announces
    <3> HIDE DEF k
    <3>2. \A v \in Worker : job'[v] = IF v = w THEN k ELSE job[v]
      BY <1>t, <2>4 DEF Become
    <3>3. \A v \in Worker \ {w} : ~Active(v)
      BY <1>a, <2>1
    <3> HIDE DEF j
    <3>4. \A v \in Worker : /\ Active(v)' => job'[v].kind # "resolve"
                            /\ job'[v].pc = "announce" => v = w
      BY <2>1, <2>2, <3>2, <3>3 DEF Active
    <3>5. job'[w].event = row'.status
      BY <2>1, <2>2, <3>1, <3>2
    <3> QED
      BY <2>1, <3>4, <3>5 DEF OnceInv
  <2> QED
    BY <1>6, <1>d, <2>1, <2>3, <2>4 DEF Write, Finished
<1>7. ASSUME NEW w \in Worker, Announce(w) PROVE OnceInv'
  <2> DEFINE e == job[w].event
  <2>1. /\ Become(w, Idle) /\ row' = row /\ e = row.status /\ (\A s \in Final : told[s] = 0)
        /\ told' = [told EXCEPT ![e] = told[e] + 1] /\ \A v \in Worker \ {w} : ~Active(v)
    BY <1>7, <1>o, <1>a DEF Announce, Finished, Active
  <2>2. \A v \in Worker : job'[v] = IF v = w THEN Idle ELSE job[v]
    BY <1>t, <2>1 DEF Become
  <2>3. \A v \in Worker : ~Active(v)'
    BY <2>1, <2>2, IdleJob DEF Active
  <2> HIDE DEF e
  <2>4. \A s \in Final : told'[s] = IF s = e THEN 1 ELSE 0
    BY <1>t, <2>1
  <2>5. \A s \in Final : told'[s] <= 1 /\ (told'[s] > 0 => row'.status = s)
    BY <2>1, <2>4
  <2> QED
    BY <2>3, <2>5 DEF OnceInv, Active
<1>8. ASSUME NEW w \in Worker, CloseReconciliation(w) \/ Crash(w) PROVE OnceInv'
  <2>1. Become(w, Idle) /\ Active(w) /\ UNCHANGED <<row, told>>
    BY <1>8 DEF CloseReconciliation, Crash, Active
  <2> QED
    BY <1>1, <1>a, <2>1, IdleJob
<1>9. ASSUME UNCHANGED <<row, job, told>> PROVE OnceInv'
  BY <1>9, <1>o DEF OnceInv, Active
<1>10. ASSUME NEW s \in {"Success", "Failed", "Expired"}, ProviderSettles(s) PROVE OnceInv'
  BY <1>9, <1>10 DEF ProviderSettles
<1>11. ASSUME Deadline \/ OpenReconciliation \/ UNCHANGED vars PROVE OnceInv'
  BY <1>9, <1>11 DEF Deadline, OpenReconciliation, vars
<1>12. "Failed" \in Final
  BY DEF Final
<1> QED
  BY <1>2, <1>3, <1>4, <1>5, <1>6, <1>7, <1>8, <1>10, <1>11, <1>12 DEF Next, Step

\* As long as no two handlers have overlapped and no write has failed.
ToldInTurn == Orderly => OnceInv

LEMMA ToldInit == Init => ToldInTurn
  BY OnceInit DEF ToldInTurn

LEMMA ToldStep == CollectInv /\ AnnounceInv /\ TurnsTaken /\ ToldInTurn /\ [Next]_vars => ToldInTurn'
<1> SUFFICES ASSUME CollectInv, AnnounceInv, TurnsTaken, ToldInTurn, [Next]_vars, Orderly' PROVE OnceInv'
  BY DEF ToldInTurn
<1>1. used["db"] \in Nat /\ used'["db"] >= used["db"]
  BY FaultsCounted DEF CollectInv, TypeOK, FaultKind
<1>2. Orderly
  BY <1>1, StillInTurn DEF Orderly
<1> QED
  BY <1>2, OnceStep DEF ToldInTurn, TurnsTaken, Orderly

\* Handlers in turn and a database that has answered so far: the client is told one final
\* status, once, until an operator rules, whatever calls are lost and whichever
\* processes die.
THEOREM ToldOnce == Spec => []AnnouncedOnce
<1>1. CollectInv /\ ToldInTurn => AnnouncedOnce
  <2> SUFFICES ASSUME CollectInv, OnceInv, ruled = {} PROVE AnnouncedOnce
    BY DEF AnnouncedOnce, ToldInTurn, Orderly, InTurn
  <2>1. {s \in Final : told[s] > 0} \in SUBSET {row.status}
    BY DEF OnceInv
  <2>2. IsFiniteSet({row.status}) /\ Cardinality({row.status}) = 1
    BY FS_Singleton
  <2>3. Cardinality({s \in Final : told[s] > 0}) <= 1
    BY <2>1, <2>2, FS_Subset
  <2> QED
    BY <2>3 DEF OnceInv, AnnouncedOnce
<1> QED
  BY CollectInit, CollectStep, AnnounceInit, AnnounceStep, TurnsInit, TurnsStep, ToldInit, ToldStep, <1>1, PTL DEF Spec
=============================================================================
