---------------------- MODULE ProviderTransaction_proofs ----------------------
(***************************************************************************)
(* Theorems about ProviderTransaction, for any number of options, handlers *)
(* and environments, whatever is lost, repeated or overwritten.            *)
(***************************************************************************)
EXTENDS ProviderTransaction, FiniteSetTheorems, TLAPS

\* Each attempt takes an option off the list and the next suffix.
Room(j) ==
    /\ j.pc = "options" => j.suffix = 0
    /\ j.pc = "ask" => j.suffix + Cardinality(j.todo) <= NOption

\* A retry after a reported failure knows whose failure it was.
KnowsFailure(j) == j.kind = "retry" /\ j.pc \in {"options", "ask"} => j.mem.opt \in Option

TypeInv ==
    /\ env \in Environment
    /\ row \in Trx
    /\ job \in [Worker -> Job]
    /\ prov \in [Purchase -> {"none", "pending", "success", "failed"}]
    /\ \A w \in Worker : Room(job[w]) /\ KnowsFailure(job[w])

\* What a row says of the providers is so, if "answers" are theirs and "named" the
\* options that name what they accept.
True(trx, answers, named) ==
    /\ trx.status = "Success" => \E p \in Purchase : answers[p] = "success"
    /\ trx.status = "Processing" /\ ~(trx.opt = None /\ trx.ref = None) =>
          /\ trx.opt \in Option
          /\ \/ trx.ref # None /\ trx.ref[1] = trx.opt /\ answers[trx.ref] # "none"
             \/ trx.opt \notin named /\ (trx.ref = None \/ answers[trx.ref] = "failed")

\* A copy says so as well, and until an attempt is accepted what it names has failed.
Honest(j, answers, named) ==
    /\ True(j.mem, answers, named)
    /\ j.pc \in {"options", "ask"} => j.mem.ref = None \/ answers[j.mem.ref] = "failed"

\* The copies may be written to the row, and told, at any time.
TruthInv ==
    /\ True(row, prov, env.named)
    /\ \A w \in Worker : Honest(job[w], prov, env.named)
    /\ hooks \subseteq Purchase /\ \A p \in hooks : prov[p] = "failed"
    /\ "Success" \in told => Bought # {}

ProvInv == TypeInv /\ TruthInv

-----------------------------------------------------------------------------
(***************************************************************************)
(* Codes.                                                                  *)
(***************************************************************************)

LEMMA LookupInCode ==
    ASSUME NEW table, DOMAIN table \subseteq Code, NEW rc PROVE Lookup(table, rc) \in Code
  BY DEF Lookup, Code, Default, BadGateway

\* Every answer, and every error, gets one of the codes of the contract.
LEMMA PublicCodeInCode ==
    ASSUME NEW provider, NEW phase, NEW resp, resp.public \in Code \cup {""}
    PROVE  PublicCode(provider, phase, resp) \in Code
<1>1. \A table \in {AlterraTable, KiosbankCommon, KiosbankInquiry, KiosbankPayment} :
        Lookup(table, resp.rc) \in Code
  BY LookupInCode, TablesAreFunctions
<1>2. /\ Default \in Code /\ "PROVIDER_TIMEOUT" \in Code /\ "PROVIDER_UNAVAILABLE" \in Code
      /\ {"PRODUCT_UNAVAILABLE", "PROVIDER_BALANCE_INSUFFICIENT", "DUPLICATE_TRANSACTION",
          "UPSTREAM_REQUEST_INVALID", "UPSTREAM_AUTH_ERROR"} \subseteq Code
  BY DEF Code, Default, BadGateway, GatewayTimeout, Unavailable, Conflict
<1>3. ASSUME NEW other \in Code PROVE Transport(resp, other) \in Code
  BY <1>2 DEF Transport
<1>4. Alterra(resp) \in Code
  <2> DEFINE last == IF resp.http \in {401, 403} THEN "UPSTREAM_AUTH_ERROR"
                     ELSE IF resp.http = 504 THEN "PROVIDER_TIMEOUT"
                     ELSE Transport(resp, IF resp.rc = "4xx" THEN "UPSTREAM_REQUEST_INVALID" ELSE Default)
             next == IF resp.text = "duplicate order id" \/ resp.http = 422 THEN "DUPLICATE_TRANSACTION"
                     ELSE IF \/ resp.http \in {400, 406}
                             \/ resp.http = 403 /\ resp.text = "invalid product" THEN "UPSTREAM_REQUEST_INVALID"
                     ELSE last
             first == IF resp.text = "product closed" \/ resp.http = 450 THEN "PRODUCT_UNAVAILABLE"
                      ELSE IF resp.text = "insufficient deposit" THEN "PROVIDER_BALANCE_INSUFFICIENT"
                      ELSE next
  <2>1. last \in Code
    BY <1>2, <1>3
  <2>2. ASSUME last \in Code PROVE next \in Code
    <3> HIDE DEF last
    <3> QED
      BY <1>2, <2>2
  <2>3. ASSUME next \in Code PROVE first \in Code
    <3> HIDE DEF next
    <3> QED
      BY <1>2, <2>3
  <2>4. first \in Code
    BY <2>1, <2>2, <2>3
  <2>5. Alterra(resp) = IF \E code \in DOMAIN AlterraTable : resp.rc \in AlterraTable[code]
                        THEN Lookup(AlterraTable, resp.rc) ELSE first
    BY Zenon DEF Alterra
  <2> HIDE DEF first
  <2> QED
    BY <1>1, <2>4, <2>5
<1>5. Either(resp.rc, KiosbankInquiry, KiosbankCommon) \in Code /\ Either(resp.rc, KiosbankPayment, KiosbankCommon) \in Code
  BY <1>1 DEF Either
<1>6. Kiosbank(phase, resp) \in Code
  BY <1>2, <1>3, <1>5 DEF Kiosbank
<1> QED
  BY <1>2, <1>3, <1>4, <1>6 DEF PublicCode

LEMMA ChosenInCode == ASSUME NEW best \in Code \cup {NoCode} PROVE Chosen(best) \in Code
  BY DEF Chosen, Code, Unavailable

LEMMA CodesOfInCode ==
    ASSUME NEW o \in Option, NEW ans \in {"failed", "neterr"} PROVE CodesOf(o, ans) \subseteq Code
<1>1. ASSUME ans = "failed", NEW code \in CodesOf(o, ans) PROVE code \in Code
  <2>1. PICK r \in Refusals[o] : code = PublicCode(Provider[o], "initial_payment", r)
    BY <1>1 DEF CodesOf
  <2>2. r.public \in Code \cup {""}
    BY ConstAssumption
  <2> QED
    BY <2>1, <2>2, PublicCodeInCode
<1>2. ASSUME ans = "neterr", NEW code \in CodesOf(o, ans) PROVE code \in Code
  <2>1. PICK e \in Loss : code = PublicCode(Provider[o], "initial_payment",
                                   FromError(Provider[o], "initial_payment", e[1], e[2]))
    BY <1>2 DEF CodesOf
  <2>2. FromError(Provider[o], "initial_payment", e[1], e[2]).public \in Code \cup {""}
    BY DEF FromError, Code, GatewayTimeout, Unavailable
  <2> QED
    BY <2>1, <2>2, PublicCodeInCode
<1> QED
  BY <1>1, <1>2

-----------------------------------------------------------------------------
(***************************************************************************)
(* Jobs.                                                                   *)
(***************************************************************************)

LEMMA IdleJob == /\ Idle \in Job /\ Idle.pc = "idle" /\ Idle.mem = NoTrx
                 /\ NoTrx \in Trx /\ NoTrx.status = "none" /\ NoTrx.ref = None
<1>1. NoTrx \in Trx /\ NoTrx.status = "none" /\ NoTrx.ref = None
  BY DEF NoTrx, Trx
<1>2. NOption \in Nat
  BY ConstAssumption
<1> QED
  BY <1>1, <1>2 DEF Idle, Job

\* A job that has not asked yet.
LEMMA StartsJob ==
    ASSUME NEW trx \in Trx, NEW kind \in {"execute", "forced", "retry"}
    PROVE  /\ Starts(kind, trx) \in Job /\ Starts(kind, trx).mem = trx
           /\ Starts(kind, trx).kind = kind /\ Starts(kind, trx).pc = "options"
           /\ Starts(kind, trx).suffix = 0
<1>1. Idle \in Job /\ Idle.suffix = 0
  BY IdleJob DEF Idle
<1> QED
  BY <1>1 DEF Starts, Job

\* There is room for as many attempts as there are options.
LEMMA OptionsFinite ==
    ASSUME NEW todo \in SUBSET Option
    PROVE  IsFiniteSet(todo) /\ Cardinality(todo) \in Nat /\ Cardinality(todo) <= NOption
<1>1. NOption \in Nat
  BY ConstAssumption
<1>2. IsFiniteSet(Option) /\ Cardinality(Option) = NOption
  BY <1>1, FS_Interval DEF Option
<1> QED
  BY <1>1, <1>2, FS_Subset, FS_CardinalityType

\* One more attempt leaves room for the options that are left.
LEMMA AttemptedJob ==
    ASSUME NEW j \in Job, j.pc = "ask", Room(j), NEW o \in j.todo, NEW code \in Code
    PROVE  /\ Attempted(j, o, code) \in Job
           /\ Attempted(j, o, code).pc = "ask" /\ Attempted(j, o, code).kind = j.kind
           /\ Attempted(j, o, code).mem = j.mem /\ Room(Attempted(j, o, code))
           /\ <<o, j.suffix>> \in Purchase
<1> DEFINE rest == j.todo \ {o}
           n == j.suffix + 1
           made == j.made \cup {<<o, j.suffix>>}
           best == Better(j.best, code)
           heard == j.heard \cup {code}
           k == [j EXCEPT !.made = made, !.last = o, !.todo = rest, !.suffix = n,
                          !.best = best, !.heard = heard]
<1>1. /\ j.todo \in SUBSET Option /\ j.suffix \in 0..NOption /\ o \in Option
      /\ j.made \in SUBSET Purchase /\ j.best \in Code \cup {NoCode} /\ j.heard \in SUBSET Code
  BY DEF Job
<1>2. NOption \in Nat
  BY ConstAssumption
<1>3. /\ IsFiniteSet(j.todo) /\ Cardinality(j.todo) \in Nat /\ Cardinality(rest) \in Nat
      /\ Cardinality(rest) = Cardinality(j.todo) - 1
  BY <1>1, OptionsFinite, FS_RemoveElement
<1>4. n \in 0..NOption /\ n + Cardinality(rest) <= NOption
  BY <1>1, <1>2, <1>3 DEF Room
<1>5. <<o, j.suffix>> \in Purchase
  BY <1>1 DEF Purchase
<1>6. /\ rest \in SUBSET Option /\ made \in SUBSET Purchase /\ best \in Code \cup {NoCode}
      /\ heard \in SUBSET Code
  BY <1>1, <1>5 DEF Better
<1>7. Attempted(j, o, code) = k
  BY DEF Attempted
<1> HIDE DEF rest, n, made, best, heard
<1>8. /\ k \in Job /\ k.pc = j.pc /\ k.kind = j.kind /\ k.mem = j.mem
      /\ k.suffix = n /\ k.todo = rest
  BY <1>1, <1>4, <1>6 DEF Job
<1> HIDE DEF k
<1>9. Room(k)
  BY <1>4, <1>8 DEF Room
<1> QED
  BY <1>5, <1>7, <1>8, <1>9

\* A job that has reached a result: what it stores, and that it asks no more.
LEMMA ResultJob ==
    ASSUME NEW j \in Job, NEW mem \in Trx
    PROVE  /\ [j EXCEPT !.pc = "log", !.mem = mem] \in Job
           /\ [j EXCEPT !.pc = "log", !.mem = mem].pc = "log"
           /\ [j EXCEPT !.pc = "log", !.mem = mem].mem = mem
  BY DEF Job

\* "Concludes": k has a typed result, the row mem.
Concludes(k, mem) == k \in Job /\ k.pc = "log" /\ k.mem = mem

LEMMA RejectedJob ==
    ASSUME NEW j \in Job, NEW opt \in Option \cup {None}, NEW code \in Code,
           NEW refs \in SUBSET Purchase, NEW k \in Rejected(j, opt, code, refs)
    PROVE  \E mem \in Trx : mem.status = "Failed" /\ Concludes(k, mem)
<1>1. PICK r \in refs \cup {j.mem.ref} :
        k = [j EXCEPT !.pc = "log", !.mem = [status |-> "Failed", opt |-> opt, ref |-> r, code |-> code]]
  BY DEF Rejected
<1> DEFINE mem == [status |-> "Failed", opt |-> opt, ref |-> r, code |-> code]
<1>2. r \in Purchase \cup {None}
  BY DEF Job, Trx
<1>3. mem \in Trx /\ mem.status = "Failed"
  BY <1>2 DEF Trx, FinalStatus
<1> HIDE DEF mem
<1>4. k = [j EXCEPT !.pc = "log", !.mem = mem]
  BY <1>1 DEF mem
<1> QED
  BY <1>3, <1>4, ResultJob DEF Concludes

LEMMA AcceptedJob ==
    ASSUME NEW j \in Job, NEW o \in Option, NEW status \in {"Success", "Processing"},
           NEW r \in Purchase \cup {None}, <<o, j.suffix>> \in Purchase
    PROVE  \E mem \in Trx :
             /\ Concludes(Accepted(j, o, status, r), mem)
             /\ mem.status = status /\ mem.opt = o /\ mem.ref = r
<1> DEFINE mem == [status |-> status, opt |-> o, ref |-> r, code |-> None]
           made == j.made \cup {<<o, j.suffix>>}
<1>1. mem \in Trx /\ mem.status = status /\ mem.opt = o /\ mem.ref = r
  BY DEF Trx, FinalStatus
<1>2. made \in SUBSET Purchase
  BY DEF Job
<1>3. Accepted(j, o, status, r) = [j EXCEPT !.made = made, !.last = o, !.pc = "log", !.mem = mem]
  BY DEF Accepted
<1> HIDE DEF mem, made
<1>4. Concludes(Accepted(j, o, status, r), mem)
  BY <1>1, <1>2, <1>3 DEF Concludes, Job
<1> QED
  BY <1>1, <1>4

\* What an answer makes of a handler: it asks on, knowing nothing new, or it
\* has a result that the answer justifies.
Follows(j, o, ans, k) ==
    \/ k \in Job /\ k.pc = "ask" /\ k.kind = j.kind /\ k.mem = j.mem /\ Room(k)
    \/ \E mem \in Trx :
         /\ Concludes(k, mem)
         /\ mem.status = "Success" => ans = "success"
         /\ mem.status = "Processing" => ans = "pending"
         /\ mem.status # "Failed" => mem.opt = o /\ mem.ref \in NamedBy(j, o)

LEMMA AfterJob ==
    ASSUME NEW j \in Job, j.pc = "ask", Room(j), NEW o \in j.todo,
           NEW ans \in {"success", "pending", "failed", "neterr"},
           NEW code \in CodesOf(o, ans), NEW k \in After(j, o, ans, code)
    PROVE  Follows(j, o, ans, k)
<1>1. o \in Option /\ j.mem.opt \in Option \cup {None} /\ j.todo \in SUBSET Option
  BY DEF Job, Trx
<1>2. ans \in {"failed", "neterr"} => code \in Code
  BY <1>1, CodesOfInCode
<1>3. "GENERAL_PROVIDER_ERROR" \in Code
  BY DEF Code, BadGateway
<1>4. <<o, j.suffix>> \in Purchase
  BY <1>3, AttemptedJob
<1>n. NamedBy(j, o) \subseteq Purchase \cup {None}
  BY <1>4 DEF NamedBy, Job, Trx
<1>5. CASE k \in AcceptedAs(j, o, "Success") /\ ans = "success"
  <2>1. PICK r \in NamedBy(j, o) : k = Accepted(j, o, "Success", r)
    BY <1>5 DEF AcceptedAs
  <2> QED
    BY <1>1, <1>4, <1>5, <1>n, <2>1, AcceptedJob DEF Follows
<1>6. CASE k \in AcceptedAs(j, o, "Processing") /\ ans = "pending"
  <2>1. PICK r \in NamedBy(j, o) : k = Accepted(j, o, "Processing", r)
    BY <1>6 DEF AcceptedAs
  <2> QED
    BY <1>1, <1>4, <1>6, <1>n, <2>1, AcceptedJob DEF Follows
<1>7. CASE ans = "failed" /\ k \in Rejected(LastWord(j, o, code), o, code, {<<o, j.suffix>>})
  <2> DEFINE a == Attempted(j, o, code)
             heard == {code}
             last == [a EXCEPT !.heard = heard]
  <2>1. a \in Job
    BY <1>2, <1>7, AttemptedJob
  <2>2. LastWord(j, o, code) = last
    BY DEF LastWord
  <2>3. heard \in SUBSET Code
    BY <1>2, <1>7
  <2> HIDE DEF a, heard
  <2>4. last \in Job
    BY <2>1, <2>3 DEF Job
  <2> HIDE DEF last
  <2> QED
    BY <1>1, <1>2, <1>4, <1>7, <2>2, <2>4, RejectedJob DEF Follows
<1>8. CASE ans = "neterr" /\ k \in Rejected(j, j.mem.opt, Chosen(NoCode), {})
  BY <1>1, <1>8, ChosenInCode, RejectedJob DEF Follows
<1>9. CASE ans \in {"failed", "neterr"} /\ k = Attempted(j, o, code)
  BY <1>2, <1>9, AttemptedJob DEF Follows
<1> QED
  BY <1>5, <1>6, <1>7, <1>8, <1>9 DEF After

-----------------------------------------------------------------------------
(***************************************************************************)
(* Steps.                                                                  *)
(***************************************************************************)

\* What a provider has answered it does not take back.
Grown ==
    /\ env' = env /\ prov' \in [Purchase -> {"none", "pending", "success", "failed"}]
    /\ \A p \in Purchase : /\ prov[p] # "none" => prov'[p] # "none"
                           /\ prov[p] \in {"success", "failed"} => prov'[p] = prov[p]

LEMMA Answering ==
    ASSUME TypeInv, env' = env, NEW p \in Purchase, NEW a \in {"success", "pending", "failed"},
           prov[p] \in {"none", "pending"}, prov' = [prov EXCEPT ![p] = a]
    PROVE  Grown /\ prov'[p] = a
  BY DEF TypeInv, Grown

LEMMA Silent == ASSUME TypeInv, UNCHANGED <<env, prov>> PROVE Grown
  BY DEF TypeInv, Grown

LEMMA TrueStays ==
    ASSUME Grown, NEW trx \in Trx, True(trx, prov, env.named) PROVE True(trx, prov', env'.named)
<1>1. trx.ref \in Purchase \cup {None}
  BY DEF Trx
<1> QED
  BY <1>1 DEF Grown, True

LEMMA HonestStays ==
    ASSUME Grown, NEW j \in Job, Honest(j, prov, env.named) PROVE Honest(j, prov', env'.named)
<1>1. j.mem \in Trx /\ j.mem.ref \in Purchase \cup {None}
  BY DEF Job, Trx
<1>2. True(j.mem, prov', env'.named)
  BY <1>1, TrueStays DEF Honest
<1> QED
  BY <1>1, <1>2 DEF Grown, Honest

\* A reported failure stays one.
LEMMA HooksStay == ASSUME ProvInv, Grown PROVE \A p \in hooks : p \in Purchase /\ prov'[p] = "failed"
  BY DEF ProvInv, TruthInv, Grown

\* A step of the handler w, which becomes j.
LEMMA Move ==
    ASSUME ProvInv, Grown, hooks' \subseteq hooks, NEW w \in Worker, NEW j \in Job, Become(w, j),
           Room(j), KnowsFailure(j), Honest(j, prov', env'.named),
           row' \in Trx, True(row', prov', env'.named), "Success" \in told' => Bought' # {}
    PROVE  ProvInv'
<1>1. \A v \in Worker : job'[v] = IF v = w THEN j ELSE job[v]
  BY DEF Become, ProvInv, TypeInv
<1>2. job' \in [Worker -> Job]
  BY DEF Become, ProvInv, TypeInv
<1>3. TypeInv'
  BY <1>1, <1>2 DEF ProvInv, TypeInv, Grown
<1>4. \A v \in Worker : Honest(job'[v], prov', env'.named)
  BY <1>1, HonestStays DEF ProvInv, TypeInv, TruthInv
<1>5. hooks' \subseteq Purchase /\ \A p \in hooks' : prov'[p] = "failed"
  BY HooksStay
<1> QED
  BY <1>3, <1>4, <1>5 DEF ProvInv, TruthInv

\* Nothing but the handler changes: what it writes later is what it knows.
LEMMA Think ==
    ASSUME ProvInv, Grown, hooks' \subseteq hooks, UNCHANGED <<row, told>>,
           NEW w \in Worker, NEW j \in Job, Become(w, j),
           Room(j), KnowsFailure(j), Honest(j, prov', env'.named)
    PROVE  ProvInv'
<1>1. row' \in Trx /\ True(row', prov', env'.named)
  BY TrueStays DEF ProvInv, TypeInv, TruthInv
<1>2. "Success" \in told' => Bought' # {}
  BY DEF ProvInv, TruthInv, Grown, Bought
<1> QED
  BY <1>1, <1>2, Move

LEMMA IdleThinks ==
    Room(Idle) /\ KnowsFailure(Idle) /\ \A answers, named : Honest(Idle, answers, named)
  BY IdleJob DEF Room, KnowsFailure, True, Honest

\* A job that has a result keeps the list and the suffix out of sight.
LEMMA ConcludedJob ==
    ASSUME NEW k, NEW mem, Concludes(k, mem)
    PROVE  /\ k \in Job /\ k.mem = mem /\ Room(k) /\ KnowsFailure(k)
           /\ \A answers, named : True(mem, answers, named) => Honest(k, answers, named)
  BY DEF Concludes, Room, KnowsFailure, Honest

-----------------------------------------------------------------------------
LEMMA ProvInit == Init => ProvInv
<1> SUFFICES ASSUME Init PROVE ProvInv
  OBVIOUS
<1>1. TypeInv
  BY IdleJob, IdleThinks, ConstAssumption DEF Init, TypeInv
<1>2. TruthInv
  BY IdleJob, IdleThinks DEF Init, TruthInv, True
<1> QED
  BY <1>1, <1>2 DEF ProvInv

LEMMA ProvStep == ProvInv /\ [Next]_vars => ProvInv'
<1> SUFFICES ASSUME ProvInv, [Next]_vars PROVE ProvInv'
  OBVIOUS
<1>t. /\ TypeInv /\ row \in Trx /\ True(row, prov, env.named)
      /\ \A w \in Worker : /\ job[w] \in Job /\ Room(job[w]) /\ KnowsFailure(job[w])
                           /\ Honest(job[w], prov, env.named)
  BY DEF ProvInv, TypeInv, TruthInv
<1>1. ASSUME NEW w \in Worker, CreateTrx(w) PROVE ProvInv'
  <2> DEFINE first == [NoTrx EXCEPT !.status = "Processing"]
  <2>1. first \in Trx /\ first.ref = None /\ first.opt = None /\ first.status = "Processing"
    BY DEF NoTrx, Trx
  <2> HIDE DEF first
  <2>2. Grown /\ row' = first /\ UNCHANGED <<told, hooks>>
    BY <1>1, <1>t, Silent DEF CreateTrx, external, first
  <2>3. True(first, prov', env'.named)
    BY <2>1 DEF True
  <2>4. ("Success" \in told' => Bought' # {})
    BY <2>2 DEF ProvInv, TruthInv, Grown, Bought
  <2>5. PICK j \in Job : Become(w, j) /\ j.mem = first /\ j.kind # "retry" /\ j.pc = "options" /\ j.suffix = 0
    <3>1. CASE Become(w, Starts("execute", first))
      <4>1. /\ Starts("execute", first) \in Job /\ Starts("execute", first).mem = first
            /\ Starts("execute", first).kind = "execute" /\ Starts("execute", first).pc = "options"
            /\ Starts("execute", first).suffix = 0
        BY <2>1, StartsJob
      <4> QED
        BY <3>1, <4>1
    <3>2. CASE \E o \in Forced \cap env.offer : Become(w, [Starts("forced", first) EXCEPT !.todo = {o}])
      <4>1. PICK o \in Forced : Become(w, [Starts("forced", first) EXCEPT !.todo = {o}])
        BY <3>2
      <4> DEFINE s == Starts("forced", first)
                 todo == {o}
                 j == [s EXCEPT !.todo = todo]
      <4>2. s \in Job /\ s.mem = first /\ s.kind = "forced" /\ s.pc = "options" /\ s.suffix = 0
        BY <2>1, StartsJob
      <4>3. todo \in SUBSET Option
        BY ConstAssumption
      <4> HIDE DEF s, todo
      <4>4. j \in Job /\ j.mem = first /\ j.kind = "forced" /\ j.pc = "options" /\ j.suffix = 0
        BY <4>2, <4>3 DEF Job
      <4>5. Become(w, j)
        BY <4>1 DEF s, todo
      <4> QED
        BY <4>4, <4>5
    <3> QED
      BY <1>1, <2>2, <3>1, <3>2 DEF CreateTrx
  <2>6. Room(j) /\ KnowsFailure(j) /\ Honest(j, prov', env'.named)
    BY <2>1, <2>3, <2>5 DEF Room, KnowsFailure, Honest
  <2> QED
    BY <2>1, <2>2, <2>3, <2>4, <2>5, <2>6, Move
<1>2. ASSUME NEW w \in Worker, NEW kind \in {"execute", "retry"}, Become(w, Starts(kind, row)),
             UNCHANGED <<env, prov, row, told>>, hooks' \subseteq hooks,
             kind = "retry" => row.opt \in Option, row.ref = None \/ prov[row.ref] = "failed"
      PROVE  ProvInv'
  <2>1. /\ Starts(kind, row) \in Job /\ Starts(kind, row).mem = row /\ Starts(kind, row).kind = kind
        /\ Starts(kind, row).pc = "options" /\ Starts(kind, row).suffix = 0
    BY <1>t, StartsJob
  <2>2. Room(Starts(kind, row)) /\ KnowsFailure(Starts(kind, row))
    BY <1>2, <2>1 DEF Room, KnowsFailure
  <2>3. Grown /\ Honest(Starts(kind, row), prov', env'.named)
    BY <1>2, <1>t, <2>1, Silent, TrueStays DEF Honest
  <2> QED
    BY <1>2, <2>1, <2>2, <2>3, Think
<1>3. ASSUME NEW w \in Worker, ManualRetry(w) PROVE ProvInv'
  BY <1>2, <1>3 DEF ManualRetry, MayRetry, external
<1>4. ASSUME NEW w \in Worker, NEW p \in Purchase, ReportFailure(w, p) PROVE ProvInv'
  <2>1. row.opt \in Option
    <3>1. row.status = "Processing" /\ row.ref = p /\ row.ref # None
      BY <1>4, ConstAssumption DEF ReportFailure
    <3> QED
      BY <1>t, <3>1 DEF True
  <2>2. prov[p] = "failed" /\ hooks' \subseteq hooks /\ row.ref = p
    BY <1>4 DEF ReportFailure, ProvInv, TruthInv
  <2> QED
    BY <1>2, <1>4, <2>1, <2>2 DEF ReportFailure
<1>5. ASSUME NEW w \in Worker, Options(w) PROVE ProvInv'
  <2> DEFINE j == job[w]
  <2>0. /\ j \in Job /\ j.pc = "options" /\ j.suffix = 0 /\ KnowsFailure(j) /\ Grown
        /\ UNCHANGED <<row, told, hooks>> /\ Honest(j, prov', env'.named)
    BY <1>5, <1>t, Silent, HonestStays DEF Options, external, Room
  <2>1. ASSUME NEW todo \in SUBSET Option, Become(w, [j EXCEPT !.pc = "ask", !.todo = todo]) PROVE ProvInv'
    <3> DEFINE k == [j EXCEPT !.pc = "ask", !.todo = todo]
    <3>1. k \in Job /\ k.pc = "ask" /\ k.kind = j.kind /\ k.mem = j.mem /\ k.suffix = 0 /\ k.todo = todo
      BY <2>0 DEF Job
    <3>2. Become(w, k)
      BY <2>1
    <3> HIDE DEF k
    <3>3. Room(k) /\ KnowsFailure(k) /\ Honest(k, prov', env'.named)
      BY <2>0, <3>1, OptionsFinite DEF Room, KnowsFailure, Honest
    <3> HIDE DEF j
    <3> QED
      BY <2>0, <3>1, <3>2, <3>3, Think
  <2>2. CASE Become(w, Idle)
    BY <2>0, <2>2, IdleJob, IdleThinks, Think
  <2>3. ASSUME NEW mem, mem = [j.mem EXCEPT !.status = "Failed", !.code = Chosen(NoCode)],
               Become(w, [j EXCEPT !.pc = "log", !.mem = mem])
        PROVE  ProvInv'
    <3>1. mem \in Trx /\ mem.status = "Failed"
      BY <2>0, <2>3, ChosenInCode DEF Job, Trx, FinalStatus
    <3>2. Concludes([j EXCEPT !.pc = "log", !.mem = mem], mem)
      BY <2>0, <3>1, ResultJob DEF Concludes
    <3>3. True(mem, prov', env'.named)
      BY <3>1 DEF True
    <3> HIDE DEF j
    <3> QED
      BY <2>0, <2>3, <3>2, <3>3, ConcludedJob, Think
  <2>4. env.offer \subseteq Option /\ j.todo \subseteq Option
    BY <1>t, <2>0 DEF TypeInv, Environment, Job
  <2>5. CASE \E available \in IF env.stable THEN {env.offer} ELSE SUBSET env.offer :
               Become(w, [j EXCEPT !.pc = "ask",
                             !.todo = IF j.kind = "forced" THEN j.todo \cap available
                                      ELSE available \ Tried(j)])
    <3>1. PICK available \in IF env.stable THEN {env.offer} ELSE SUBSET env.offer :
               Become(w, [j EXCEPT !.pc = "ask",
                             !.todo = IF j.kind = "forced" THEN j.todo \cap available
                                      ELSE available \ Tried(j)])
      BY <2>5
    <3> DEFINE todo == IF j.kind = "forced" THEN j.todo \cap available ELSE available \ Tried(j)
    <3>2. todo \in SUBSET Option
      BY <2>4
    <3>3. Become(w, [j EXCEPT !.pc = "ask", !.todo = todo])
      BY <3>1
    <3> HIDE DEF todo
    <3> QED
      BY <2>1, <3>2, <3>3
  <2> QED
    BY <1>5, <2>2, <2>3, <2>5 DEF Options
<1>6. ASSUME NEW w \in Worker, NEW o \in Option, job[w].pc = "ask", o \in job[w].todo,
             NEW ans \in {"success", "pending", "failed", "neterr"}, Asked(w, o, ans),
             Grown, UNCHANGED <<row, told, hooks>>, ans # "neterr" => prov'[<<o, job[w].suffix>>] = ans
      PROVE  ProvInv'
  <2> DEFINE j == job[w]
  <2>1. PICK code \in CodesOf(o, ans) : \E k \in After(j, o, ans, code) : Become(w, k)
    BY <1>6 DEF Asked
  <2>2. PICK k \in After(j, o, ans, code) : Become(w, k)
    BY <2>1
  <2>3. j \in Job /\ j.pc = "ask" /\ Room(j) /\ o \in j.todo /\ KnowsFailure(j) /\ Honest(j, prov', env'.named)
    BY <1>6, <1>t, HonestStays
  <2>4. <<o, j.suffix>> \in Purchase
    <3>1. "GENERAL_PROVIDER_ERROR" \in Code
      BY DEF Code, BadGateway
    <3> QED
      BY <2>3, <3>1, AttemptedJob
  <2> HIDE DEF j
  <2>5. Follows(j, o, ans, k)
    BY <2>3, AfterJob
  <2>6. CASE k \in Job /\ k.pc = "ask" /\ k.kind = j.kind /\ k.mem = j.mem /\ Room(k)
    <3>1. KnowsFailure(k) /\ Honest(k, prov', env'.named)
      BY <2>3, <2>6 DEF KnowsFailure, Honest
    <3> QED
      BY <1>6, <2>2, <2>6, <3>1, Think
  <2>7. ASSUME NEW mem \in Trx, Concludes(k, mem),
               mem.status = "Success" => ans = "success", mem.status = "Processing" => ans = "pending",
               mem.status # "Failed" => mem.opt = o /\ mem.ref \in NamedBy(j, o)
        PROVE  ProvInv'
    <3> DEFINE p == <<o, j.suffix>>
    <3>1. ans # "neterr" => prov'[p] = ans
      BY <1>6 DEF j
    <3>2. p \in Purchase /\ p # None /\ p[1] = o /\ o \in Option
      BY <1>6, <2>4, ConstAssumption
    <3>3. \/ mem.status \notin {"Success", "Processing"}
          \/ mem.opt = o /\ mem.ref = p /\ ans # "neterr"
          \/ mem.opt = o /\ o \notin env.named /\ mem.ref = j.mem.ref
      BY <2>7 DEF NamedBy
    <3>4. j.mem.ref = None \/ prov'[j.mem.ref] = "failed"
      BY <2>3 DEF Honest
    <3>5. env' = env
      BY <1>6 DEF Grown
    <3> HIDE DEF p
    <3>6. True(mem, prov', env'.named)
      BY <2>7, <3>1, <3>2, <3>3, <3>4, <3>5 DEF True
    <3> QED
      BY <1>6, <2>2, <2>7, <3>6, ConcludedJob, Think
  <2> QED
    BY <2>5, <2>6, <2>7 DEF Follows
<1>7. ASSUME NEW w \in Worker, Ask(w) PROVE ProvInv'
  <2>1. PICK o \in Option :
          /\ o \in job[w].todo
          /\ \/ prov[<<o, job[w].suffix>>] # "none" /\ Asked(w, o, prov[<<o, job[w].suffix>>]) /\ UNCHANGED prov
             \/ /\ prov[<<o, job[w].suffix>>] = "none"
                /\ \E ans \in {"success", "pending", "failed"} :
                     prov' = [prov EXCEPT ![<<o, job[w].suffix>>] = ans] /\ Asked(w, o, ans)
    BY <1>7 DEF Ask, Turn
  <2> DEFINE p == <<o, job[w].suffix>>
  <2>2. job[w].pc = "ask" /\ UNCHANGED <<env, row, told, hooks>>
    BY <1>7 DEF Ask
  <2>3. p \in Purchase
    BY <1>t DEF Job, Purchase
  <2>4. CASE prov[p] # "none" /\ Asked(w, o, prov[p]) /\ UNCHANGED prov
    <3>1. prov[p] \in {"success", "pending", "failed"} /\ prov'[p] = prov[p] /\ Grown
      BY <1>t, <2>2, <2>3, <2>4, Silent DEF TypeInv
    <3> QED
      BY <1>6, <2>1, <2>2, <2>4, <3>1
  <2>5. ASSUME NEW ans \in {"success", "pending", "failed"}, prov[p] = "none",
               prov' = [prov EXCEPT ![p] = ans], Asked(w, o, ans)
        PROVE  ProvInv'
    <3>1. Grown /\ prov'[p] = ans
      BY <1>t, <2>2, <2>3, <2>5, Answering
    <3> QED
      BY <1>6, <2>1, <2>2, <2>5, <3>1
  <2> QED
    BY <2>1, <2>4, <2>5
<1>8. ASSUME NEW w \in Worker, AskInVain(w) PROVE ProvInv'
  <2>1. PICK o \in Option :
          /\ o \in job[w].todo
          /\ \/ UNCHANGED prov
             \/ /\ prov[<<o, job[w].suffix>>] = "none"
                /\ \E ans \in {"success", "pending", "failed"} :
                     prov' = [prov EXCEPT ![<<o, job[w].suffix>>] = ans]
          /\ Asked(w, o, "neterr")
    BY <1>8 DEF AskInVain, Turn
  <2>2. job[w].pc = "ask" /\ UNCHANGED <<env, row, told, hooks>>
    BY <1>8 DEF AskInVain
  <2>3. <<o, job[w].suffix>> \in Purchase
    BY <1>t DEF Job, Purchase
  <2>4. Grown
    BY <1>t, <2>1, <2>2, <2>3, Answering, Silent
  <2> QED
    BY <1>6, <2>1, <2>2, <2>4
<1>9. ASSUME NEW w \in Worker, Exhaust(w) PROVE ProvInv'
  <2> DEFINE j == job[w]
             reported == IF j.kind = "retry" /\ j.made = {} THEN CodesOf(j.mem.opt, "failed") ELSE {}
             opt == IF j.last = None THEN j.mem.opt ELSE j.last
  <2>1. /\ j \in Job /\ j.pc = "ask" /\ KnowsFailure(j) /\ Grown /\ UNCHANGED <<row, told, hooks>>
    BY <1>9, <1>t, Silent DEF Exhaust, external
  <2>2. PICK code \in {Chosen(j.best)} \cup reported :
          \E k \in Rejected(j, opt, code, j.made) : Become(w, k)
    BY <1>9 DEF Exhaust
  <2>3. PICK k \in Rejected(j, opt, code, j.made) : Become(w, k)
    BY <2>2
  <2>4. code \in Code
    <3>1. reported \subseteq Code
      BY <2>1, CodesOfInCode DEF KnowsFailure
    <3>2. Chosen(j.best) \in Code
      BY <2>1, ChosenInCode DEF Job
    <3> QED
      BY <2>2, <3>1, <3>2
  <2>5. opt \in Option \cup {None} /\ j.made \in SUBSET Purchase
    BY <2>1 DEF Job, Trx
  <2> HIDE DEF j, opt, reported
  <2>6. PICK mem \in Trx : mem.status = "Failed" /\ Concludes(k, mem)
    BY <2>1, <2>3, <2>4, <2>5, RejectedJob
  <2>7. True(mem, prov', env'.named)
    BY <2>6 DEF True
  <2> QED
    BY <2>1, <2>3, <2>6, <2>7, ConcludedJob, Think
<1>10. ASSUME NEW w \in Worker, NEW pc \in {"persist", "notify"}, NEW j, j = [job[w] EXCEPT !.pc = pc]
       PROVE  /\ j \in Job /\ j.mem = job[w].mem /\ Room(j) /\ KnowsFailure(j)
              /\ \A answers, named : Honest(job[w], answers, named) => Honest(j, answers, named)
  <2>1. j \in Job /\ j.mem = job[w].mem /\ j.pc = pc
    BY <1>10, <1>t DEF Job
  <2> QED
    BY <2>1 DEF Room, KnowsFailure, Honest
<1>11. ASSUME NEW w \in Worker, LogAttempts(w) PROVE ProvInv'
  <2>1. Grown /\ Honest(job[w], prov', env'.named) /\ UNCHANGED <<row, told, hooks>>
    BY <1>11, <1>t, Silent, HonestStays DEF LogAttempts, external
  <2>2. Become(w, [job[w] EXCEPT !.pc = "persist"])
    BY <1>11 DEF LogAttempts
  <2> QED
    BY <1>10, <2>1, <2>2, Think
<1>12. ASSUME NEW w \in Worker, Persist(w) \/ Notify(w) \/ Crash(w) PROVE ProvInv'
  <2>1. Grown /\ job[w] \in Job /\ Honest(job[w], prov', env'.named) /\ UNCHANGED hooks
    BY <1>12, <1>t, Silent, HonestStays DEF Persist, Notify, Crash, external
  <2>2. row' \in Trx /\ True(row', prov', env'.named)
    <3>1. row' = row \/ row' = job[w].mem
      BY <1>12 DEF Persist, Notify, Crash
    <3> QED
      BY <1>t, <2>1, <3>1, TrueStays DEF Job, Honest
  <2>3. "Success" \in told' => Bought' # {}
    <3>1. told' \subseteq told \cup {job[w].mem.status}
      BY <1>12 DEF Persist, Notify, Crash
    <3> QED
      BY <2>1, <3>1 DEF ProvInv, TruthInv, Grown, True, Honest, Bought
  <2>4. Become(w, Idle) \/ Become(w, [job[w] EXCEPT !.pc = "notify"])
    BY <1>12 DEF Persist, Notify, Crash
  <2>5. CASE Become(w, Idle)
    BY <2>1, <2>2, <2>3, <2>5, IdleJob, IdleThinks, Move
  <2>6. CASE Become(w, [job[w] EXCEPT !.pc = "notify"])
    BY <1>10, <2>1, <2>2, <2>3, <2>6, Move
  <2> QED
    BY <2>4, <2>5, <2>6
<1>13. ASSUME Grown, UNCHANGED <<row, job, told>>,
              hooks' \subseteq Purchase /\ \A p \in hooks' : prov'[p] = "failed"
       PROVE  ProvInv'
  <2>1. TypeInv'
    BY <1>13, <1>t DEF TypeInv, Grown
  <2>2. True(row, prov', env'.named) /\ \A w \in Worker : Honest(job[w], prov', env'.named)
    BY <1>13, <1>t, TrueStays, HonestStays
  <2>3. "Success" \in told' => Bought' # {}
    BY <1>13 DEF ProvInv, TruthInv, Grown, Bought
  <2> QED
    BY <1>13, <2>1, <2>2, <2>3 DEF ProvInv, TruthInv
<1>14. ASSUME NEW p \in Purchase, Settle(p) PROVE ProvInv'
  <2>1. Grown /\ UNCHANGED <<row, job, told>>
    BY <1>14, <1>t, Answering DEF Settle
  <2>2. \/ hooks' = hooks
        \/ hooks' = hooks \cup {p} /\ prov'[p] = "failed"
    BY <1>14, <1>t DEF Settle, TypeInv
  <2>3. hooks' \subseteq Purchase /\ \A q \in hooks' : prov'[q] = "failed"
    BY <2>1, <2>2, HooksStay
  <2> QED
    BY <1>13, <2>1, <2>3
<1>15. ASSUME UNCHANGED vars PROVE ProvInv'
  BY <1>13, <1>15, <1>t, Silent, HooksStay DEF vars
<1> QED
  BY <1>1, <1>3, <1>4, <1>5, <1>7, <1>8, <1>9, <1>11, <1>12, <1>14, <1>15 DEF Next

\* Success is what a provider completed, in the row and in what the client was
\* told, and rows and copies keep their types: every attempt has a suffix.
THEOREM SuccessIsCharged == Spec => []SuccessMeansCharged
<1>1. ProvInv => SuccessMeansCharged
  BY DEF ProvInv, TypeInv, TruthInv, True, Bought, SuccessMeansCharged
<1> QED
  BY ProvInit, ProvStep, <1>1, PTL DEF Spec

\* While its outcome is awaited, the row names a purchase at the provider it
\* names, unless that provider has named none, and then one that has failed:
\* however stale the copy that was written last, and whatever providers name.
THEOREM RefsMatch == Spec => []RefMatchesProvider
<1>1. ProvInv => RefMatchesProvider
  BY DEF ProvInv, TypeInv, TruthInv, True, RefMatchesProvider
<1> QED
  BY ProvInit, ProvStep, <1>1, PTL DEF Spec

-----------------------------------------------------------------------------
(***************************************************************************)
(* What a client is told of several failures.                              *)
(***************************************************************************)
Outranks(best, heard) == best \in heard /\ \A c \in heard : Rank(best) <= Rank(c)

Speaks(code, heard) ==
    heard # {} => code \in heard /\ (heard \cap ClientError # {} => code \in ClientError)

\* A handler keeps the code that comes first of those it has heard.
Keeps(j) ==
    /\ j.pc = "options" => j.heard = {} /\ j.best = NoCode
    /\ j.pc = "ask" => /\ j.heard = {} => j.best = NoCode
                       /\ j.heard # {} => Outranks(j.best, j.heard)
                       /\ j.made = {} \/ j.kind = "forced" => j.heard = {}
    /\ j.pc \in {"log", "persist", "notify"} /\ j.mem.status = "Failed" => Speaks(j.mem.code, j.heard)

KeepInv == \A w \in Worker : Keeps(job[w])

LEMMA RankIsNat == \A code \in Code : Rank(code) \in Nat /\ code # NoCode
  BY DEF Rank, Precedence, Code, Conflict, Unprocessable, Unavailable, BadGateway, GatewayTimeout, NoCode

\* The two tables agree: what the client can mend comes first.
LEMMA ClientErrorsFirst ==
    \A c \in ClientError, d \in Code \ ClientError : c \in Code /\ Rank(c) < Rank(d)
<1>1. ClientError = Conflict \cup Unprocessable
  BY DEF ClientError, HTTPStatus, Code, Conflict, Unprocessable, Unavailable, BadGateway, GatewayTimeout
<1>2. \A c \in Conflict \cup Unprocessable : Rank(c) < 30
  BY DEF Rank, Precedence, Conflict, Unprocessable
<1>3. \A d \in Unavailable \cup BadGateway \cup GatewayTimeout : Rank(d) >= 30
  BY DEF Rank, Precedence, Unavailable, BadGateway, GatewayTimeout
<1> QED
  BY <1>1, <1>2, <1>3, RankIsNat DEF Code

LEMMA OutranksSpeaks ==
    ASSUME NEW heard \in SUBSET Code, NEW best \in Code, Outranks(best, heard)
    PROVE  Speaks(best, heard)
  BY RankIsNat, ClientErrorsFirst DEF Outranks, Speaks

LEMMA BetterOutranks ==
    ASSUME NEW heard \in SUBSET Code, NEW best \in Code \cup {NoCode}, NEW code \in Code,
           heard = {} => best = NoCode, heard # {} => Outranks(best, heard)
    PROVE  Outranks(Better(best, code), heard \cup {code})
  BY RankIsNat DEF Outranks, Better

LEMMA KeepMove ==
    ASSUME ProvInv, KeepInv, NEW w \in Worker, NEW j, Become(w, j), Keeps(j) PROVE KeepInv'
  BY DEF ProvInv, TypeInv, KeepInv, Become

LEMMA IdleKeeps == Keeps(Idle)
  BY IdleJob DEF Keeps

LEMMA KeepInit == Init => KeepInv
  BY IdleKeeps DEF Init, KeepInv

\* After a refusal of the last word one code was heard, and it is told.
LEMMA AfterKeeps ==
    ASSUME NEW j \in Job, j.pc = "ask", Room(j), Keeps(j), NEW o \in j.todo,
           NEW ans \in {"success", "pending", "failed", "neterr"},
           NEW code \in CodesOf(o, ans), NEW k \in After(j, o, ans, code)
    PROVE  Keeps(k)
<1>1. o \in Option /\ j.heard \in SUBSET Code /\ j.best \in Code \cup {NoCode}
  BY DEF Job
<1>2. ans \in {"failed", "neterr"} => code \in Code
  BY <1>1, CodesOfInCode
<1>3. CASE \E status \in {"Success", "Processing"} : k \in AcceptedAs(j, o, status)
  <2>1. PICK status \in {"Success", "Processing"} : \E r \in NamedBy(j, o) : k = Accepted(j, o, status, r)
    BY <1>3 DEF AcceptedAs
  <2>r. PICK r : k = Accepted(j, o, status, r)
    BY <2>1
  <2> DEFINE made == j.made \cup {<<o, j.suffix>>}
             mem == [status |-> status, opt |-> o, ref |-> r, code |-> None]
  <2>2. k = [j EXCEPT !.made = made, !.last = o, !.pc = "log", !.mem = mem] /\ mem.status = status
    BY <2>r DEF Accepted
  <2> HIDE DEF made, mem
  <2>3. k.pc = "log" /\ k.mem = mem
    BY <2>2 DEF Job
  <2> QED
    BY <2>2, <2>3 DEF Keeps
<1>4. ASSUME ans \in {"failed", "neterr"}
      PROVE  LET a == Attempted(j, o, code)
             IN  a \in Job /\ a.heard = j.heard \cup {code} /\ a.best = Better(j.best, code)
                 /\ a.made # {} /\ a.kind = j.kind /\ a.pc = "ask"
  <2> DEFINE rest == j.todo \ {o}
             n == j.suffix + 1
             made == j.made \cup {<<o, j.suffix>>}
             best == Better(j.best, code)
             heard == j.heard \cup {code}
             a == [j EXCEPT !.made = made, !.last = o, !.todo = rest, !.suffix = n,
                            !.best = best, !.heard = heard]
  <2>1. Attempted(j, o, code) = a /\ made # {}
    BY DEF Attempted
  <2>2. Attempted(j, o, code) \in Job
    BY <1>2, <1>4, AttemptedJob
  <2> HIDE DEF rest, n, made, best, heard
  <2>3. a.heard = heard /\ a.best = best /\ a.made = made /\ a.kind = j.kind /\ a.pc = j.pc
    BY DEF Job
  <2> HIDE DEF a
  <2> QED
    BY <2>1, <2>2, <2>3 DEF best, heard
<1>5. ASSUME NEW l \in Job, NEW opt, NEW refs, NEW c \in Code, Speaks(c, l.heard), k \in Rejected(l, opt, c, refs)
      PROVE  Keeps(k)
  <2>1. PICK r \in refs \cup {l.mem.ref} :
          k = [l EXCEPT !.pc = "log", !.mem = [status |-> "Failed", opt |-> opt, ref |-> r, code |-> c]]
    BY <1>5 DEF Rejected
  <2> DEFINE mem == [status |-> "Failed", opt |-> opt, ref |-> r, code |-> c]
  <2>2. mem.code = c /\ k = [l EXCEPT !.pc = "log", !.mem = mem]
    BY <2>1
  <2> HIDE DEF mem
  <2>3. k.pc = "log" /\ k.mem = mem /\ k.heard = l.heard
    BY <2>2 DEF Job
  <2> QED
    BY <1>5, <2>2, <2>3 DEF Keeps
<1>6. CASE ans = "failed" /\ k \in Rejected(LastWord(j, o, code), o, code, {<<o, j.suffix>>})
  <2> DEFINE a == Attempted(j, o, code)
             heard == {code}
             last == [a EXCEPT !.heard = heard]
  <2>1. a \in Job /\ LastWord(j, o, code) = last /\ heard \in SUBSET Code
    BY <1>2, <1>4, <1>6 DEF LastWord
  <2>2. Speaks(code, heard)
    BY DEF Speaks
  <2> HIDE DEF a, heard
  <2>3. last \in Job /\ last.heard = heard
    BY <2>1 DEF Job
  <2> HIDE DEF last
  <2> QED
    BY <1>2, <1>5, <1>6, <2>1, <2>2, <2>3
<1>7. CASE ans = "neterr" /\ j.kind = "forced" /\ k \in Rejected(j, j.mem.opt, Chosen(NoCode), {})
  <2>1. Speaks(Chosen(NoCode), j.heard)
    BY <1>7 DEF Keeps, Speaks
  <2> QED
    BY <1>5, <1>7, <2>1, ChosenInCode
<1>8. CASE ans \in {"failed", "neterr"} /\ j.kind # "forced" /\ k = Attempted(j, o, code)
  <2>1. Outranks(Better(j.best, code), j.heard \cup {code})
    BY <1>1, <1>2, <1>8, BetterOutranks DEF Keeps
  <2> QED
    BY <1>4, <1>8, <2>1 DEF Keeps
<1> QED
  BY <1>3, <1>6, <1>7, <1>8 DEF After

LEMMA KeepStep == ProvInv /\ KeepInv /\ [Next]_vars => KeepInv'
<1> SUFFICES ASSUME ProvInv, KeepInv, [Next]_vars PROVE KeepInv'
  OBVIOUS
<1>t. \A w \in Worker : job[w] \in Job /\ Room(job[w]) /\ KnowsFailure(job[w]) /\ Keeps(job[w])
  BY DEF ProvInv, TypeInv, KeepInv
<1>1. ASSUME NEW kind, NEW trx
      PROVE  /\ Keeps(Starts(kind, trx))
             /\ \A todo : Keeps([Starts(kind, trx) EXCEPT !.todo = todo])
  <2> DEFINE s == Starts(kind, trx)
  <2>1. s.pc = "options" /\ s.heard = {} /\ s.best = NoCode
    BY DEF Starts, Idle
  <2>2. ASSUME NEW todo PROVE Keeps([s EXCEPT !.todo = todo])
    <3>1. [s EXCEPT !.todo = todo].pc = "options" /\ [s EXCEPT !.todo = todo].heard = {}
          /\ [s EXCEPT !.todo = todo].best = NoCode
      BY DEF Starts, Idle
    <3> QED
      BY <3>1 DEF Keeps
  <2> HIDE DEF s
  <2> QED
    BY <2>1, <2>2 DEF Keeps, s
<1>2. ASSUME NEW w \in Worker, CreateTrx(w) \/ ManualRetry(w) PROVE KeepInv'
  BY <1>1, <1>2, KeepMove DEF CreateTrx, ManualRetry
<1>3. ASSUME NEW w \in Worker, NEW p \in Purchase, ReportFailure(w, p) PROVE KeepInv'
  BY <1>1, <1>3, KeepMove DEF ReportFailure
<1>4. ASSUME NEW w \in Worker, Options(w) PROVE KeepInv'
  <2> DEFINE j == job[w]
  <2>0. j \in Job /\ j.heard = {} /\ j.best = NoCode
    BY <1>4, <1>t DEF Options, Keeps
  <2>1. ASSUME NEW todo PROVE Keeps([j EXCEPT !.pc = "ask", !.todo = todo])
    <3> DEFINE k == [j EXCEPT !.pc = "ask", !.todo = todo]
    <3>1. k.pc = "ask" /\ k.heard = j.heard /\ k.best = j.best
      BY <2>0 DEF Job
    <3> HIDE DEF j, k
    <3> QED
      BY <2>0, <3>1 DEF Keeps, k
  <2>2. ASSUME NEW mem PROVE Keeps([j EXCEPT !.pc = "log", !.mem = mem])
    <3>1. [j EXCEPT !.pc = "log", !.mem = mem].pc = "log" /\ [j EXCEPT !.pc = "log", !.mem = mem].heard = {}
      BY <2>0 DEF Job
    <3> QED
      BY <3>1 DEF Keeps, Speaks
  <2>3. PICK k : Become(w, k) /\ Keeps(k)
    BY <1>4, <2>1, <2>2, IdleKeeps DEF Options
  <2> QED
    BY <2>3, KeepMove
<1>5. ASSUME NEW w \in Worker, NEW o \in Option, job[w].pc = "ask", o \in job[w].todo,
             NEW ans \in {"success", "pending", "failed", "neterr"}, Asked(w, o, ans)
      PROVE  KeepInv'
  <2>1. PICK code \in CodesOf(o, ans) : \E k \in After(job[w], o, ans, code) : Become(w, k)
    BY <1>5 DEF Asked
  <2>2. PICK k \in After(job[w], o, ans, code) : Become(w, k)
    BY <2>1
  <2>3. Keeps(k)
    BY <1>5, <1>t, AfterKeeps
  <2> QED
    BY <2>2, <2>3, KeepMove
<1>6. ASSUME NEW w \in Worker, Ask(w) PROVE KeepInv'
  <2>1. PICK o \in Option :
          /\ o \in job[w].todo
          /\ \/ prov[<<o, job[w].suffix>>] # "none" /\ Asked(w, o, prov[<<o, job[w].suffix>>])
             \/ \E ans \in {"success", "pending", "failed"} : Asked(w, o, ans)
    BY <1>6 DEF Ask, Turn
  <2>2. job[w].pc = "ask" /\ <<o, job[w].suffix>> \in Purchase
    BY <1>6, <1>t DEF Ask, Job, Purchase
  <2>3. prov[<<o, job[w].suffix>>] \in {"none", "success", "pending", "failed"}
    BY <2>2 DEF ProvInv, TypeInv
  <2> QED
    BY <1>5, <2>1, <2>2, <2>3
<1>7. ASSUME NEW w \in Worker, AskInVain(w) PROVE KeepInv'
  BY <1>5, <1>7 DEF AskInVain, Turn
<1>8. ASSUME NEW w \in Worker, Exhaust(w) PROVE KeepInv'
  <2> DEFINE j == job[w]
             reported == IF j.kind = "retry" /\ j.made = {} THEN CodesOf(j.mem.opt, "failed") ELSE {}
             opt == IF j.last = None THEN j.mem.opt ELSE j.last
  <2>1. /\ j \in Job /\ j.pc = "ask" /\ Keeps(j) /\ j.heard \in SUBSET Code /\ j.best \in Code \cup {NoCode}
    BY <1>8, <1>t DEF Exhaust, Job
  <2>2. PICK code \in {Chosen(j.best)} \cup reported :
          \E k \in Rejected(j, opt, code, j.made) : Become(w, k)
    BY <1>8 DEF Exhaust
  <2>3. PICK k \in Rejected(j, opt, code, j.made) : Become(w, k)
    BY <2>2
  <2>4. Speaks(code, j.heard)
    <3>1. CASE j.heard = {}
      BY <3>1 DEF Speaks
    <3>2. CASE j.heard # {}
      <4>1. Outranks(j.best, j.heard) /\ reported = {}
        BY <2>1, <3>2 DEF Keeps
      <4>2. j.best \in Code /\ j.best # NoCode
        BY <2>1, <4>1, RankIsNat DEF Outranks
      <4>3. code = j.best
        BY <2>2, <4>1, <4>2 DEF Chosen
      <4> QED
        BY <2>1, <4>1, <4>2, <4>3, OutranksSpeaks
    <3> QED
      BY <3>1, <3>2
  <2> HIDE DEF j, opt, reported
  <2>5. PICK r : k = [j EXCEPT !.pc = "log", !.mem = [status |-> "Failed", opt |-> opt, ref |-> r, code |-> code]]
    BY <2>3 DEF Rejected
  <2> DEFINE mem == [status |-> "Failed", opt |-> opt, ref |-> r, code |-> code]
  <2>6. mem.code = code /\ k = [j EXCEPT !.pc = "log", !.mem = mem]
    BY <2>5
  <2> HIDE DEF mem
  <2>7. k.pc = "log" /\ k.mem = mem /\ k.heard = j.heard
    BY <2>1, <2>6 DEF Job
  <2>8. Keeps(k)
    BY <2>4, <2>6, <2>7 DEF Keeps
  <2> QED
    BY <2>3, <2>8, KeepMove
<1>9. ASSUME NEW w \in Worker, LogAttempts(w) \/ Persist(w) \/ Notify(w) \/ Crash(w) PROVE KeepInv'
  <2>1. CASE Become(w, Idle)
    BY <2>1, IdleKeeps, KeepMove
  <2>2. ASSUME NEW pc \in {"persist", "notify"}, job[w].pc \in {"log", "persist"},
               Become(w, [job[w] EXCEPT !.pc = pc])
        PROVE  KeepInv'
    <3> DEFINE k == [job[w] EXCEPT !.pc = pc]
    <3>1. k.pc = pc /\ k.mem = job[w].mem /\ k.heard = job[w].heard
      BY <1>t DEF Job
    <3>2. Become(w, k)
      BY <2>2
    <3> HIDE DEF k
    <3>3. Keeps(k)
      BY <1>t, <2>2, <3>1 DEF Keeps
    <3> QED
      BY <3>2, <3>3, KeepMove
  <2> QED
    BY <1>9, <2>1, <2>2 DEF LogAttempts, Persist, Notify, Crash
<1>10. ASSUME UNCHANGED job PROVE KeepInv'
  BY <1>10 DEF KeepInv
<1> QED
  BY <1>2, <1>3, <1>4, <1>6, <1>7, <1>8, <1>9, <1>10 DEF Next, Settle, vars

\* A client is told a code that an attempt was refused with, and of something
\* it can mend if any was, whichever providers were tried and in which order:
\* the precedence of the codes and their statuses agree.
THEOREM ClientHearsWhatItCanMend == Spec => []ClientIsTold
<1>1. KeepInv => ClientIsTold
  BY DEF KeepInv, Keeps, Speaks, ClientIsTold
<1> QED
  BY ProvInit, ProvStep, KeepInit, KeepStep, <1>1, PTL DEF Spec

-----------------------------------------------------------------------------
(***************************************************************************)
(* In a calm environment handlers take turns: what ReportFailure starts is *)
(* started by the purchase the row names, and no one works on the row then.*)
(***************************************************************************)

OneAtWork == \A v, w \in Worker : Active(v) /\ Active(w) => v = w

\* What the row says while somebody works on a copy of it.
RowFollows ==
    /\ \A w \in Worker : Active(w) =>
         /\ row.status = IF job[w].pc = "notify" THEN job[w].mem.status ELSE "Processing"
         /\ job[w].pc = "notify" => job[w].mem.status \in FinalStatus
         /\ job[w].kind # "none" /\ job[w].mem.status # "none"
    /\ row.status = "none" => row.ref = None

\* The purchase the row names while somebody works: it failed, and its failure
\* was reported.
OldIsSettled ==
    /\ hooks \subseteq Purchase /\ \A p \in hooks : prov[p] = "failed"
    /\ \A w \in Worker : Active(w) /\ job[w].pc # "notify" /\ row.ref # None =>
         prov[row.ref] = "failed" /\ row.ref \notin hooks

Turns == OneAtWork /\ RowFollows /\ OldIsSettled

TurnInv == ProvInv /\ used \in [FaultKind -> Nat] /\ (Calm => Turns)

\* Every purchase is in transaction_logs, or in the memory of who will log it.
Recorded ==
    /\ \A p \in Purchase : prov[p] # "none" =>
         \/ p[1] \in logged
         \/ \E w \in Worker : job[w].pc \in {"ask", "log"} /\ p \in job[w].made
    /\ \A w \in Worker :
         job[w].kind = "retry" /\ job[w].pc = "ask" => job[w].todo \cap logged = {}

RecordInv == TurnInv /\ (Calm /\ used["crash"] = 0 => Recorded)


\* A step of the handler w leaves the others alone.
LEMMA Becomes ==
    ASSUME ProvInv, NEW w \in Worker, NEW k, Become(w, k)
    PROVE  job'[w] = k /\ \A v \in Worker \ {w} : job'[v] = job[v]
  BY DEF Become, ProvInv, TypeInv

LEMMA SpendUsed ==
    ASSUME ProvInv, used \in [FaultKind -> Nat], NEW k \in FaultKind, Spend(k)
    PROVE  used' \in [FaultKind -> Nat] /\ used'[k] > 0 /\ env.budget[k] > 0
<1>1. /\ used[k] \in Nat /\ used' = [used EXCEPT ![k] = used[k] + 1]
      /\ used[k] < env.budget[k] /\ env.budget[k] \in Nat
  BY DEF Spend, ProvInv, TypeInv, Environment
<1> DEFINE n == used[k] + 1
<1>2. n \in Nat /\ n > 0 /\ used' = [used EXCEPT ![k] = n]
  BY <1>1
<1> HIDE DEF n
<1>3. used' \in [FaultKind -> Nat] /\ used'[k] = n
  BY <1>2
<1>4. env.budget[k] > 0
  BY <1>1
<1> QED
  BY <1>2, <1>3, <1>4

\* In a calm environment no answer, statement or report is at fault.
LEMMA NoFaults ==
    ASSUME ProvInv, used \in [FaultKind -> Nat], Calm
    PROVE  /\ ~Spend("net") /\ ~Spend("db") /\ ~Spend("dup")
           /\ \A w \in Worker : ~AskInVain(w)
<1>1. {"net", "db", "dup"} \subseteq FaultKind /\ \A k \in {"net", "db", "dup"} : env.budget[k] = 0
  BY DEF FaultKind, Calm
<1>2. \A k \in {"net", "db", "dup"} : ~Spend(k)
  BY <1>1, SpendUsed
<1> QED
  BY <1>2 DEF AskInVain

\* What each action makes of the handler that takes it, in a calm environment.
LEMMA CreateCalm ==
    ASSUME ProvInv, NEW w \in Worker, CreateTrx(w)
    PROVE  /\ job'[w].pc = "options" /\ job'[w].suffix = 0 /\ job'[w].mem = row'
           /\ \/ job'[w].kind = "execute"
              \/ job'[w].kind = "forced" /\ \E o \in Forced \cap env.offer : job'[w].todo = {o}
           /\ job'[w].kind \in {"execute", "forced"}
           /\ row'.status = "Processing" /\ row'.ref = None
<1>1. row' = [NoTrx EXCEPT !.status = "Processing"]
  BY DEF CreateTrx
<1>2. row'.status = "Processing" /\ row'.ref = None
  BY <1>1 DEF NoTrx
<1>3. CASE Become(w, Starts("execute", row'))
  <2>1. job'[w] = Starts("execute", row')
    BY <1>3, Becomes
  <2> QED
    BY <1>2, <2>1 DEF Starts, Idle
<1>4. ASSUME NEW o \in Forced \cap env.offer, Become(w, [Starts("forced", row') EXCEPT !.todo = {o}])
      PROVE  /\ job'[w].pc = "options" /\ job'[w].kind = "forced" /\ job'[w].suffix = 0
             /\ job'[w].todo = {o} /\ job'[w].mem = row'
  <2>1. job'[w] = [Starts("forced", row') EXCEPT !.todo = {o}]
    BY <1>4, Becomes
  <2> QED
    BY <2>1 DEF Starts, Idle
<1> QED
  BY <1>2, <1>3, <1>4 DEF CreateTrx

LEMMA RetryCalm ==
    ASSUME ProvInv, NEW w \in Worker, NEW kind, Become(w, Starts(kind, row))
    PROVE  job'[w].pc = "options" /\ job'[w].kind = kind /\ job'[w].suffix = 0 /\ job'[w].mem = row
<1>1. job'[w] = Starts(kind, row)
  BY Becomes
<1> QED
  BY <1>1 DEF Starts, Idle

LEMMA OptionsCalm ==
    ASSUME ProvInv, used \in [FaultKind -> Nat], Calm, NEW w \in Worker, Options(w)
    PROVE  /\ job'[w].pc = "ask" /\ job'[w].kind = job[w].kind /\ job'[w].mem = job[w].mem
           /\ job'[w].suffix = job[w].suffix
           /\ job'[w].todo = IF job[w].kind = "forced" THEN job[w].todo \cap env.offer
                             ELSE env.offer \ Tried(job[w])
<1> DEFINE j == job[w]
           todo == IF j.kind = "forced" THEN j.todo \cap env.offer ELSE env.offer \ Tried(j)
           k == [j EXCEPT !.pc = "ask", !.todo = todo]
<1>1. Become(w, k)
  BY NoFaults DEF Options, Calm
<1>2. j \in Job
  BY DEF ProvInv, TypeInv
<1> HIDE DEF todo
<1>3. k.pc = "ask" /\ k.kind = j.kind /\ k.mem = j.mem /\ k.suffix = j.suffix /\ k.todo = todo
  BY <1>2 DEF Job
<1>4. job'[w] = k
  BY <1>1, Becomes
<1> HIDE DEF k
<1> QED
  BY <1>3, <1>4 DEF todo

\* An answer: the handler asks on, or has a result.
AnsweredBy(j, k, o, ans) ==
    /\ k.kind = j.kind /\ k.made = j.made \cup {<<o, j.suffix>>}
    /\ \/ /\ ans = "failed" /\ j.kind # "forced" /\ o \notin Backup
          /\ k.pc = "ask" /\ k.mem = j.mem
          /\ k.todo = j.todo \ {o} /\ k.suffix = j.suffix + 1
       \/ /\ ans = "failed" /\ (j.kind = "forced" \/ o \in Backup)
          /\ k.pc = "log" /\ k.mem.status = "Failed"
       \/ /\ ans \in {"success", "pending"}
          /\ k.pc = "log" /\ k.mem.ref = <<o, j.suffix>>
          /\ k.mem.status = IF ans = "success" THEN "Success" ELSE "Processing"

LEMMA AfterCalm ==
    ASSUME NEW j \in Job, j.pc = "ask", NEW o \in env.named, NEW ans \in {"success", "pending", "failed"},
           NEW code, NEW k \in After(j, o, ans, code)
    PROVE  AnsweredBy(j, k, o, ans)
<1>1. ASSUME NEW status, k \in AcceptedAs(j, o, status)
      PROVE  /\ k.kind = j.kind /\ k.made = j.made \cup {<<o, j.suffix>>}
             /\ k.pc = "log" /\ k.mem.ref = <<o, j.suffix>> /\ k.mem.status = status
  <2> DEFINE made == j.made \cup {<<o, j.suffix>>}
             mem == [status |-> status, opt |-> o, ref |-> <<o, j.suffix>>, code |-> None]
  <2>1. k = [j EXCEPT !.made = made, !.last = o, !.pc = "log", !.mem = mem]
        /\ mem.status = status /\ mem.ref = <<o, j.suffix>>
    BY <1>1 DEF AcceptedAs, NamedBy, Accepted
  <2> HIDE DEF made, mem
  <2>2. k.kind = j.kind /\ k.made = made /\ k.pc = "log" /\ k.mem = mem
    BY <2>1 DEF Job
  <2> QED
    BY <2>1, <2>2 DEF made
<1> DEFINE rest == j.todo \ {o}
           n == j.suffix + 1
           made == j.made \cup {<<o, j.suffix>>}
           best == Better(j.best, code)
           heard == j.heard \cup {code}
           a == [j EXCEPT !.made = made, !.last = o, !.todo = rest, !.suffix = n,
                          !.best = best, !.heard = heard]
<1>2. Attempted(j, o, code) = a
  BY DEF Attempted
<1>3. /\ a.kind = j.kind /\ a.made = made /\ a.pc = j.pc /\ a.mem = j.mem
      /\ a.todo = rest /\ a.suffix = n
  <2> HIDE DEF rest, n, made, best, heard
  <2> QED
    BY DEF Job
<1>4. CASE ans = "success"
  BY <1>1, <1>4 DEF After, AnsweredBy
<1>5. CASE ans = "pending"
  BY <1>1, <1>5 DEF After, AnsweredBy
<1>6. CASE ans = "failed" /\ (j.kind = "forced" \/ o \in Backup)
  <2>1. k \in Rejected(LastWord(j, o, code), o, code, {<<o, j.suffix>>})
    BY <1>6 DEF After
  <2> DEFINE last == LastWord(j, o, code)
  <2>2. PICK r : k = [last EXCEPT !.pc = "log",
                          !.mem = [status |-> "Failed", opt |-> o, ref |-> r, code |-> code]]
    BY <2>1 DEF Rejected
  <2> DEFINE mem == [status |-> "Failed", opt |-> o, ref |-> r, code |-> code]
             last2 == [a EXCEPT !.heard = {code}]
  <2>3. last = last2
    BY <1>2 DEF LastWord
  <2>4. last2.kind = a.kind /\ last2.made = a.made /\ DOMAIN last2 = DOMAIN a
    BY DEF a
  <2>5. {"pc", "mem", "kind", "made"} \subseteq DOMAIN a
    BY DEF Job, a
  <2>6. mem.status = "Failed" /\ k = [last EXCEPT !.pc = "log", !.mem = mem]
    BY <2>2
  <2> HIDE DEF mem, last, last2, a
  <2>7. k.kind = last.kind /\ k.made = last.made /\ k.pc = "log" /\ k.mem = mem
    BY <2>3, <2>4, <2>5, <2>6
  <2> QED
    BY <1>3, <1>6, <2>3, <2>4, <2>6, <2>7 DEF AnsweredBy
<1>7. CASE ans = "failed" /\ j.kind # "forced" /\ o \notin Backup
  <2>1. k = a
    BY <1>2, <1>7 DEF After
  <2> HIDE DEF a
  <2> QED
    BY <1>3, <1>7, <2>1 DEF AnsweredBy
<1> QED
  BY <1>4, <1>5, <1>6, <1>7

LEMMA AskCalm ==
    ASSUME ProvInv, Calm, NEW w \in Worker, Ask(w)
    PROVE  \E o \in Option, ans \in {"success", "pending", "failed"} :
             /\ o \in job[w].todo /\ <<o, job[w].suffix>> \in Purchase
             /\ Turn(job[w].todo, o)
             /\ prov[<<o, job[w].suffix>>] \in {"none", ans}
             /\ prov' = [prov EXCEPT ![<<o, job[w].suffix>>] = ans]
             /\ AnsweredBy(job[w], job'[w], o, ans)
<1>1. PICK o \in Option :
        /\ Turn(job[w].todo, o)
        /\ \/ /\ prov[<<o, job[w].suffix>>] # "none" /\ UNCHANGED prov
              /\ Asked(w, o, prov[<<o, job[w].suffix>>])
           \/ /\ prov[<<o, job[w].suffix>>] = "none"
              /\ \E ans \in {"success", "pending", "failed"} :
                   prov' = [prov EXCEPT ![<<o, job[w].suffix>>] = ans] /\ Asked(w, o, ans)
  BY DEF Ask
<1> DEFINE p == <<o, job[w].suffix>>
<1>2. job[w] \in Job /\ p \in Purchase /\ job[w].pc = "ask" /\ o \in job[w].todo
  BY <1>1 DEF ProvInv, TypeInv, Job, Purchase, Ask, Turn
<1>3. prov \in [Purchase -> {"none", "pending", "success", "failed"}]
  BY DEF ProvInv, TypeInv
<1>4. PICK ans \in {"success", "pending", "failed"} :
        /\ prov[p] \in {"none", ans} /\ prov' = [prov EXCEPT ![p] = ans] /\ Asked(w, o, ans)
  BY <1>1, <1>2, <1>3
<1>5. PICK code : \E k \in After(job[w], o, ans, code) : Become(w, k)
  BY <1>4 DEF Asked
<1>n. o \in env.named
  BY DEF Calm
<1>6. AnsweredBy(job[w], job'[w], o, ans)
  BY <1>2, <1>5, <1>n, AfterCalm, Becomes
<1> QED
  BY <1>1, <1>2, <1>4, <1>6

LEMMA ExhaustCalm ==
    ASSUME ProvInv, NEW w \in Worker, Exhaust(w)
    PROVE  /\ job[w].pc = "ask" /\ job[w].todo = {}
           /\ job'[w].pc = "log" /\ job'[w].kind = job[w].kind /\ job'[w].made = job[w].made
           /\ job'[w].mem.status = "Failed"
<1>1. job[w] \in Job /\ job[w].pc = "ask" /\ job[w].todo = {}
  BY DEF ProvInv, TypeInv, Exhaust
<1>2. PICK opt, code, refs : \E k \in Rejected(job[w], opt, code, refs) : Become(w, k)
  BY DEF Exhaust
<1>3. PICK mem, k : Become(w, k) /\ mem.status = "Failed" /\ k = [job[w] EXCEPT !.pc = "log", !.mem = mem]
  BY <1>2 DEF Rejected
<1>4. k.pc = "log" /\ k.kind = job[w].kind /\ k.made = job[w].made /\ k.mem = mem
  BY <1>1, <1>3 DEF Job
<1> QED
  BY <1>1, <1>3, <1>4, Becomes

\* Logging and storing the result.
LEMMA StoreCalm ==
    ASSUME ProvInv, NEW w \in Worker, NEW pc, Become(w, [job[w] EXCEPT !.pc = pc])
    PROVE  job'[w].pc = pc /\ job'[w].mem = job[w].mem /\ job'[w].kind = job[w].kind
<1>1. job[w] \in Job /\ job'[w] = [job[w] EXCEPT !.pc = pc]
  BY Becomes DEF ProvInv, TypeInv
<1> QED
  BY <1>1 DEF Job

\* A step of the only handler at work, or of one that begins.
LEMMA TurnStep ==
    ASSUME ProvInv, Turns, NEW w \in Worker, NEW k, Become(w, k),
           \A v \in Worker \ {w} : ~Active(v),
           k.pc # "idle" =>
              /\ row'.status = IF k.pc = "notify" THEN k.mem.status ELSE "Processing"
              /\ k.pc = "notify" => k.mem.status \in FinalStatus
              /\ k.kind # "none" /\ k.mem.status # "none"
              /\ k.pc # "notify" /\ row'.ref # None => prov'[row'.ref] = "failed" /\ row'.ref \notin hooks',
           row'.status = "none" => row'.ref = None,
           hooks' \subseteq Purchase, \A p \in hooks' : prov'[p] = "failed"
    PROVE  Turns'
<1>1. job'[w] = k /\ \A v \in Worker \ {w} : job'[v] = job[v]
  BY Becomes
<1>2. \A v \in Worker \ {w} : ~Active(v)'
  BY <1>1 DEF Active
<1>3. OneAtWork' /\ RowFollows' /\ OldIsSettled'
  BY <1>1, <1>2 DEF OneAtWork, RowFollows, OldIsSettled, Active
<1> QED
  BY <1>3 DEF Turns

\* Who is at work is at work alone, on the row as it is.
LEMMA AtWork ==
    ASSUME Turns, NEW w \in Worker, Active(w)
    PROVE  /\ \A v \in Worker \ {w} : ~Active(v)
           /\ row.status = IF job[w].pc = "notify" THEN job[w].mem.status ELSE "Processing"
           /\ job[w].pc = "notify" => job[w].mem.status \in FinalStatus
           /\ job[w].kind # "none" /\ job[w].mem.status # "none"
           /\ job[w].pc # "notify" /\ row.ref # None => prov[row.ref] = "failed" /\ row.ref \notin hooks
           /\ hooks \subseteq Purchase /\ \A p \in hooks : prov[p] = "failed"
           /\ row.status = "none" => row.ref = None
  BY DEF Turns, OneAtWork, RowFollows, OldIsSettled

FinalStays == Calm /\ row.status \in FinalStatus => row'.status = row.status

LEMMA BeginTurn ==
    ASSUME TurnInv, Calm, NEW w \in Worker,
           CreateTrx(w) \/ ManualRetry(w) \/ (\E p \in Purchase : ReportFailure(w, p))
    PROVE  Turns' /\ FinalStays /\ \A v \in Worker : ~Active(v)
<1>0. ProvInv /\ Turns /\ used \in [FaultKind -> Nat]
  BY DEF TurnInv
<1>1. CASE CreateTrx(w)
  <2>1. \A v \in Worker : ~Active(v)
    <3>1. row.status = "none"
      BY <1>1 DEF CreateTrx
    <3> QED
      BY <1>0, <3>1 DEF Turns, RowFollows, FinalStatus
  <2>2. /\ job'[w].pc = "options" /\ job'[w].kind \in {"execute", "forced"}
        /\ row'.status = "Processing" /\ row'.ref = None /\ job'[w].mem = row'
    BY <1>0, <1>1, CreateCalm
  <2>3. PICK k : Become(w, k)
    BY <1>1 DEF CreateTrx
  <2>4. job'[w] = k
    BY <1>0, <2>3, Becomes
  <2>5. UNCHANGED <<prov, hooks>>
    BY <1>1 DEF CreateTrx, external
  <2>6. Turns'
    BY <1>0, <2>1, <2>2, <2>3, <2>4, <2>5, TurnStep DEF Turns, OldIsSettled
  <2>7. FinalStays
    BY <1>1 DEF FinalStays, CreateTrx, FinalStatus
  <2> QED
    BY <2>1, <2>6, <2>7
<1>2. CASE ManualRetry(w)
  <2>1. \A v \in Worker : ~Active(v)
    BY <1>2 DEF ManualRetry, Calm
  <2>2. /\ Become(w, Starts("execute", row)) /\ UNCHANGED <<row, prov, hooks>>
        /\ row.status = "Processing" /\ row.ref = None
    BY <1>2 DEF ManualRetry, MayRetry, external
  <2>3. job'[w].pc = "options" /\ job'[w].kind = "execute" /\ job'[w].mem = row
        /\ job'[w] = Starts("execute", row)
    BY <1>0, <2>2, RetryCalm, Becomes
  <2> HIDE DEF Starts
  <2>4. Turns'
    BY <1>0, <2>1, <2>2, <2>3, TurnStep DEF Turns, OldIsSettled
  <2> QED
    BY <2>1, <2>2, <2>4 DEF FinalStays
<1>3. ASSUME NEW p \in Purchase, ReportFailure(w, p)
      PROVE  Turns' /\ FinalStays /\ \A v \in Worker : ~Active(v)
  <2>1. /\ p \in hooks /\ row.status = "Processing" /\ row.ref = p
        /\ hooks' = hooks \ {p} /\ UNCHANGED <<row, prov>>
        /\ Become(w, Starts("retry", row))
    BY <1>0, <1>3, NoFaults DEF ReportFailure
  <2>2. p # None
    BY ConstAssumption
  <2>3. \A v \in Worker : ~Active(v)
    BY <1>0, <2>1, <2>2 DEF Turns, RowFollows, OldIsSettled, FinalStatus
  <2>4. job'[w].pc = "options" /\ job'[w].kind = "retry" /\ job'[w].mem = row
        /\ job'[w] = Starts("retry", row)
    BY <1>0, <2>1, RetryCalm, Becomes
  <2>5. hooks \subseteq Purchase /\ \A q \in hooks : prov[q] = "failed"
    BY <1>0 DEF Turns, OldIsSettled
  <2>6. Turns'
    BY <1>0, <2>1, <2>3, <2>4, <2>5, TurnStep
  <2> QED
    BY <2>1, <2>3, <2>6 DEF FinalStays
<1> QED
  BY <1>1, <1>2, <1>3

LEMMA ThinkTurn ==
    ASSUME TurnInv, Calm, NEW w \in Worker,
           Options(w) \/ Ask(w) \/ Exhaust(w) \/ LogAttempts(w)
    PROVE  Turns' /\ UNCHANGED <<row, hooks, told>> /\ Active(w)
<1>0. ProvInv /\ Turns /\ used \in [FaultKind -> Nat]
  BY DEF TurnInv
<1>1. /\ UNCHANGED <<row, hooks, told>> /\ Active(w) /\ job[w].pc # "notify"
  BY DEF Options, Ask, Exhaust, LogAttempts, external, Active
<1>2. PICK k : Become(w, k)
  BY DEF Options, Ask, Asked, Exhaust, LogAttempts
<1>3. /\ job'[w].pc # "notify" /\ job'[w].kind = job[w].kind
      /\ job[w].mem.status # "none" => job'[w].mem.status # "none"
      /\ \A p \in Purchase : prov[p] = "failed" => prov'[p] = "failed"
  <2>1. CASE Options(w)
    BY <1>0, <2>1, OptionsCalm DEF Options, external
  <2>2. CASE Ask(w)
    <3>1. PICK o \in Option, ans \in {"success", "pending", "failed"} :
             /\ prov[<<o, job[w].suffix>>] \in {"none", ans}
             /\ prov' = [prov EXCEPT ![<<o, job[w].suffix>>] = ans]
             /\ AnsweredBy(job[w], job'[w], o, ans)
      BY <1>0, <2>2, AskCalm
    <3> QED
      BY <1>0, <3>1 DEF AnsweredBy, ProvInv, TypeInv
  <2>3. CASE Exhaust(w)
    BY <1>0, <2>3, ExhaustCalm DEF Exhaust, external
  <2>4. CASE LogAttempts(w)
    BY <1>0, <2>4, StoreCalm DEF LogAttempts, external
  <2> QED
    BY <2>1, <2>2, <2>3, <2>4
<1>4. job'[w] = k
  BY <1>0, <1>2, Becomes
<1>5. row.ref # None => row.ref \in Purchase
  BY <1>0 DEF ProvInv, TypeInv, Trx
<1>6. hooks \subseteq Purchase
  BY <1>0 DEF ProvInv, TypeInv, Turns, OldIsSettled
<1>7. Turns'
  BY <1>0, <1>1, <1>2, <1>3, <1>4, <1>5, <1>6, AtWork, TurnStep
<1> QED
  BY <1>1, <1>7

LEMMA EndTurn ==
    ASSUME TurnInv, Calm, NEW w \in Worker, Persist(w) \/ Notify(w) \/ Crash(w)
    PROVE  /\ Turns' /\ FinalStays /\ Active(w) /\ UNCHANGED <<prov, hooks, logged>>
           /\ \/ /\ job[w].pc = "persist" /\ row' = job[w].mem
                 /\ \/ /\ job[w].mem.status \in FinalStatus
                       /\ job'[w].pc = "notify" /\ job'[w].mem = job[w].mem
                       /\ job'[w].kind = job[w].kind
                    \/ job[w].mem.status \notin FinalStatus /\ job'[w] = Idle
              \/ /\ job[w].pc = "notify" /\ row' = job[w].mem /\ job'[w] = Idle
              \/ row' = row /\ job'[w] = Idle /\ (job[w].pc = "notify" \/ Crash(w))
<1>0. ProvInv /\ Turns /\ used \in [FaultKind -> Nat] /\ job[w].mem \in Trx
  BY DEF TurnInv, ProvInv, TypeInv, Job
<1>1. Active(w) /\ UNCHANGED <<prov, hooks, logged>>
  BY DEF Persist, Notify, Crash, external, Active
<1>2. \A p \in Purchase : ~(p = None)
  BY ConstAssumption
<1>3. Idle.pc = "idle"
  BY DEF Idle
<1>4. CASE Persist(w)
  <2>1. job[w].pc = "persist" /\ row' = job[w].mem
    BY <1>0, <1>4, NoFaults DEF Persist
  <2>2. CASE job[w].mem.status \in FinalStatus /\ Become(w, [job[w] EXCEPT !.pc = "notify"])
    <3>1. job'[w].pc = "notify" /\ job'[w].mem = job[w].mem /\ job'[w].kind = job[w].kind
      BY <1>0, <2>2, StoreCalm
    <3>2. PICK k : k = [job[w] EXCEPT !.pc = "notify"]
      OBVIOUS
    <3>3. Become(w, k) /\ job'[w] = k
      BY <1>0, <2>2, <3>2, Becomes
    <3>4. Turns'
      BY <1>0, <1>1, <2>1, <2>2, <3>1, <3>3, AtWork, TurnStep DEF FinalStatus
    <3>5. FinalStays
      BY <1>0, <1>1, <2>1, AtWork DEF FinalStays, FinalStatus
    <3> QED
      BY <1>1, <2>1, <2>2, <3>1, <3>4, <3>5
  <2>3. CASE job[w].mem.status \notin FinalStatus /\ Become(w, Idle)
    <3>1. job'[w] = Idle
      BY <1>0, <2>3, Becomes
    <3>2. job[w].mem.status # "none"
      BY <1>0, <1>1, AtWork
    <3>3. Turns'
      BY <1>0, <1>1, <1>3, <2>1, <2>3, <3>2, AtWork, TurnStep
    <3>4. FinalStays
      BY <1>0, <1>1, <2>1, AtWork DEF FinalStays, FinalStatus
    <3> QED
      BY <1>1, <2>1, <2>3, <3>1, <3>3, <3>4
  <2> QED
    BY <1>0, <1>4, <2>2, <2>3, NoFaults DEF Persist
<1>5. CASE Notify(w) \/ Crash(w)
  <2>1. /\ Become(w, Idle) /\ job'[w] = Idle
        /\ \/ row' = row
           \/ job[w].pc = "notify" /\ row' = job[w].mem
        /\ job[w].pc = "notify" \/ Crash(w)
    BY <1>0, <1>5, Becomes, NoFaults DEF Notify, Crash
  <2>2. row'.status = row.status
    BY <1>0, <1>1, <2>1, AtWork
  <2>3. row'.status = "none" => row'.ref = None
    BY <1>0, <1>1, <2>1, AtWork DEF FinalStatus
  <2>4. Turns'
    BY <1>0, <1>1, <1>3, <2>1, <2>3, AtWork, TurnStep
  <2> QED
    BY <1>1, <2>1, <2>2, <2>4 DEF FinalStays
<1> QED
  BY <1>4, <1>5

HandlerStep(w) ==
    \/ CreateTrx(w) \/ ManualRetry(w) \/ (\E p \in Purchase : ReportFailure(w, p))
    \/ Options(w) \/ Ask(w) \/ AskInVain(w) \/ Exhaust(w) \/ LogAttempts(w)
    \/ Persist(w) \/ Notify(w) \/ Crash(w)

LEMMA NextSteps ==
    Next <=> (\E w \in Worker : HandlerStep(w)) \/ (\E p \in Purchase : Settle(p))
BY DEF Next, HandlerStep

LEMMA UsedStep ==
    ASSUME ProvInv, used \in [FaultKind -> Nat], [Next]_vars
    PROVE  /\ used' \in [FaultKind -> Nat] /\ env' = env
           /\ used'["crash"] = 0 => used["crash"] = 0 /\ \A w \in Worker : ~Crash(w)
<1>1. {"net", "crash", "db", "manual", "dup"} = FaultKind
  BY DEF FaultKind
<1>2. \/ used' = used
      \/ \E k \in FaultKind : Spend(k)
  BY <1>1 DEF Next, CreateTrx, ManualRetry, ReportFailure, Options, Ask, AskInVain, Exhaust,
         LogAttempts, Persist, Notify, Crash, Settle, vars
<1>3. env' = env
  BY DEF Next, CreateTrx, ManualRetry, ReportFailure, Options, Ask, AskInVain, Exhaust,
         LogAttempts, Persist, Notify, Crash, Settle, vars, external
<1>4. used' \in [FaultKind -> Nat]
  BY <1>2, SpendUsed
<1>5. used'["crash"] = 0 => used["crash"] = 0
  <2>1. used["crash"] \in Nat
    BY <1>1
  <2>2. ASSUME NEW k \in FaultKind, Spend(k), used["crash"] # 0 PROVE used'["crash"] # 0
    BY <1>1, <2>1, <2>2 DEF Spend
  <2> QED
    BY <1>2, <2>2
<1>6. ASSUME NEW w \in Worker, Crash(w) PROVE used'["crash"] # 0
  BY <1>1, <1>6, SpendUsed DEF Crash
<1> QED
  BY <1>3, <1>4, <1>5, <1>6

LEMMA TurnNext == TurnInv /\ [Next]_vars => TurnInv' /\ FinalStays
<1> SUFFICES ASSUME TurnInv, [Next]_vars PROVE TurnInv' /\ FinalStays
  OBVIOUS
<1>0. ProvInv /\ ProvInv' /\ used \in [FaultKind -> Nat] /\ used' \in [FaultKind -> Nat] /\ env' = env
  BY ProvStep, UsedStep DEF TurnInv
<1>1. Calm' <=> Calm
  BY <1>0 DEF Calm
<1>2. ASSUME Calm PROVE Turns' /\ FinalStays
  <2>0. Turns
    BY <1>2 DEF TurnInv
  <2>1. ASSUME NEW w \in Worker, HandlerStep(w) PROVE Turns' /\ FinalStays
    <3>1. ~AskInVain(w)
      BY <1>0, <1>2, NoFaults
    <3>2. CASE Options(w) \/ Ask(w) \/ Exhaust(w) \/ LogAttempts(w)
      BY <1>2, <3>2, ThinkTurn DEF FinalStays
    <3>3. CASE CreateTrx(w) \/ ManualRetry(w) \/ (\E p \in Purchase : ReportFailure(w, p))
      BY <1>2, <3>3, BeginTurn
    <3>4. CASE Persist(w) \/ Notify(w) \/ Crash(w)
      BY <1>2, <3>4, EndTurn
    <3> QED
      BY <2>1, <3>1, <3>2, <3>3, <3>4 DEF HandlerStep
  <2>2. ASSUME NEW p \in Purchase, Settle(p) PROVE Turns' /\ FinalStays
    <3>1. /\ UNCHANGED <<row, job>> /\ prov[p] = "pending"
          /\ \A q \in Purchase \ {p} : prov'[q] = prov[q]
          /\ hooks' \subseteq hooks \cup {p}
          /\ p \in hooks' \ hooks => prov'[p] = "failed"
      BY <1>0, <2>2 DEF Settle, ProvInv, TypeInv
    <3>2. hooks \subseteq Purchase /\ (\A q \in hooks : prov[q] = "failed") /\ p \notin hooks
      BY <2>0, <3>1 DEF Turns, OldIsSettled
    <3>3. row.ref # None => row.ref \in Purchase
      BY <1>0 DEF ProvInv, TypeInv, Trx
    <3>4. OldIsSettled'
      BY <2>0, <3>1, <3>2, <3>3 DEF Turns, OldIsSettled, Active
    <3>5. OneAtWork' /\ RowFollows'
      BY <2>0, <3>1 DEF Turns, OneAtWork, RowFollows, Active
    <3> QED
      BY <3>1, <3>4, <3>5 DEF Turns, FinalStays
  <2>3. CASE UNCHANGED vars
    <3>1. UNCHANGED <<row, job, prov, hooks>>
      BY <2>3 DEF vars
    <3> QED
      BY <2>0, <3>1 DEF Turns, OneAtWork, RowFollows, OldIsSettled, Active, FinalStays
  <2> QED
    BY <2>1, <2>2, <2>3, NextSteps
<1> QED
  BY <1>0, <1>1, <1>2 DEF TurnInv, FinalStays

LEMMA TurnInit == Init => TurnInv
<1> SUFFICES ASSUME Init PROVE TurnInv
  OBVIOUS
<1>1. ProvInv
  BY ProvInit
<1>2. used \in [FaultKind -> Nat]
  BY DEF Init
<1>3. \A w \in Worker : ~Active(w)
  BY DEF Init, Active, Idle
<1>4. row.ref = None /\ hooks = {}
  BY DEF Init, NoTrx
<1> QED
  BY <1>1, <1>2, <1>3, <1>4 DEF TurnInv, Turns, OneAtWork, RowFollows, OldIsSettled

\* In a calm environment no handler's UPDATE takes back a Success or a Failed:
\* two handlers never work on the row at once, whoever dies and whoever retries.
THEOREM FinalStatusStays == Spec => FinalIsFinal
<1>1. TurnInv /\ [Next]_vars => [Calm /\ row.status \in FinalStatus => row'.status = row.status]_row
  BY TurnNext DEF FinalStays
<1> QED
  BY <1>1, TurnInit, TurnNext, PTL DEF Spec, FinalIsFinal

-----------------------------------------------------------------------------
(***************************************************************************)
(* Every purchase is in transaction_logs, or in the memory of the handler  *)
(* that will log it: RetryWithNextProvider finds there all there is.       *)
(***************************************************************************)
LEMMA RecordStep ==
    ASSUME ProvInv, Recorded, NEW w \in Worker, NEW k, Become(w, k),
           logged \subseteq logged',
           \A v \in Worker \ {w} : ~Active(v),
           \A p \in Purchase : prov'[p] # "none" =>
               \/ p[1] \in logged'
               \/ k.pc \in {"ask", "log"} /\ p \in k.made,
           k.kind = "retry" /\ k.pc = "ask" => k.todo \cap logged' = {}
    PROVE  Recorded'
<1>1. job'[w] = k /\ \A v \in Worker \ {w} : job'[v] = job[v]
  BY Becomes
<1>2. \A v \in Worker \ {w} : job'[v].pc = "idle"
  BY <1>1 DEF Active
<1> QED
  BY <1>1, <1>2 DEF Recorded

\* What is known of purchases when w alone may be at work.
LEMMA RecordFacts ==
    ASSUME Recorded, NEW w \in Worker, \A v \in Worker \ {w} : ~Active(v)
    PROVE  /\ \A p \in Purchase : prov[p] # "none" =>
                 \/ p[1] \in logged
                 \/ job[w].pc \in {"ask", "log"} /\ p \in job[w].made
           /\ job[w].kind = "retry" /\ job[w].pc = "ask" => job[w].todo \cap logged = {}
  BY DEF Recorded, Active

LEMMA RecordNext == RecordInv /\ [Next]_vars => RecordInv'
<1> SUFFICES ASSUME RecordInv, [Next]_vars, Calm', used'["crash"] = 0 PROVE Recorded'
  BY TurnNext DEF RecordInv
<1>0. /\ TurnInv /\ ProvInv /\ used \in [FaultKind -> Nat] /\ env' = env
      /\ used["crash"] = 0 /\ \A w \in Worker : ~Crash(w)
  BY UsedStep DEF RecordInv, TurnInv
<1>1. Calm
  BY <1>0 DEF Calm
<1>2. Turns /\ Recorded
  BY <1>0, <1>1 DEF RecordInv, TurnInv
<1>3. ASSUME NEW w \in Worker, HandlerStep(w) PROVE Recorded'
  <2>1. PICK k : Become(w, k)
    BY <1>3 DEF HandlerStep, CreateTrx, ManualRetry, ReportFailure, Options, Ask, AskInVain,
           Asked, Exhaust, LogAttempts, Persist, Notify, Crash
  <2>2. job'[w] = k
    BY <1>0, <2>1, Becomes
  <2>3. ~AskInVain(w) /\ ~Crash(w)
    BY <1>0, <1>1, NoFaults
  <2>4. CASE CreateTrx(w) \/ ManualRetry(w) \/ (\E p \in Purchase : ReportFailure(w, p))
    <3>1. \A v \in Worker : ~Active(v)
      BY <1>0, <1>1, <2>4, BeginTurn
    <3>2. k.pc = "options" /\ UNCHANGED <<prov, logged>>
      <4>1. CASE CreateTrx(w)
        BY <1>0, <2>2, <4>1, CreateCalm DEF CreateTrx, external
      <4>2. CASE ManualRetry(w)
        BY <1>0, <2>2, <4>2, RetryCalm DEF ManualRetry, external
      <4>3. CASE \E p \in Purchase : ReportFailure(w, p)
        BY <1>0, <2>2, <4>3, RetryCalm DEF ReportFailure
      <4> QED
        BY <2>4, <4>1, <4>2, <4>3
    <3>3. job[w].pc = "idle"
      BY <3>1 DEF Active
    <3> QED
      BY <1>0, <1>2, <2>1, <3>1, <3>2, <3>3, RecordFacts, RecordStep
  <2>5. CASE Options(w)
    <3>1. Active(w) /\ job[w].pc = "options" /\ UNCHANGED <<prov, logged>>
      BY <2>5 DEF Options, Active, external
    <3>2. \A v \in Worker \ {w} : ~Active(v)
      BY <1>2, <3>1, AtWork
    <3>3. /\ k.pc = "ask" /\ k.kind = job[w].kind
          /\ k.kind = "retry" => k.todo = env.offer \ logged
      BY <1>0, <1>1, <2>2, <2>5, OptionsCalm DEF Tried
    <3> QED
      BY <1>0, <1>2, <2>1, <3>1, <3>2, <3>3, RecordFacts, RecordStep
  <2>6. CASE Ask(w)
    <3>1. Active(w) /\ job[w].pc = "ask" /\ UNCHANGED logged
      BY <2>6 DEF Ask, Active
    <3>2. \A v \in Worker \ {w} : ~Active(v)
      BY <1>2, <3>1, AtWork
    <3>3. PICK o \in Option, ans \in {"success", "pending", "failed"} :
             /\ prov' = [prov EXCEPT ![<<o, job[w].suffix>>] = ans]
             /\ AnsweredBy(job[w], k, o, ans)
      BY <1>0, <1>1, <2>2, <2>6, AskCalm
    <3>4. /\ k.kind = job[w].kind /\ k.made = job[w].made \cup {<<o, job[w].suffix>>}
          /\ k.pc \in {"ask", "log"}
          /\ k.pc = "ask" => k.todo = job[w].todo \ {o}
      BY <3>3 DEF AnsweredBy
    <3>5. \A p \in Purchase : p = <<o, job[w].suffix>> \/ prov'[p] = prov[p]
      BY <1>0, <3>3 DEF ProvInv, TypeInv
    <3> QED
      BY <1>0, <1>2, <2>1, <3>1, <3>2, <3>4, <3>5, RecordFacts, RecordStep
  <2>7. CASE Exhaust(w)
    <3>1. /\ Active(w) /\ UNCHANGED <<logged, prov>>
          /\ k.pc = "log" /\ k.made = job[w].made
      BY <1>0, <2>2, <2>7, ExhaustCalm DEF Exhaust, Active, external
    <3>2. \A v \in Worker \ {w} : ~Active(v)
      BY <1>2, <3>1, AtWork
    <3> QED
      BY <1>0, <1>2, <2>1, <3>1, <3>2, RecordFacts, RecordStep
  <2>8. CASE LogAttempts(w)
    <3>1. /\ Active(w) /\ job[w].pc = "log" /\ UNCHANGED prov
          /\ k.pc = "persist"
          /\ logged' = logged \cup {p[1] : p \in job[w].made}
      BY <1>0, <1>1, <2>2, <2>8, StoreCalm, NoFaults DEF LogAttempts, Active, external
    <3>2. \A v \in Worker \ {w} : ~Active(v)
      BY <1>2, <3>1, AtWork
    <3> QED
      BY <1>0, <1>2, <2>1, <3>1, <3>2, RecordFacts, RecordStep
  <2>9. CASE Persist(w) \/ Notify(w)
    <3>1. /\ Active(w) /\ UNCHANGED <<prov, logged>>
          /\ job[w].pc \in {"persist", "notify"} /\ k.pc \notin {"ask", "log"}
      <4>1. Idle.pc = "idle"
        BY DEF Idle
      <4> QED
        BY <1>0, <1>1, <2>2, <2>3, <2>9, <4>1, EndTurn DEF Persist, Notify
    <3>2. \A v \in Worker \ {w} : ~Active(v)
      BY <1>2, <3>1, AtWork
    <3> QED
      BY <1>0, <1>2, <2>1, <3>1, <3>2, RecordFacts, RecordStep
  <2> QED
    BY <1>3, <2>3, <2>4, <2>5, <2>6, <2>7, <2>8, <2>9 DEF HandlerStep
<1>4. ASSUME NEW p \in Purchase, Settle(p) PROVE Recorded'
  <2>1. \A q \in Purchase : prov'[q] # "none" => prov[q] # "none"
    BY <1>0, <1>4 DEF Settle, ProvInv, TypeInv
  <2>2. UNCHANGED <<job, logged>>
    BY <1>4 DEF Settle
  <2> QED
    BY <1>2, <2>1, <2>2 DEF Recorded
<1>5. CASE UNCHANGED vars
  BY <1>2, <1>5 DEF vars, Recorded
<1> QED
  BY <1>3, <1>4, <1>5, NextSteps

LEMMA RecordInit == Init => RecordInv
<1> SUFFICES ASSUME Init PROVE RecordInv
  OBVIOUS
<1>1. \A w \in Worker : job[w].pc = "idle"
  BY DEF Init, Idle
<1> QED
  BY <1>1, TurnInit DEF RecordInv, Recorded, Init

\* As long as nobody died and the environment is calm, RetryWithNextProvider
\* asks only providers this transaction has not asked: whatever was asked is in
\* transaction_logs, or among the attempts the retry itself has made.
THEOREM RetryIsUntried == Spec => []NextIsUntried
<1>1. RecordInv => NextIsUntried
  <2> SUFFICES ASSUME RecordInv, Calm, used["crash"] = 0, NEW w \in Worker,
                      job[w].kind = "retry", job[w].pc = "ask",
                      NEW p \in Purchase \ job[w].made, prov[p] # "none"
               PROVE  p[1] \notin job[w].todo
    BY DEF NextIsUntried
  <2>1. Turns /\ Recorded /\ Active(w)
    BY DEF RecordInv, TurnInv, Active
  <2>2. \A v \in Worker \ {w} : ~Active(v)
    BY <2>1, AtWork
  <2> QED
    BY <2>1, <2>2, RecordFacts
<1> QED
  BY <1>1, RecordInit, RecordNext, PTL DEF Spec

-----------------------------------------------------------------------------
(***************************************************************************)
(* One purchase at a time.  Execute climbs a ladder: the suffix counts the *)
(* options it has passed, so that a handler which starts again after a     *)
(* crash asks for the same purchases under the same ref_ids, up to the one *)
(* that was cut off.  A retry starts from a purchase that failed when no   *)
(* other is under way.                                                     *)
(***************************************************************************)
Live(p) == prov[p] \in {"pending", "success"}
NoneLive == \A p \in Purchase : ~Live(p)

\* The purchase that Execute asks for at the option o.
Below(o) == {q \in env.offer : q < o}
Rung(o) == <<o, Cardinality(Below(o))>>
Passed(o) == prov[Rung(o)] = "failed" /\ o \notin Backup

\* The purchases of the row, while it names none: each option below the last
\* one has failed.
Ladder ==
    \A p \in Purchase : prov[p] # "none" =>
        p[1] \in env.offer /\ p = Rung(p[1]) /\ \A q \in Below(p[1]) : Passed(q)

\* A handler goes on where the ladder ends.
Climbs(k) ==
    /\ k.todo \subseteq env.offer
    /\ k.suffix = Cardinality(env.offer \ k.todo)
    /\ \A q \in env.offer \ k.todo : Passed(q) /\ \A o \in k.todo : q < o

OneLive ==
    /\ \A p, q \in Purchase : Live(p) /\ Live(q) => p = q
    /\ row.status = "none" => \A p \in Purchase : prov[p] = "none"
    /\ row.status = "Failed" => NoneLive
    /\ row.status = "Processing" /\ row.ref \in hooks => NoneLive
    /\ row.status = "Processing" /\ row.ref = None =>
         \/ Ladder
         \/ env.budget["crash"] = 0 /\ \E w \in Worker : Active(w) /\ job[w].kind = "forced"

MayAsk(k) == k.pc \in {"options", "ask"}
Result(k) == k.pc \in {"log", "persist"}

ForcedAlone(k) ==
    /\ row.ref = None /\ \A p \in Purchase : prov[p] = "none"
    /\ k.suffix = 0 /\ \E o \in Forced \cap env.offer : k.todo = {o}

\* What a handler that may still ask, or has a result, knows.
Lives(k) ==
    /\ MayAsk(k) /\ k.kind = "forced" => ForcedAlone(k)
    /\ MayAsk(k) /\ k.kind = "execute" => row.ref = None
    /\ k.kind = "execute" /\ k.pc = "options" => k.suffix = 0
    /\ k.kind = "execute" /\ k.pc = "ask" => Climbs(k)
    /\ MayAsk(k) /\ k.kind = "retry" => NoneLive /\ row.ref # None
    /\ Result(k) =>
         /\ k.mem.status \in {"Processing", "Success", "Failed"}
         /\ k.mem.status = "Processing" => k.mem.ref # None
         /\ k.mem.status = "Failed" => NoneLive
         /\ \A p \in Purchase : Live(p) => p = k.mem.ref

\* A client may force an option that is not the first only where no process
\* dies: RetryTransaction forgets what was forced.
ForcedFirst ==
    \A e \in Scenario :
        \/ e.budget["crash"] = 0
        \/ \A o \in Forced \cap e.offer, q \in e.offer : o <= q

Single == OneLive /\ \A w \in Worker : Active(w) => Lives(job[w])
SingleInv == TurnInv /\ env \in Scenario /\ (Calm => Single)

LEMMA BelowCount ==
    ASSUME ProvInv, NEW o
    PROVE  /\ IsFiniteSet(Below(o)) /\ Cardinality(Below(o)) \in 0..NOption
           /\ o \in env.offer => Rung(o) \in Purchase
<1>1. Below(o) \in SUBSET Option /\ env.offer \subseteq Option /\ NOption \in Nat
  BY ConstAssumption DEF Below, ProvInv, TypeInv, Environment
<1>2. IsFiniteSet(Below(o)) /\ Cardinality(Below(o)) \in 0..NOption
  BY <1>1, OptionsFinite
<1> QED
  BY <1>1, <1>2 DEF Rung, Purchase

LEMMA NoneIsLadder == (\A p \in Purchase : prov[p] = "none") => Ladder
BY DEF Ladder

\* Where execute asks next.
LEMMA NextRung ==
    ASSUME ProvInv, Calm, NEW k, Climbs(k), NEW o \in Option, Turn(k.todo, o)
    PROVE  /\ o \in env.offer /\ <<o, k.suffix>> = Rung(o)
           /\ Below(o) = env.offer \ k.todo /\ \A q \in Below(o) : Passed(q)
           /\ \A q \in k.todo : o <= q
<1>1. env.offer \subseteq Option /\ Option \subseteq Int
  BY DEF ProvInv, TypeInv, Environment, Option
<1>2. o \in k.todo /\ \A q \in k.todo : o <= q
  BY DEF Turn, Calm
<1>3. Below(o) = env.offer \ k.todo
  <2>1. ASSUME NEW q \in env.offer \ k.todo PROVE q < o
    BY <1>2 DEF Climbs
  <2>2. ASSUME NEW q \in k.todo PROVE q \in env.offer /\ ~(q < o)
    <3>1. q \in env.offer /\ q \in Int /\ o \in Int
      BY <1>1 DEF Climbs
    <3>2. o <= q
      BY <1>2
    <3> QED
      BY <3>1, <3>2
  <2> QED
    BY <2>1, <2>2 DEF Below
<1> QED
  BY <1>2, <1>3 DEF Climbs, Rung

\* The answer there.
LEMMA LadderStep ==
    ASSUME ProvInv, env' = env, Ladder, NEW o \in env.offer, \A q \in Below(o) : Passed(q),
           NEW p \in Purchase, p = Rung(o), prov'[p] = "failed" \/ prov[p] # "failed",
           \A x \in Purchase \ {p} : prov'[x] = prov[x]
    PROVE  /\ Ladder'
           /\ prov[p] # "failed" \/ o \in Backup => \A x \in Purchase \ {p} : ~Live(x)'
           /\ \A q \in Below(o) : Passed(q)'
<1>1. env.offer \subseteq Option /\ Option \subseteq Int
  BY DEF ProvInv, TypeInv, Environment, Option
<1>2. \A q \in env.offer : Rung(q) \in Purchase /\ Rung(q)' = Rung(q) /\ Below(q)' = Below(q)
  <2>1. ASSUME NEW q PROVE Below(q)' = Below(q)
    BY DEF Below
  <2>2. ASSUME NEW q PROVE Rung(q)' = Rung(q)
    BY <2>1 DEF Rung
  <2> QED
    BY <2>1, <2>2, BelowCount
<1>3. \A q \in env.offer \ {o} : Rung(q) # p
  BY DEF Rung
<1>4. \A q \in env.offer : q # o /\ Passed(q) => Passed(q)'
  BY <1>2, <1>3 DEF Passed
<1>5. \A q \in Below(o) : Passed(q)' /\ q \in env.offer
  <2>0. o \in Int
    BY <1>1
  <2>1. ASSUME NEW q \in Below(o) PROVE q \in env.offer /\ q # o
    BY <2>0, <2>1 DEF Below
  <2> QED
    BY <1>4, <2>1
<1>6. Passed(o) => Passed(o)'
  BY <1>2 DEF Passed
<1>7. ASSUME NEW x \in Purchase, x # p, prov[x] # "none"
      PROVE  /\ x[1] \in env.offer /\ x = Rung(x[1]) /\ \A q \in Below(x[1]) : Passed(q)'
             /\ prov[p] # "failed" \/ o \in Backup => prov[x] = "failed"
  <2>1. x[1] \in env.offer /\ x = Rung(x[1]) /\ \A q \in Below(x[1]) : Passed(q)
    BY <1>7 DEF Ladder
  <2>2. \A q \in Below(x[1]) : Passed(q)' /\ q \in env.offer
    <3>1. ASSUME NEW q \in Below(x[1]) PROVE Passed(q)' /\ q \in env.offer
      BY <1>4, <1>6, <2>1, <3>1 DEF Below
    <3> QED
      BY <3>1
  <2>3. x[1] # o /\ x[1] \in Int /\ o \in Int
    BY <1>1, <1>7, <2>1
  <2>4. CASE x[1] < o
    BY <2>1, <2>2, <2>4 DEF Below, Passed
  <2>5. CASE o < x[1]
    <3>1. Passed(o)
      BY <2>1, <2>5 DEF Below
    <3> QED
      BY <2>1, <2>2, <3>1 DEF Passed
  <2> QED
    BY <2>3, <2>4, <2>5
<1>8. prov[p] # "failed" \/ o \in Backup => \A x \in Purchase \ {p} : ~Live(x)'
  BY <1>7 DEF Live
<1>9. Ladder'
  BY <1>2, <1>5, <1>7 DEF Ladder, Rung
<1> QED
  BY <1>5, <1>8, <1>9

\* A step of the only handler at work, or of one that begins.
LEMMA SingleStep ==
    ASSUME ProvInv, NEW w \in Worker, NEW k, Become(w, k),
           \A v \in Worker \ {w} : ~Active(v),
           OneLive', k.pc # "idle" => Lives(k)'
    PROVE  Single'
<1>1. job'[w] = k /\ \A v \in Worker \ {w} : job'[v] = job[v]
  BY Becomes
<1>2. \A v \in Worker \ {w} : ~Active(v)'
  BY <1>1 DEF Active
<1>3. ASSUME NEW v \in Worker, Active(v)' PROVE Lives(job[v])'
  <2>1. v = w
    BY <1>2, <1>3
  <2>2. k.pc # "idle"
    BY <1>1, <1>3, <2>1 DEF Active
  <2>3. job'[v] = k
    BY <1>1, <2>1
  <2> QED
    BY <2>2, <2>3 DEF Lives, MayAsk, Result, ForcedAlone, Climbs
<1> QED
  BY <1>3 DEF Single

\* A step that buys nothing and writes nothing.
LEMMA OneLiveKept ==
    ASSUME OneLive, UNCHANGED <<env, row, prov>>, hooks' \subseteq hooks,
           row.status = "Processing" /\ row.ref = None /\ ~Ladder =>
               \E w \in Worker : Active(w)' /\ job'[w].kind = "forced"
    PROVE  OneLive'
<1>1. Ladder' = Ladder
  BY DEF Ladder, Rung, Below, Passed
<1>2. \A p : Live(p)' = Live(p)
  BY DEF Live
<1> QED
  BY <1>1, <1>2 DEF OneLive, NoneLive

LEMMA BeginSingle ==
    ASSUME TurnInv, Calm, Single, NEW w \in Worker,
           CreateTrx(w) \/ ManualRetry(w) \/ (\E p \in Purchase : ReportFailure(w, p))
    PROVE  Single'
<1>0. ProvInv /\ Turns /\ used \in [FaultKind -> Nat] /\ \A v \in Worker : ~Active(v)
  BY BeginTurn DEF TurnInv
<1>1. hooks \subseteq Purchase /\ None \notin Purchase
  BY <1>0, ConstAssumption DEF Turns, OldIsSettled
<1>2. CASE CreateTrx(w)
  <2>1. PICK k : Become(w, k)
    BY <1>2 DEF CreateTrx
  <2>2. job'[w] = k /\ UNCHANGED <<env, prov, hooks>> /\ \A p \in Purchase : prov[p] = "none"
    BY <1>0, <1>2, <2>1, Becomes DEF CreateTrx, external, Single, OneLive
  <2>3. /\ k.pc = "options" /\ k.suffix = 0
        /\ \/ k.kind = "execute"
           \/ k.kind = "forced" /\ \E o \in Forced \cap env.offer : k.todo = {o}
        /\ row'.status = "Processing" /\ row'.ref = None
    BY <1>0, <1>2, <2>2, CreateCalm
  <2>4. Ladder' /\ \A p \in Purchase : prov'[p] = "none"
    BY <2>2 DEF Ladder
  <2>5. OneLive'
    BY <1>1, <2>2, <2>3, <2>4 DEF OneLive, NoneLive, Live
  <2>6. Lives(k)'
    BY <2>2, <2>3, <2>4 DEF Lives, MayAsk, Result, ForcedAlone
  <2> QED
    BY <1>0, <2>1, <2>5, <2>6, SingleStep
<1>3. CASE ManualRetry(w)
  <2>1. PICK k : k = Starts("execute", row)
    OBVIOUS
  <2>2. /\ Become(w, k) /\ UNCHANGED <<env, row, prov, hooks>>
        /\ row.status = "Processing" /\ row.ref = None
    BY <1>3, <2>1 DEF ManualRetry, MayRetry, external
  <2>3. k.pc = "options" /\ k.kind = "execute" /\ k.suffix = 0
    BY <1>0, <2>1, <2>2, RetryCalm, Becomes
  <2>4. OneLive'
    BY <1>0, <2>2, OneLiveKept DEF Single, OneLive
  <2>5. Lives(k)'
    BY <2>2, <2>3 DEF Lives, MayAsk, Result
  <2> QED
    BY <1>0, <2>2, <2>4, <2>5, SingleStep
<1>4. ASSUME NEW p \in Purchase, ReportFailure(w, p) PROVE Single'
  <2>1. PICK k : k = Starts("retry", row)
    OBVIOUS
  <2>2. /\ Become(w, k) /\ UNCHANGED <<env, row, prov>> /\ hooks' \subseteq hooks
        /\ row.status = "Processing" /\ row.ref = p /\ p \in hooks
    BY <1>4, <2>1 DEF ReportFailure
  <2>3. k.pc = "options" /\ k.kind = "retry"
    BY <1>0, <2>1, <2>2, RetryCalm, Becomes
  <2>4. NoneLive' /\ row'.ref # None
    BY <1>1, <2>2 DEF Single, OneLive, NoneLive, Live
  <2>5. OneLive'
    BY <1>1, <2>2, OneLiveKept DEF Single
  <2>6. Lives(k)'
    BY <2>3, <2>4 DEF Lives, MayAsk, Result
  <2> QED
    BY <1>0, <2>2, <2>5, <2>6, SingleStep
<1> QED
  BY <1>2, <1>3, <1>4

LEMMA OptionsSingle ==
    ASSUME TurnInv, Calm, Single, NEW w \in Worker, Options(w)
    PROVE  Single'
<1>0. ProvInv /\ Turns /\ used \in [FaultKind -> Nat] /\ Active(w) /\ job[w].pc = "options"
  BY DEF TurnInv, Options, Active
<1>1. \A v \in Worker \ {w} : ~Active(v)
  BY <1>0, AtWork
<1>2. PICK k : Become(w, k)
  BY DEF Options
<1>3. job'[w] = k /\ UNCHANGED <<env, row, prov, hooks>>
  BY <1>0, <1>2, Becomes DEF Options, external
<1>4. /\ k.pc = "ask" /\ k.kind = job[w].kind /\ k.suffix = job[w].suffix
      /\ k.todo = IF k.kind = "forced" THEN job[w].todo \cap env.offer
                  ELSE env.offer \ Tried(job[w])
  BY <1>0, <1>3, OptionsCalm
<1>5. Lives(job[w])
  BY <1>0 DEF Single
<1>6. OneLive'
  <2>1. ASSUME NEW v \in Worker, Active(v), job[v].kind = "forced"
        PROVE  Active(w)' /\ job'[w].kind = "forced"
    BY <1>1, <1>3, <1>4, <2>1 DEF Active
  <2> QED
    BY <1>0, <1>1, <1>3, <2>1, AtWork, OneLiveKept DEF Single, OneLive
<1>7. CASE k.kind = "forced"
  <2>1. ForcedAlone(k)'
    BY <1>0, <1>3, <1>4, <1>5, <1>7 DEF Lives, MayAsk, ForcedAlone
  <2> QED
    BY <1>0, <1>1, <1>2, <1>4, <1>6, <1>7, <2>1, SingleStep DEF Lives, MayAsk, Result
<1>8. CASE k.kind = "execute"
  <2>1. k.todo = env.offer /\ k.suffix = 0 /\ row.ref = None
    BY <1>0, <1>4, <1>5, <1>8 DEF Lives, MayAsk, Tried
  <2>2. env.offer \ k.todo = {} /\ Cardinality({}) = 0
    BY <2>1, FS_EmptySet
  <2>3. Climbs(k)'
    BY <1>3, <2>1, <2>2 DEF Climbs
  <2> QED
    BY <1>0, <1>1, <1>2, <1>3, <1>4, <1>6, <1>8, <2>1, <2>3, SingleStep DEF Lives, MayAsk, Result
<1>9. CASE k.kind = "retry"
  <2>1. NoneLive' /\ row'.ref # None
    BY <1>0, <1>3, <1>4, <1>5, <1>9 DEF Lives, MayAsk, NoneLive, Live
  <2> QED
    BY <1>0, <1>1, <1>2, <1>4, <1>6, <1>9, <2>1, SingleStep DEF Lives, MayAsk, Result
<1>10. k.kind \in {"forced", "execute", "retry"}
  BY <1>0, <1>4, AtWork DEF ProvInv, TypeInv, Job
<1> QED
  BY <1>7, <1>8, <1>9, <1>10

\* An answer leaves at most one purchase alive, whoever asks.
LEMMA AnswerSingle ==
    ASSUME ProvInv, Calm, Single, ForcedFirst, env \in Scenario, env' = env,
           NEW w \in Worker, Active(w), job[w].pc = "ask", job[w].kind # "none", row.status = "Processing",
           \A v \in Worker \ {w} : ~Active(v),
           NEW o \in Option, Turn(job[w].todo, o),
           NEW p \in Purchase, p = <<o, job[w].suffix>>,
           NEW ans \in {"success", "pending", "failed"}, prov[p] \in {"none", ans},
           prov'[p] = ans, \A x \in Purchase \ {p} : prov'[x] = prov[x]
    PROVE  /\ \A x, y \in Purchase : Live(x)' /\ Live(y)' => x = y
           /\ ans # "failed" => \A x \in Purchase \ {p} : ~Live(x)'
           /\ ans = "failed" /\ (job[w].kind # "execute" \/ o \in Backup) => NoneLive'
           /\ row.ref = None => \/ Ladder'
                                \/ env.budget["crash"] = 0 /\ job[w].kind = "forced"
           /\ job[w].kind = "execute" => \A q \in env.offer \ job[w].todo : Passed(q)'
<1>0. OneLive /\ Lives(job[w])
  BY DEF Single
<1>1. prov'[p] = ans /\ \A x \in Purchase \ {p} : prov'[x] = prov[x]
  OBVIOUS
<1>2. \A x \in Purchase : prov[x] \in {"none", "pending", "success", "failed"}
  BY DEF ProvInv, TypeInv
<1>3. ASSUME NEW x \in Purchase, Live(x)' PROVE Live(x) \/ (x = p /\ ans # "failed")
  BY <1>1, <1>3 DEF Live
<1>4. ASSUME ans # "failed" => \A x \in Purchase \ {p} : ~Live(x)'
      PROVE  \A x, y \in Purchase : Live(x)' /\ Live(y)' => x = y
  BY <1>0, <1>3, <1>4 DEF OneLive
<1>5. CASE job[w].kind = "execute"
  <2>1. Climbs(job[w]) /\ row.ref = None
    BY <1>0, <1>5 DEF Lives, MayAsk
  <2>2. Ladder
    BY <1>0, <1>5, <2>1 DEF OneLive
  <2>3. /\ o \in env.offer /\ p = Rung(o)
        /\ Below(o) = env.offer \ job[w].todo /\ \A q \in Below(o) : Passed(q)
    BY <2>1, NextRung
  <2>4. /\ Ladder'
        /\ ans # "failed" \/ o \in Backup => \A x \in Purchase \ {p} : ~Live(x)'
        /\ \A q \in env.offer \ job[w].todo : Passed(q)'
    <3>1. prov'[p] = "failed" \/ prov[p] # "failed"
      BY <1>1
    <3>2. ans # "failed" => prov[p] # "failed"
      OBVIOUS
    <3> QED
      BY <1>1, <2>2, <2>3, <3>1, <3>2, LadderStep
  <2>5. ans = "failed" /\ o \in Backup => NoneLive'
    BY <1>1, <2>4 DEF NoneLive, Live
  <2> QED
    BY <1>4, <1>5, <2>4, <2>5
<1>6. CASE job[w].kind = "forced"
  <2>1. /\ \A x \in Purchase : prov[x] = "none"
        /\ job[w].suffix = 0 /\ o \in Forced \cap env.offer
    BY <1>0, <1>6 DEF Lives, MayAsk, ForcedAlone, Turn
  <2>2. \A x \in Purchase \ {p} : ~Live(x)'
    BY <1>1, <2>1 DEF Live
  <2>3. ans = "failed" => NoneLive'
    BY <1>1, <2>2 DEF NoneLive, Live
  <2>4. Ladder' \/ env.budget["crash"] = 0
    <3> SUFFICES ASSUME env.budget["crash"] # 0 PROVE Ladder'
      OBVIOUS
    <3>1. \A q \in env.offer : o <= q
      BY <2>1 DEF ForcedFirst
    <3>2. Below(o) = {}
      <4>1. env.offer \subseteq Option /\ \A x \in Option : x \in Int
        BY DEF ProvInv, TypeInv, Environment, Option
      <4>2. ASSUME NEW q \in Below(o) PROVE FALSE
        <5>1. q \in env.offer /\ q < o
          BY <4>2 DEF Below
        <5> QED
          BY <3>1, <4>1, <5>1
      <4> QED
        BY <4>2
    <3>3. p = Rung(o) /\ Ladder
      BY <2>1, <3>2, FS_EmptySet, NoneIsLadder DEF Rung
    <3> QED
      BY <1>1, <2>1, <3>2, <3>3, LadderStep
  <2> QED
    BY <1>4, <1>6, <2>2, <2>3, <2>4
<1>7. CASE job[w].kind = "retry"
  <2>1. NoneLive /\ row.ref # None
    BY <1>0, <1>7 DEF Lives, MayAsk
  <2>2. \A x \in Purchase \ {p} : ~Live(x)'
    BY <1>1, <2>1 DEF Live, NoneLive
  <2>3. ans = "failed" => NoneLive'
    BY <1>1, <2>2 DEF NoneLive, Live
  <2> QED
    BY <1>4, <1>7, <2>1, <2>2, <2>3
<1> QED
  BY <1>5, <1>6, <1>7 DEF ProvInv, TypeInv, Job

LEMMA AskSingle ==
    ASSUME TurnInv, Calm, Single, ForcedFirst, env \in Scenario, NEW w \in Worker, Ask(w)
    PROVE  Single'
<1>0. ProvInv /\ Turns /\ Active(w) /\ job[w].pc = "ask" /\ Lives(job[w]) /\ OneLive
  BY DEF TurnInv, Ask, Active, Single
<1>1. /\ \A v \in Worker \ {w} : ~Active(v)
      /\ row.status = "Processing" /\ job[w].kind # "none"
      /\ row.ref # None => row.ref \notin hooks
      /\ None \notin hooks
  BY <1>0, AtWork, ConstAssumption
<1>2. PICK k : Become(w, k)
  BY DEF Ask, Asked
<1>3. job'[w] = k /\ UNCHANGED <<env, row, hooks>>
  BY <1>0, <1>2, Becomes DEF Ask
<1>4. PICK o \in Option, ans \in {"success", "pending", "failed"} :
         /\ o \in job[w].todo /\ <<o, job[w].suffix>> \in Purchase
         /\ Turn(job[w].todo, o)
         /\ prov[<<o, job[w].suffix>>] \in {"none", ans}
         /\ prov' = [prov EXCEPT ![<<o, job[w].suffix>>] = ans]
         /\ AnsweredBy(job[w], k, o, ans)
  BY <1>0, <1>3, AskCalm
<1>5. PICK p \in Purchase : p = <<o, job[w].suffix>>
  BY <1>4
<1>6. /\ prov[p] \in {"none", ans} /\ prov'[p] = ans /\ p # None
      /\ \A x \in Purchase \ {p} : prov'[x] = prov[x]
      /\ Turn(job[w].todo, o)
  BY <1>0, <1>4, <1>5, ConstAssumption DEF ProvInv, TypeInv
<1>7. /\ \A x, y \in Purchase : Live(x)' /\ Live(y)' => x = y
      /\ ans # "failed" => \A x \in Purchase \ {p} : ~Live(x)'
      /\ ans = "failed" /\ (job[w].kind # "execute" \/ o \in Backup) => NoneLive'
      /\ row.ref = None => \/ Ladder'
                           \/ env.budget["crash"] = 0 /\ job[w].kind = "forced"
      /\ job[w].kind = "execute" => \A q \in env.offer \ job[w].todo : Passed(q)'
  BY <1>0, <1>1, <1>3, <1>5, <1>6, AnswerSingle
<1>8. prov'[p] = ans /\ k.kind = job[w].kind /\ k.pc \in {"ask", "log"}
  BY <1>0, <1>4, <1>6 DEF ProvInv, TypeInv, AnsweredBy
<1>9. OneLive'
  <2>1. row'.ref = None => \/ Ladder'
                           \/ env'.budget["crash"] = 0
                              /\ \E v \in Worker : Active(v)' /\ job'[v].kind = "forced"
    BY <1>3, <1>7, <1>8 DEF Active
  <2> QED
    BY <1>1, <1>3, <1>7, <2>1 DEF OneLive
<1>10. CASE k.pc = "ask"
  <2>1. /\ ans = "failed" /\ k.kind # "forced" /\ o \notin Backup
        /\ k.todo = job[w].todo \ {o} /\ k.suffix = job[w].suffix + 1
    BY <1>4, <1>10 DEF AnsweredBy
  <2>2. CASE k.kind = "retry"
    <3>1. NoneLive' /\ row'.ref # None
      BY <1>0, <1>3, <1>7, <1>8, <2>1, <2>2 DEF Lives, MayAsk
    <3>2. Lives(k)'
      BY <1>10, <2>2, <3>1 DEF Lives, MayAsk, Result
    <3> QED
      BY <1>0, <1>1, <1>2, <1>9, <3>2, SingleStep
  <2>3. CASE k.kind = "execute"
    <3>1. Climbs(job[w]) /\ row.ref = None
      BY <1>0, <1>8, <2>3 DEF Lives, MayAsk
    <3>2. /\ o \in env.offer /\ p = Rung(o) /\ \A q \in job[w].todo : o <= q
      BY <1>0, <1>4, <1>5, <3>1, NextRung
    <3>3. env.offer \ k.todo = (env.offer \ job[w].todo) \cup {o} /\ o \notin env.offer \ job[w].todo
      BY <1>4, <2>1, <3>2
    <3>4. IsFiniteSet(env.offer \ job[w].todo) /\ env.offer \subseteq Int /\ o \in Int
      <4>1. env.offer \in SUBSET Option
        BY <1>0 DEF ProvInv, TypeInv, Environment
      <4>2. env.offer \ job[w].todo \in SUBSET Option
        BY <4>1
      <4> QED
        BY <4>1, <4>2, OptionsFinite DEF Option
    <3>5. k.suffix = Cardinality(env.offer \ k.todo)
      <4>1. Cardinality(env.offer \ k.todo) = Cardinality(env.offer \ job[w].todo) + 1
        BY <3>3, <3>4, FS_AddElement
      <4>2. job[w].suffix = Cardinality(env.offer \ job[w].todo)
        BY <3>1 DEF Climbs
      <4> QED
        BY <2>1, <4>1, <4>2
    <3>6. Passed(o)'
      <4>1. Rung(o)' = Rung(o)
        <5>1. Below(o)' = Below(o)
          BY <1>3 DEF Below
        <5> QED
          BY <5>1 DEF Rung
      <4> QED
        BY <1>8, <2>1, <3>2, <4>1 DEF Passed
    <3>7. \A q \in env.offer \ k.todo : Passed(q)'
      BY <1>7, <1>8, <2>3, <3>3, <3>6
    <3>8. \A q \in env.offer \ k.todo : \A t \in k.todo : q < t
      <4>1. ASSUME NEW q \in env.offer \ k.todo, NEW t \in k.todo PROVE q < t
        <5>1. t \in job[w].todo /\ t # o /\ o <= t /\ t \in Int
          BY <2>1, <3>1, <3>2, <3>4, <4>1 DEF Climbs
        <5>2. CASE q = o
          BY <3>4, <5>1, <5>2
        <5>3. CASE q # o
          BY <3>1, <3>3, <4>1, <5>1, <5>3 DEF Climbs
        <5> QED
          BY <5>2, <5>3
      <4> QED
        BY <4>1
    <3>9. Climbs(k)'
      BY <1>3, <2>1, <3>1, <3>5, <3>7, <3>8 DEF Climbs
    <3>10. Lives(k)'
      BY <1>3, <1>10, <2>3, <3>1, <3>9 DEF Lives, MayAsk, Result
    <3> QED
      BY <1>0, <1>1, <1>2, <1>9, <3>10, SingleStep
  <2> QED
    BY <1>0, <1>1, <1>8, <2>1, <2>2, <2>3 DEF ProvInv, TypeInv, Job
<1>11. CASE k.pc = "log" /\ ans = "failed"
  <2>1. k.mem.status = "Failed" /\ (k.kind = "forced" \/ o \in Backup)
    BY <1>4, <1>11 DEF AnsweredBy
  <2>2. NoneLive'
    <3>1. k.kind = "forced" => job[w].kind # "execute"
      BY <1>8
    <3> QED
      BY <1>7, <1>11, <2>1, <3>1
  <2>3. Lives(k)'
    BY <1>11, <2>1, <2>2 DEF Lives, MayAsk, Result, NoneLive
  <2> QED
    BY <1>0, <1>1, <1>2, <1>9, <2>3, SingleStep
<1>12. CASE k.pc = "log" /\ ans # "failed"
  <2>1. k.mem.ref = p /\ k.mem.status \in {"Success", "Processing"}
    BY <1>4, <1>5, <1>12 DEF AnsweredBy
  <2>2. Lives(k)'
    BY <1>6, <1>7, <1>12, <2>1 DEF Lives, MayAsk, Result
  <2> QED
    BY <1>0, <1>1, <1>2, <1>9, <2>2, SingleStep
<1> QED
  BY <1>8, <1>10, <1>11, <1>12

\* A climb, or a retry, that found no one: nothing is alive.
LEMMA ExhaustSingle ==
    ASSUME TurnInv, Calm, Single, NEW w \in Worker, Exhaust(w)
    PROVE  Single'
<1>0. /\ ProvInv /\ Turns /\ Active(w) /\ job[w].pc = "ask" /\ job[w].todo = {}
      /\ Lives(job[w]) /\ OneLive
  BY DEF TurnInv, Exhaust, Active, Single
<1>1. /\ \A v \in Worker \ {w} : ~Active(v)
      /\ row.status = "Processing" /\ job[w].kind \in {"execute", "forced", "retry"}
  BY <1>0, AtWork DEF ProvInv, TypeInv, Job
<1>2. PICK k : Become(w, k)
  BY DEF Exhaust
<1>3. job'[w] = k /\ UNCHANGED <<env, row, hooks, prov>>
  BY <1>0, <1>2, Becomes DEF Exhaust, external
<1>4. k.pc = "log" /\ k.mem.status = "Failed" /\ k.kind = job[w].kind
  BY <1>0, <1>3, ExhaustCalm
<1>5. NoneLive /\ k.kind # "forced"
  <2>1. job[w].kind # "forced"
    BY <1>0 DEF Lives, MayAsk, ForcedAlone
  <2>2. CASE job[w].kind = "retry"
    BY <1>0, <1>4, <2>2 DEF Lives, MayAsk
  <2>3. CASE job[w].kind = "execute"
    <3>1. Climbs(job[w]) /\ row.ref = None
      BY <1>0, <2>3 DEF Lives, MayAsk
    <3>2. Ladder
      BY <1>0, <1>1, <2>3, <3>1 DEF OneLive
    <3>3. \A q \in env.offer : Passed(q)
      BY <1>0, <3>1 DEF Climbs
    <3> QED
      BY <1>4, <2>3, <3>2, <3>3 DEF Ladder, Passed, NoneLive, Live
  <2> QED
    BY <1>1, <1>4, <2>1, <2>2, <2>3
<1>6. OneLive'
  BY <1>0, <1>1, <1>3, <1>4, <1>5, OneLiveKept DEF OneLive
<1>7. NoneLive'
  BY <1>3, <1>5 DEF NoneLive, Live
<1>8. Lives(k)'
  BY <1>4, <1>7 DEF Lives, MayAsk, Result, NoneLive
<1> QED
  BY <1>0, <1>1, <1>2, <1>6, <1>8, SingleStep

LEMMA LogSingle ==
    ASSUME TurnInv, Calm, Single, NEW w \in Worker, LogAttempts(w)
    PROVE  Single'
<1>0. ProvInv /\ Turns /\ Active(w) /\ job[w].pc = "log" /\ Lives(job[w]) /\ OneLive
  BY DEF TurnInv, LogAttempts, Active, Single
<1>1. \A v \in Worker \ {w} : ~Active(v)
  BY <1>0, AtWork
<1>2. PICK k : k = [job[w] EXCEPT !.pc = "persist"]
  OBVIOUS
<1>3. Become(w, k) /\ job'[w] = k /\ UNCHANGED <<env, row, hooks, prov>>
  BY <1>0, <1>2, Becomes DEF LogAttempts, external
<1>4. k.pc = "persist" /\ k.mem = job[w].mem /\ k.kind = job[w].kind
  BY <1>0, <1>2, <1>3, StoreCalm
<1>5. OneLive'
  <2>1. ASSUME NEW v \in Worker, Active(v), job[v].kind = "forced"
        PROVE  Active(w)' /\ job'[w].kind = "forced"
    BY <1>1, <1>3, <1>4, <2>1 DEF Active
  <2>2. row.status = "Processing"
    BY <1>0, AtWork
  <2> QED
    BY <1>0, <1>3, <2>1, <2>2, OneLiveKept DEF OneLive
<1>6. Lives(k)'
  BY <1>0, <1>3, <1>4 DEF Lives, MayAsk, Result, NoneLive, Live
<1> QED
  BY <1>0, <1>1, <1>3, <1>5, <1>6, SingleStep

LEMMA EndSingle ==
    ASSUME TurnInv, Calm, Single, NEW w \in Worker, Persist(w) \/ Notify(w) \/ Crash(w)
    PROVE  Single'
<1>0. /\ ProvInv /\ Turns /\ used \in [FaultKind -> Nat] /\ Active(w)
      /\ Lives(job[w]) /\ OneLive
  BY EndTurn DEF TurnInv, Single
<1>1. /\ \A v \in Worker \ {w} : ~Active(v)
      /\ job[w].pc = "notify" => row.status = job[w].mem.status /\ row.status \in FinalStatus
      /\ hooks \subseteq Purchase /\ \A p \in hooks : prov[p] = "failed"
  BY <1>0, AtWork
<1>2. PICK k : Become(w, k)
  BY DEF Persist, Notify, Crash
<1>3. job'[w] = k /\ UNCHANGED <<env, prov, hooks>>
  BY <1>0, <1>2, Becomes DEF Persist, Notify, Crash, external
<1>4. k.pc \in {"idle", "notify"}
  BY <1>0, <1>3, EndTurn DEF Idle
<1>5. Lives(k)'
  BY <1>4 DEF Lives, MayAsk, Result
<1>6. UNCHANGED <<Ladder, NoneLive>> /\ \A p : Live(p)' = Live(p)
  BY <1>3 DEF Ladder, Rung, Below, Passed, NoneLive, Live
<1>7. OneLive'
  <2>1. CASE job[w].pc = "persist" /\ row' = job[w].mem
    <3>1. /\ row'.status \in {"Processing", "Success", "Failed"}
          /\ row'.status = "Processing" => row'.ref # None
          /\ row'.status = "Failed" => NoneLive
          /\ \A p \in Purchase : Live(p) => p = row'.ref
      BY <1>0, <2>1 DEF Lives, Result
    <3>2. row'.ref \in hooks => NoneLive
      BY <1>1, <3>1 DEF NoneLive, Live
    <3> QED
      BY <1>0, <1>3, <1>6, <3>1, <3>2 DEF OneLive
  <2>2. CASE job[w].pc = "notify"
    <3>1. row'.status = row.status /\ row.status \in FinalStatus
      BY <1>0, <1>1, <2>2, EndTurn
    <3> QED
      BY <1>0, <1>6, <3>1 DEF OneLive, FinalStatus
  <2>3. CASE Crash(w) /\ row' = row
    <3>1. env.budget["crash"] # 0
      BY <1>0, <2>3, SpendUsed DEF Crash, FaultKind
    <3>2. row.status = "Processing" /\ row.ref = None => Ladder
      BY <1>0, <3>1 DEF OneLive
    <3> QED
      BY <1>0, <1>3, <1>6, <2>3, <3>2 DEF OneLive
  <2> QED
    BY <2>1, <2>2, <2>3, EndTurn
<1> QED
  BY <1>0, <1>1, <1>2, <1>5, <1>7, SingleStep

LEMMA SettleSingle ==
    ASSUME TurnInv, Calm, Single, NEW p \in Purchase, Settle(p)
    PROVE  Single'
<1>0. ProvInv /\ OneLive /\ UNCHANGED <<env, row, job>> /\ prov[p] = "pending"
  BY DEF TurnInv, Single, Settle
<1>1. /\ prov'[p] \in {"success", "failed"} /\ \A q \in Purchase \ {p} : prov'[q] = prov[q]
      /\ hooks' = hooks \/ (hooks' = hooks \cup {p} /\ prov'[p] = "failed")
  BY <1>0 DEF Settle, ProvInv, TypeInv
<1>2. /\ \A q \in Purchase : Live(q)' => Live(q)
      /\ \A q \in Purchase : Live(q)' => Live(p) /\ q = p /\ prov'[p] # "failed"
  BY <1>0, <1>1 DEF Live, OneLive
<1>3. ~NoneLive /\ Live(p) /\ prov[p] # "none"
  BY <1>0 DEF NoneLive, Live
<1>4. \A q \in env.offer : Passed(q) => Passed(q)'
  <2>1. ASSUME NEW q \in env.offer, Passed(q) PROVE Passed(q)'
    <3>1. Below(q)' = Below(q)
      BY <1>0 DEF Below
    <3>2. Rung(q)' = Rung(q) /\ Rung(q) \in Purchase
      BY <1>0, <3>1, BelowCount DEF Rung
    <3> QED
      BY <1>0, <1>1, <2>1, <3>2 DEF Passed
  <2> QED
    BY <2>1
<1>5. Ladder => Ladder'
  <2> SUFFICES ASSUME Ladder, NEW q \in Purchase, prov'[q] # "none"
               PROVE  q[1] \in env.offer /\ q = Rung(q[1])' /\ \A o \in Below(q[1])' : Passed(o)'
    BY <1>0 DEF Ladder
  <2>1. q[1] \in env.offer /\ q = Rung(q[1]) /\ \A o \in Below(q[1]) : Passed(o)
    BY <1>0, <1>1 DEF Ladder
  <2>2. Below(q[1])' = Below(q[1]) /\ \A o \in Below(q[1]) : o \in env.offer
    BY <1>0 DEF Below
  <2>3. Rung(q[1])' = Rung(q[1])
    BY <2>2 DEF Rung
  <2> QED
    BY <1>4, <2>1, <2>2, <2>3
<1>6. OneLive'
  <2>1. row.status # "none" /\ row.status # "Failed"
    BY <1>0, <1>3 DEF OneLive
  <2>2. row.status = "Processing" => row.ref \notin hooks
    BY <1>0, <1>3 DEF OneLive
  <2>3. \A q, r \in Purchase : Live(q)' /\ Live(r)' => q = r
    BY <1>2
  <2>4. row.status = "Processing" /\ row.ref \in hooks' => NoneLive'
    BY <1>1, <1>2, <2>2 DEF NoneLive
  <2>5. row.status = "Processing" /\ row.ref = None =>
          \/ Ladder'
          \/ env.budget["crash"] = 0 /\ \E w \in Worker : Active(w)' /\ job'[w].kind = "forced"
    BY <1>0, <1>5 DEF OneLive, Active
  <2> QED
    BY <1>0, <2>1, <2>3, <2>4, <2>5 DEF OneLive
<1>7. ASSUME NEW w \in Worker, Active(w) PROVE Lives(job[w])'
  <2>1. PICK k : k = job[w]
    OBVIOUS
  <2>2. Lives(k) /\ job'[w] = k
    BY <1>0, <1>7, <2>1 DEF Single
  <2>3. ~ForcedAlone(k)
    BY <1>3 DEF ForcedAlone
  <2>4. Climbs(k) => Climbs(k)'
    BY <1>0, <1>4 DEF Climbs
  <2>5. Lives(k)'
    BY <1>0, <1>2, <1>3, <2>2, <2>3, <2>4 DEF Lives, MayAsk, Result
  <2> QED
    BY <2>2, <2>5 DEF Lives, MayAsk, Result, ForcedAlone, Climbs
<1> QED
  BY <1>0, <1>6, <1>7 DEF Single, Active

LEMMA SingleNext ==
    ASSUME ForcedFirst PROVE SingleInv /\ [Next]_vars => SingleInv'
<1> SUFFICES ASSUME SingleInv, [Next]_vars PROVE SingleInv'
  OBVIOUS
<1>0. TurnInv /\ TurnInv' /\ ProvInv /\ used \in [FaultKind -> Nat] /\ env' = env /\ env \in Scenario
  BY TurnNext, UsedStep DEF SingleInv, TurnInv
<1>1. Calm' <=> Calm
  BY <1>0 DEF Calm
<1>2. ASSUME Calm PROVE Single'
  <2>0. Single
    BY <1>2 DEF SingleInv
  <2>1. ASSUME NEW w \in Worker, HandlerStep(w) PROVE Single'
    <3>1. ~AskInVain(w)
      BY <1>0, <1>2, NoFaults
    <3> QED
      BY <1>0, <1>2, <2>0, <2>1, <3>1, BeginSingle, OptionsSingle, AskSingle, ExhaustSingle,
         LogSingle, EndSingle DEF HandlerStep
  <2>2. ASSUME NEW p \in Purchase, Settle(p) PROVE Single'
    BY <1>0, <1>2, <2>0, <2>2, SettleSingle
  <2>3. CASE UNCHANGED vars
    <3>1. UNCHANGED <<env, row, job, prov, hooks>>
      BY <2>3 DEF vars
    <3>2. OneLive'
      <4>1. OneLive
        BY <2>0 DEF Single
      <4>2. row.status = "Processing" /\ row.ref = None /\ ~Ladder =>
              \E w \in Worker : Active(w)' /\ job'[w].kind = "forced"
        BY <3>1, <4>1 DEF OneLive, Active
      <4> QED
        BY <3>1, <4>1, <4>2, OneLiveKept
    <3>3. ASSUME NEW w \in Worker, Active(w)' PROVE Lives(job[w])'
      BY <2>0, <3>1, <3>3 DEF Single, Active, Lives, MayAsk, Result, ForcedAlone, Climbs, Passed,
         Rung, Below, NoneLive, Live
    <3> QED
      BY <3>2, <3>3 DEF Single
  <2> QED
    BY <2>1, <2>2, <2>3, NextSteps
<1> QED
  BY <1>0, <1>1, <1>2 DEF SingleInv

LEMMA SingleInit == Init => SingleInv
<1> SUFFICES ASSUME Init PROVE SingleInv
  OBVIOUS
<1>1. TurnInv /\ env \in Scenario
  BY TurnInit DEF Init
<1>2. /\ row.status = "none" /\ \A p \in Purchase : prov[p] = "none"
      /\ \A w \in Worker : ~Active(w)
  BY DEF Init, NoTrx, Active, Idle
<1> QED
  BY <1>1, <1>2 DEF SingleInv, Single, OneLive, Live

-----------------------------------------------------------------------------
(***************************************************************************)
(* Every step of the routing is a step of PurchaseContract, or none.       *)
(***************************************************************************)
ContractStep == Contract!Next \/ UNCHANGED Contract!vars

\* In an environment that is not calm nothing is claimed.
LEMMA WildStep == ASSUME ~Calm, ~Calm' PROVE UNCHANGED Contract!vars
BY DEF Contract!vars

\* Writing the row is a report.
LEMMA RowStep ==
    ASSUME Calm, Calm', Single', ProvInv', UNCHANGED prov, row'.status # "none" \/ UNCHANGED row
    PROVE  ContractStep
<1>1. Open' = Open /\ Bought' = Bought
  BY DEF Open, Bought
<1>2. CASE UNCHANGED row
  BY <1>1, <1>2 DEF ContractStep, Contract!vars
<1>3. CASE row'.status # "none"
  <2>1. row'.status \in {"Processing", "Success", "Failed"}
    BY <1>3 DEF ProvInv, TypeInv, Trx, FinalStatus
  <2>2. row'.status = "Success" => Bought # {}
    BY <1>1 DEF ProvInv, TruthInv, True, Bought
  <2>3. row'.status = "Failed" => Open = {} /\ Bought = {}
    BY <1>1 DEF Single, OneLive, NoneLive, Live, Open, Bought
  <2>4. Contract!Report(row'.status)
    BY <1>1, <2>2, <2>3 DEF Contract!Report
  <2> QED
    BY <2>1, <2>4 DEF ContractStep, Contract!Next
<1> QED
  BY <1>2, <1>3

\* A call buys, or changes nothing the client can see.
LEMMA CallStep ==
    ASSUME TurnInv, Calm, Calm', Single', NEW w \in Worker, Ask(w)
    PROVE  ContractStep
<1>0. ProvInv /\ Turns /\ Active(w) /\ job[w].pc = "ask" /\ UNCHANGED row
  BY DEF TurnInv, Ask, Active
<1>1. row.status = "Processing"
  BY <1>0, AtWork
<1>2. PICK o \in Option, ans \in {"success", "pending", "failed"} :
         /\ <<o, job[w].suffix>> \in Purchase
         /\ prov[<<o, job[w].suffix>>] \in {"none", ans}
         /\ prov' = [prov EXCEPT ![<<o, job[w].suffix>>] = ans]
  BY <1>0, AskCalm
<1>3. PICK p \in Purchase : p = <<o, job[w].suffix>>
  BY <1>2
<1>4. /\ prov[p] \in {"none", ans} /\ prov'[p] = ans
      /\ \A q \in Purchase \ {p} : prov'[q] = prov[q]
  BY <1>0, <1>2, <1>3 DEF ProvInv, TypeInv
<1>5. CASE prov[p] = ans \/ ans = "failed"
  <2>1. Open' = Open /\ Bought' = Bought
    BY <1>4, <1>5 DEF Open, Bought
  <2> QED
    BY <1>0, <2>1 DEF ContractStep, Contract!vars
<1>6. CASE prov[p] = "none" /\ ans # "failed"
  <2>1. Live(p)' /\ \A q \in Purchase : Live(q)' => q = p
    BY <1>4, <1>6 DEF Single, OneLive, Live
  <2>2. \A q \in Purchase : ~Live(q)
    BY <1>4, <1>6, <2>1 DEF Live
  <2>3. Open = {} /\ Bought = {}
    BY <2>2 DEF Open, Bought, Live
  <2>4. \A q \in Purchase \ {p} : prov'[q] \notin {"pending", "success"}
    BY <2>1 DEF Live
  <2>5. CASE ans = "pending"
    <3>1. Open' = {p} /\ Bought' = {}
      BY <1>4, <2>4, <2>5 DEF Open, Bought
    <3>2. Contract!Buy(p)
      BY <1>0, <1>1, <2>3, <3>1 DEF Contract!Buy
    <3> QED
      BY <3>2 DEF ContractStep, Contract!Next
  <2>6. CASE ans = "success"
    <3>1. Open' = {} /\ Bought' = {p}
      BY <1>4, <2>4, <2>6 DEF Open, Bought
    <3>2. Contract!Buy(p)
      BY <1>0, <1>1, <2>3, <3>1 DEF Contract!Buy
    <3> QED
      BY <3>2 DEF ContractStep, Contract!Next
  <2> QED
    BY <1>6, <2>5, <2>6
<1> QED
  BY <1>4, <1>5, <1>6

\* A provider completes or rejects what is open.
LEMMA SettleStep ==
    ASSUME ProvInv, Calm, Calm', Single, NEW p \in Purchase, Settle(p)
    PROVE  ContractStep
<1>1. /\ prov[p] = "pending" /\ prov'[p] \in {"success", "failed"}
      /\ \A q \in Purchase \ {p} : prov'[q] = prov[q]
      /\ UNCHANGED row
  BY DEF Settle, ProvInv, TypeInv
<1>2. \A q \in Purchase \ {p} : prov[q] \notin {"pending", "success"}
  BY <1>1 DEF Single, OneLive, Live
<1>3. Open = {p} /\ Bought = {} /\ Open' = {}
  BY <1>1, <1>2 DEF Open, Bought
<1>4. CASE prov'[p] = "success"
  <2>1. Bought' = {p}
    BY <1>1, <1>2, <1>4 DEF Bought
  <2>2. Contract!Complete(p)
    BY <1>1, <1>3, <2>1 DEF Contract!Complete
  <2> QED
    BY <2>2 DEF ContractStep, Contract!Next
<1>5. CASE prov'[p] = "failed"
  <2>1. Bought' = {}
    BY <1>1, <1>2, <1>5 DEF Bought
  <2>2. Contract!Reject(p)
    BY <1>1, <1>3, <2>1 DEF Contract!Reject
  <2> QED
    BY <2>2 DEF ContractStep, Contract!Next
<1> QED
  BY <1>1, <1>4, <1>5

\* Whichever providers a transaction is routed to, and whichever handlers die
\* on the way, it is one purchase with a truthful answer, in an environment
\* that is calm.  A client may force an option that is not the first only
\* where no process dies: the run Prov_forced shows what happens otherwise.
THEOREM RoutingKeepsContract == ASSUME ForcedFirst PROVE Spec => KeepsContract
<1>1. Init => Contract!Init
  BY DEF Init, NoTrx, Contract!Init, Open, Bought
<1>2. SingleInv /\ [Next]_vars => [Contract!Next]_(Contract!vars)
  <2> SUFFICES ASSUME SingleInv, [Next]_vars PROVE ContractStep
    BY DEF ContractStep
  <2>1. SingleInv'
    BY SingleNext
  <2>2. TurnInv /\ ProvInv /\ ProvInv' /\ used \in [FaultKind -> Nat] /\ env' = env
    BY <2>1, UsedStep DEF SingleInv, TurnInv
  <2>3. Calm' <=> Calm
    BY <2>2 DEF Calm
  <2>4. CASE ~Calm
    BY <2>3, <2>4, WildStep DEF ContractStep
  <2>5. CASE Calm
    <3>1. Single /\ Single' /\ Calm'
      BY <2>1, <2>3, <2>5 DEF SingleInv
    <3>2. ASSUME NEW w \in Worker, HandlerStep(w) PROVE ContractStep
      <4>1. CASE Ask(w)
        BY <2>2, <2>5, <3>1, <4>1, CallStep
      <4>2. CASE ~Ask(w)
        <5>1. ~AskInVain(w)
          BY <2>2, <2>5, NoFaults
        <5>2. UNCHANGED prov
          BY <3>2, <4>2, <5>1 DEF HandlerStep, CreateTrx, ManualRetry, ReportFailure, Options,
             Exhaust, LogAttempts, Persist, Notify, Crash, external
        <5>3. UNCHANGED row \/ CreateTrx(w) \/ Persist(w) \/ Notify(w)
          BY <3>2, <4>2, <5>1 DEF HandlerStep, ManualRetry, ReportFailure, Options,
             Exhaust, LogAttempts, Crash
        <5>4. CreateTrx(w) => row'.status # "none"
          BY <2>2, CreateCalm
        <5>5. Persist(w) \/ Notify(w) => row'.status # "none" \/ UNCHANGED row
          <6>1. ASSUME Persist(w) \/ Notify(w) PROVE row'.status # "none" \/ UNCHANGED row
            <7>1. Active(w) /\ (row' = job[w].mem \/ UNCHANGED row)
              BY <2>2, <2>5, <6>1, EndTurn
            <7>2. job[w].mem.status # "none"
              BY <2>2, <2>5, <7>1, AtWork DEF TurnInv
            <7> QED
              BY <7>1, <7>2
          <6> QED
            BY <6>1
        <5> QED
          BY <2>2, <2>5, <3>1, <5>2, <5>3, <5>4, <5>5, RowStep
      <4> QED
        BY <4>1, <4>2
    <3>3. ASSUME NEW p \in Purchase, Settle(p) PROVE ContractStep
      BY <2>2, <2>5, <3>1, <3>3, SettleStep
    <3>4. CASE UNCHANGED vars
      BY <2>2, <2>5, <3>1, <3>4, RowStep DEF vars
    <3> QED
      BY <3>2, <3>3, <3>4, NextSteps
  <2> QED
    BY <2>4, <2>5
<1>3. SingleInv /\ [Next]_vars => SingleInv'
  BY SingleNext
<1> QED
  BY <1>1, <1>2, <1>3, SingleInit, PTL DEF Spec, KeepsContract, Contract!Spec
=============================================================================
