------------------------------ MODULE Requests ------------------------------
(***************************************************************************)
(* How an administrator's or a client's request meets the database: it     *)
(* reads and checks, then writes, with no transaction around the two.      *)
(*                                                                         *)
(* A request that is refused changes nothing and is left out; one that is  *)
(* accepted is in progress from its reads to its write.  The tables' own   *)
(* modules say what it reads, checks and writes.                           *)
(***************************************************************************)
EXTENDS Naturals, FiniteSets

CONSTANTS
    Worker,       \* goroutines that serve requests
    None,         \* no value: NULL, or no row
    MaxRequest    \* bound on the requests served

ASSUME RequestAssumption == MaxRequest \in Nat

VARIABLES
    job,          \* job[w]: the request in progress, and what it has read
    served,       \* requests begun so far
    crossed,      \* places that a request read or wrote while another changed them
    blind,        \* checks that were skipped because their read failed
    constrained   \* do the tables have unique constraints?  (No schema is kept
                  \* with the code.)

requests == <<job, served, crossed, blind>>

Idle == [op |-> "idle", reads |-> {}, writes |-> {}]

InitRequests ==
    /\ job = [w \in Worker |-> Idle]
    /\ served = 0
    /\ crossed = {}
    /\ blind = {}
    /\ constrained \in BOOLEAN

\* The places where the request r meets those in progress.
Crossings(w, r) ==
    LET Others == {job[v] : v \in Worker \ {w}}
        Read == UNION {o.reads : o \in Others}
        Written == UNION {o.writes : o \in Others}
    IN (r.reads \cap Written) \cup (r.writes \cap (Read \cup Written))

\* The goroutine w may take the next request.
Free(w) == job[w] = Idle /\ served < MaxRequest

\* The goroutine w has read and checked what the request r needs.
Begin(w, r) ==
    /\ Free(w)
    /\ served' = served + 1
    /\ job' = [job EXCEPT ![w] = r]
    /\ crossed' = crossed \cup Crossings(w, r)
    /\ UNCHANGED constrained

\* A request that is one statement of SQL.
AtOnce(r) ==
    /\ served < MaxRequest
    /\ served' = served + 1
    /\ crossed' = crossed \cup Crossings(None, r)
    /\ UNCHANGED <<job, blind, constrained>>

\* The check whose tag is given finds nothing in its way.  Where the code drops
\* the error of a read ("existing, _ :="), a read that fails finds nothing
\* either; one read fails at most.
NothingFound(found, tag) ==
    \/ ~found /\ UNCHANGED blind
    \/ found /\ blind = {} /\ blind' = {tag}

Done(w) == job' = [job EXCEPT ![w] = Idle] /\ UNCHANGED <<served, crossed, blind, constrained>>

\* The write of a row under a key: a constraint refuses a key that is taken.
Insertable(taken) == constrained => ~taken
=============================================================================
