---------------------------- MODULE ConnectionPool ----------------------------
(***************************************************************************)
(* The database connections of one process.  Every query of a repository   *)
(* borrows a connection for that one statement.  createCompany takes a     *)
(* connection for its QueryRunner first and keeps it to the end; its two   *)
(* look-ups then go through the repository, so each of them borrows a      *)
(* second connection while the first is held.  The pool hands connections  *)
(* out in the order they were asked for, and no configuration sets a time  *)
(* limit on waiting.                                                       *)
(***************************************************************************)
EXTENDS Integers, FiniteSets, Sequences

CONSTANTS
    Registrations,  \* requests that run createCompany
    Readers,        \* requests of which every statement is a query of its own
    Connections,    \* the pool
    NoConnection

Clients == Registrations \cup Readers

\* The look-ups of createCompany: by e-mail, then by name.
Lookups == 2

ASSUME ConnectionPoolAssumption ==
    /\ Registrations \cap Readers = {}
    /\ IsFiniteSet(Connections) /\ IsFiniteSet(Registrations)
    /\ NoConnection \notin Connections

VARIABLES
    runner,  \* runner[r]: the connection of r's QueryRunner, or NoConnection
    lent,    \* lent[c]: the connection lent to c for one statement, or NoConnection
    queue,   \* the clients that wait for a connection, in order
    step,
    left     \* left[r]: the look-ups that r has still to do

poolVars == <<runner, lent, queue, step, left>>

PoolTypeOK ==
    /\ runner \in [Registrations -> Connections \cup {NoConnection}]
    /\ lent \in [Clients -> Connections \cup {NoConnection}]
    /\ queue \in Seq(Clients)
    /\ step \in [Clients -> {"idle", "connect", "checks", "wait", "query",
                           "transaction", "release", "done"}]
    /\ left \in [Registrations -> 0..Lookups]

PoolInit ==
    /\ runner = [r \in Registrations |-> NoConnection]
    /\ lent = [c \in Clients |-> NoConnection]
    /\ queue = <<>>
    /\ step = [c \in Clients |-> "idle"]
    /\ left = [r \in Registrations |-> Lookups]

Held == {runner[r] : r \in Registrations} \cup {lent[c] : c \in Clients}
\* Mutant of Free: connections lent for a statement are not counted.
Free_NotLent == Connections \ {runner[r] : r \in Registrations}

Free == Connections \ Held

GoOn(c, label) == step' = [step EXCEPT ![c] = label]

Ask(c, label) ==
    /\ queue' = Append(queue, c)
    /\ GoOn(c, label)

\* Mutant of Grant: the last to come is served first.
Grant_LastFirst ==
    /\ queue # <<>>
    /\ LET c == queue[Len(queue)] IN
       \E k \in Free :
         \/ /\ step[c] = "connect"
            /\ runner' = [runner EXCEPT ![c] = k]
            /\ GoOn(c, "checks")
            /\ UNCHANGED lent
         \/ /\ step[c] = "wait"
            /\ lent' = [lent EXCEPT ![c] = k]
            /\ GoOn(c, "query")
            /\ UNCHANGED runner
    /\ queue' = SubSeq(queue, 1, Len(queue) - 1)
    /\ UNCHANGED left

\* The pool: the first in the queue gets any free connection.
Grant ==
    /\ queue # <<>>
    /\ LET c == Head(queue) IN
       \E k \in Free :
         \/ /\ step[c] = "connect"
            /\ runner' = [runner EXCEPT ![c] = k]
            /\ GoOn(c, "checks")
            /\ UNCHANGED lent
         \/ /\ step[c] = "wait"
            /\ lent' = [lent EXCEPT ![c] = k]
            /\ GoOn(c, "query")
            /\ UNCHANGED runner
    /\ queue' = Tail(queue)
    /\ UNCHANGED left

\* queryRunner.connect().
Connect(r) ==
    /\ step[r] = "idle"
    /\ Ask(r, "connect")
    /\ UNCHANGED <<runner, lent, left>>

\* companyRepository.find, with the QueryRunner's connection in hand.
Lookup(r) ==
    /\ step[r] = "checks" /\ left[r] > 0
    /\ Ask(r, "wait")
    /\ left' = [left EXCEPT ![r] = @ - 1]
    /\ UNCHANGED <<runner, lent>>

\* Mutant of Transact: no way to the finally block.
Transact_NoFinally(r) ==
    /\ step[r] = "checks" /\ left[r] = 0 /\ GoOn(r, "transaction")
    /\ UNCHANGED <<runner, lent, queue, left>>

\* The rest of the registration uses the QueryRunner alone; any of it, and any
\* look-up, may fail.
Transact(r) ==
    /\ \/ step[r] = "checks" /\ left[r] = 0 /\ GoOn(r, "transaction")
       \/ step[r] \in {"checks", "transaction"} /\ GoOn(r, "release")
    /\ UNCHANGED <<runner, lent, queue, left>>

\* finally { queryRunner.release() }.
Release(r) ==
    /\ step[r] = "release"
    /\ runner' = [runner EXCEPT ![r] = NoConnection]
    /\ GoOn(r, "done")
    /\ UNCHANGED <<lent, queue, left>>

\* A reader's next statement.
Query(c) ==
    /\ step[c] = "idle"
    /\ Ask(c, "wait")
    /\ UNCHANGED <<runner, lent, left>>

\* Mutant of QueryEnds: a registration keeps the connection of its look-up.
QueryEnds_Keeps(c) ==
    /\ step[c] = "query"
    /\ IF c \in Readers
         THEN GoOn(c, "idle") /\ lent' = [lent EXCEPT ![c] = NoConnection]
         ELSE GoOn(c, "checks") /\ UNCHANGED lent
    /\ UNCHANGED <<runner, queue, left>>

\* A statement ends, or fails, and its connection goes back.
QueryEnds(c) ==
    /\ step[c] = "query"
    /\ lent' = [lent EXCEPT ![c] = NoConnection]
    /\ IF c \in Readers THEN GoOn(c, "idle")
       ELSE GoOn(c, "checks") \/ GoOn(c, "release")
    /\ UNCHANGED <<runner, queue, left>>

Register(r) == Lookup(r) \/ Transact(r) \/ Release(r) \/ QueryEnds(r)

PoolNext ==
    \/ Grant
    \/ \E r \in Registrations : Connect(r) \/ Register(r)
    \/ \E c \in Readers : Query(c) \/ QueryEnds(c)

PoolSpec == PoolInit /\ [][PoolNext]_poolVars

\* The pool serves its queue, a running request goes on, a statement ends.
PoolFairSpec ==
    /\ PoolSpec
    /\ WF_poolVars(Grant)
    /\ \A r \in Registrations : WF_poolVars(Register(r))
    /\ \A c \in Readers : WF_poolVars(QueryEnds(c))

-----------------------------------------------------------------------------
(* Properties.                                                             *)

Waiting(c) == step[c] \in {"connect", "wait"}

\* Nobody can move: clients wait, and every connection is held by one of them.
Standstill ==
    /\ queue # <<>>
    /\ Free = {}
    /\ \A c \in Clients : Waiting(c) \/ (lent[c] = NoConnection /\
                                         (c \in Registrations => runner[c] = NoConnection))

\* When it comes to that, all of the pool is in the hands of registrations that
\* look something up: no other request, and no later step, can be the cause.
StandstillIsLookups ==
    Standstill =>
      \A k \in Connections : \E r \in Registrations :
        runner[r] = k /\ step[r] = "wait"

\* No connection serves two purposes at once.
ConnectionsAreExclusive ==
    /\ \A r, s \in Registrations : runner[r] = runner[s] /\ runner[r] # NoConnection => r = s
    /\ \A c, d \in Clients : lent[c] = lent[d] /\ lent[c] # NoConnection => c = d
    /\ \A r \in Registrations, c \in Clients :
         runner[r] = lent[c] => runner[r] = NoConnection

\* A connection is left that no QueryRunner holds.
Room == \E k \in Connections : \A r \in Registrations : runner[r] # k

\* As long as that is so, every request that waits for a connection gets one in
\* the end, however many other requests come along ...
EveryWaitEnds == []Room => \A c \in Clients : Waiting(c) ~> ~Waiting(c)

\* ... and every registration comes to its end and gives its connection back.
EveryRegistrationEnds ==
    []Room => \A r \in Registrations : step[r] = "connect" ~> step[r] = "done"
=============================================================================
