------------------------- MODULE RegistrationAtomic -------------------------
(***************************************************************************)
(* What POST /company promises its callers: each registration happens once *)
(* and in every store at the same moment, or it is refused and leaves      *)
(* nothing anywhere; no two registered companies share an address or an    *)
(* ICID code.                                                              *)
(*                                                                         *)
(* Failures of the remote stores weaken the second half only.  A failed    *)
(* cleanup that was reported may leave an account or an external record; a *)
(* lost reply, a broken connection, a dead process or a failed release at  *)
(* ICID may also leave the issued code.  No fault leaves a row.            *)
(***************************************************************************)
CONSTANTS Requests, HookBound

VARIABLES
    asked,      \* asked[r]: what request r asks for
    outcome,    \* outcome[r]: "open", "registered" or "refused"
    footprint,  \* footprint[r]: the stores that hold something of r
    disturbed,  \* the requests that met a fault nobody was told to repair
    reported    \* the requests of which a failed cleanup was reported

Everything == {"database", "keycloak", "icid"}
                \cup (IF HookBound THEN {"external"} ELSE {})

Compatible(r, s) ==
    /\ asked[r].email # asked[s].email
    /\ asked[r].registration_number # asked[s].registration_number

Init ==
    /\ outcome = [r \in Requests |-> "open"]
    /\ footprint = [r \in Requests |-> {}]
    /\ disturbed = {}
    /\ reported = {}

\* A fault that request r meets is noted on the way, or not.
Note(r) ==
    /\ disturbed' \in {disturbed, disturbed \cup {r}}
    /\ reported' \in {reported, reported \cup {r}}

Stumble(r) ==
    /\ outcome[r] = "open"
    /\ Note(r)
    /\ UNCHANGED <<asked, outcome, footprint>>

Register(r) ==
    /\ outcome[r] = "open"
    /\ \A s \in Requests \ {r} :
         outcome[s] = "registered" => Compatible(r, s)
    /\ outcome' = [outcome EXCEPT ![r] = "registered"]
    /\ footprint' = [footprint EXCEPT ![r] = Everything]
    /\ Note(r)
    /\ UNCHANGED asked

\* What a refusal may leave behind, given the faults noted so far.
MayRemain(r, disturbances, reports) ==
    IF r \in disturbances THEN Everything \ {"database"}
    ELSE IF r \in reports THEN Everything \ {"database", "icid"}
    ELSE {}

Refuse(r) ==
    /\ outcome[r] = "open"
    /\ outcome' = [outcome EXCEPT ![r] = "refused"]
    /\ Note(r)
    /\ \E left \in SUBSET MayRemain(r, disturbed', reported') :
         footprint' = [footprint EXCEPT ![r] = left]
    /\ UNCHANGED asked

Next == \E r \in Requests : Stumble(r) \/ Register(r) \/ Refuse(r)

Spec == Init /\ [][Next]_<<asked, outcome, footprint, disturbed, reported>>
=============================================================================
