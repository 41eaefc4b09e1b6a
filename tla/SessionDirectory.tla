-------------------------- MODULE SessionDirectory --------------------------
(***************************************************************************)
(* What a caller of SessionFind.findSession(id) is promised by the         *)
(* registry of online clients (cache/SessionFind.java, SessionManager.java *)
(* and the session-manage page of docs/guide): a directory from ids to     *)
(* sessions that changes in one step, in which an id is the primary key of *)
(* at most one session, and which lists a session once, under one id, and  *)
(* never again after it was taken out.                                     *)
(***************************************************************************)
CONSTANTS Session, Id, None

VARIABLES
    entry,      \* id -> the session findSession(id) answers
    fate        \* session -> "outside" | "listed" | "done"

TypeOK ==
    /\ entry \in [Id -> Session \cup {None}]
    /\ fate \in [Session -> {"outside", "listed", "done"}]

Init ==
    /\ entry = [i \in Id |-> None]
    /\ fate = [s \in Session |-> "outside"]

\* registrySession answered true: the id was free.
List(s, i) ==
    /\ fate[s] = "outside" /\ entry[i] = None
    /\ entry' = [entry EXCEPT ![i] = s]
    /\ fate' = [fate EXCEPT ![s] = "listed"]

\* registrySession answered false, or was not called: the session is never
\* listed.
Decline(s) ==
    /\ fate[s] = "outside"
    /\ fate' = [fate EXCEPT ![s] = "done"]
    /\ UNCHANGED entry

\* deregisterSession(id)
Delist(s, i) ==
    /\ entry[i] = s /\ fate[s] = "listed"
    /\ entry' = [entry EXCEPT ![i] = None]
    /\ fate' = [fate EXCEPT ![s] = "done"]

Next == \E s \in Session : Decline(s) \/ \E i \in Id : List(s, i) \/ Delist(s, i)

Spec == Init /\ [][Next]_<<entry, fate>>
=============================================================================
