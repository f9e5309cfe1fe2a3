----------------------------- MODULE PendingJobs -----------------------------
(***************************************************************************)
(* What the wiki queue promises its users, with no Redis in it: a set of   *)
(* pending jobs.  Submitting a job that is pending, or that a consumer is  *)
(* just taking, has no effect; a job is taken by one consumer; every       *)
(* pending job is taken.                                                   *)
(***************************************************************************)
CONSTANTS Jobs, Consumers, NoJob

VARIABLES
    pending,   \* submitted and not yet taken
    taken      \* taken[c]: the job that consumer c is taking, or NoJob

Init == pending = {} /\ taken = [c \in Consumers |-> NoJob]

Submit(j) ==
    /\ j \notin pending
    /\ \A c \in Consumers : taken[c] # j
    /\ pending' = pending \cup {j}
    /\ UNCHANGED taken

Take(c, j) ==
    /\ taken[c] = NoJob
    /\ j \in pending
    /\ pending' = pending \ {j}
    /\ taken' = [taken EXCEPT ![c] = j]

HandOver(c) ==
    /\ taken[c] # NoJob
    /\ taken' = [taken EXCEPT ![c] = NoJob]
    /\ UNCHANGED pending

Next ==
    \/ \E j \in Jobs : Submit(j)
    \/ \E c \in Consumers : HandOver(c) \/ \E j \in Jobs : Take(c, j)

EveryJobIsTaken ==
    \A j \in Jobs : j \in pending ~> \E c \in Consumers : taken[c] = j

Safety == Init /\ [][Next]_<<pending, taken>>
Spec == Safety /\ EveryJobIsTaken
=============================================================================
