---------------------------- MODULE BpfOwnership ----------------------------
(* The two records of an admission, task storage and the owner map, seen   *)
(* together.  A history variable, which nothing in the scheduler reads,    *)
(* tells the admissions that were given while another enqueue was between  *)
(* its look at the owner of that CPU and its grant.                        *)
EXTENDS BpfAdmission

VARIABLE overlapped   \* tasks whose last admission overlapped another grant

historyVars == <<vars, overlapped>>

\* t becomes the owner of c in this step.
Gets(t, c) == owner[c] # t /\ owner'[c] = t

\* Another enqueue has found c free, and has not written its grant.
GrantUnderWay(t, c) == \E u \in Tasks \ {t} : st[u] = "granting" /\ ctx[u].cpu = c

Recorded ==
    overlapped' = {t \in Tasks : IF \E c \in CPUs : Gets(t, c)
                                 THEN \E c \in CPUs : Gets(t, c) /\ GrantUnderWay(t, c)
                                 ELSE t \in overlapped}

OwnershipInit == Init /\ overlapped = {}
OwnershipNext == Next /\ Recorded
OwnershipSpec == OwnershipInit /\ [][OwnershipNext]_historyVars

\* A task that believes it is admitted to a CPU is the owner recorded for it,
\* on any number of runqueues: the only way to lose the entry and go on
\* believing is to have been admitted while another enqueue was on its way to
\* grant the same CPU.  No other path of grant_admission, release_admission
\* and protect_critical_section takes the entry from a task that holds.
HolderIsOwner == \A c \in CPUs : \A t \in Admitted(c) \ overlapped : owner[c] = t

============================================================================
