----------------------------- MODULE WorkHandoff -----------------------------
(***************************************************************************)
(* What CurrentThreadExecutor promises to those who submit work to it.      *)
(*                                                                         *)
(* An executor is a mailbox that is open, then closed, then gone.  Posting  *)
(* is one step: the work lands in the closest mailbox of the stack that is  *)
(* open, or is refused because none is.  Work is taken out first come,      *)
(* first served, and a mailbox goes only when it is closed and empty.       *)
(***************************************************************************)
EXTENDS Sequences

CONSTANTS Mailboxes, Jobs, None

VARIABLES
    state,   \* of a mailbox: none, open, closed, gone
    parent,  \* the mailbox below it in the stack
    box,     \* the jobs posted and not taken
    hands,   \* the job the mailbox's thread has taken, None between jobs
    job,     \* of a job: new, aimed, posted, started, finished, cancelled, refused
    aim      \* the mailbox a job was meant for

mailVars == <<state, parent, box, hands>>
vars == <<mailVars, job, aim>>

Init ==
    /\ state = [m \in Mailboxes |-> "none"]
    /\ parent = [m \in Mailboxes |-> None]
    /\ box = [m \in Mailboxes |-> <<>>]
    /\ hands = [m \in Mailboxes |-> None]
    /\ job = [j \in Jobs |-> "new"]
    /\ aim = [j \in Jobs |-> None]

\* Going down the stack from m, every mailbox before n is closed.
Leads(m, n) ==
    \E C \in SUBSET Mailboxes :
        /\ m \in C \union {n} /\ n \notin C
        /\ \A c \in C : state[c] \in {"closed", "gone"} /\ parent[c] \in C \union {n}

Open(m, p) ==
    /\ state[m] = "none"
    /\ p # None => state[p] # "none"
    /\ state' = [state EXCEPT ![m] = "open"]
    /\ parent' = [parent EXCEPT ![m] = p]
    /\ UNCHANGED <<box, hands, job, aim>>

Close(m) ==
    /\ state[m] = "open"
    /\ state' = [state EXCEPT ![m] = "closed"]
    /\ UNCHANGED <<parent, box, hands, job, aim>>

Leave(m) ==
    /\ state[m] = "closed" /\ box[m] = <<>> /\ hands[m] = None
    /\ state' = [state EXCEPT ![m] = "gone"]
    /\ UNCHANGED <<parent, box, hands, job, aim>>

Aim(j, m) ==
    /\ job[j] = "new" /\ state[m] # "none"
    /\ job' = [job EXCEPT ![j] = "aimed"]
    /\ aim' = [aim EXCEPT ![j] = m]
    /\ UNCHANGED mailVars

Post(j, m) ==
    /\ job[j] = "aimed" /\ state[m] = "open" /\ Leads(aim[j], m)
    /\ box' = [box EXCEPT ![m] = Append(@, j)]
    /\ job' = [job EXCEPT ![j] = "posted"]
    /\ UNCHANGED <<state, parent, hands, aim>>

Refuse(j) ==
    /\ job[j] = "aimed" /\ Leads(aim[j], None)
    /\ job' = [job EXCEPT ![j] = "refused"]
    /\ UNCHANGED <<mailVars, aim>>

Take(m) ==
    /\ state[m] \in {"open", "closed"} /\ hands[m] = None /\ box[m] # <<>>
    /\ hands' = [hands EXCEPT ![m] = Head(box[m])]
    /\ box' = [box EXCEPT ![m] = Tail(@)]
    /\ UNCHANGED <<state, parent, job, aim>>

StartJob(m) ==
    /\ hands[m] # None /\ job[hands[m]] = "posted"
    /\ job' = [job EXCEPT ![hands[m]] = "started"]
    /\ UNCHANGED <<mailVars, aim>>

\* The job ran to its end, or was cancelled before it started.
PutDown(m) ==
    /\ hands[m] # None
    /\ \/ job[hands[m]] = "started" /\ job' = [job EXCEPT ![hands[m]] = "finished"]
       \/ job[hands[m]] = "cancelled" /\ UNCHANGED job
    /\ hands' = [hands EXCEPT ![m] = None]
    /\ UNCHANGED <<state, parent, box, aim>>

Cancel(j) ==
    /\ job[j] = "posted"
    /\ job' = [job EXCEPT ![j] = "cancelled"]
    /\ UNCHANGED <<mailVars, aim>>

Next ==
    \/ \E m \in Mailboxes, p \in Mailboxes \union {None} : Open(m, p)
    \/ \E m \in Mailboxes : Close(m) \/ Leave(m) \/ Take(m) \/ StartJob(m) \/ PutDown(m)
    \/ \E j \in Jobs, m \in Mailboxes : Aim(j, m) \/ Post(j, m)
    \/ \E j \in Jobs : Refuse(j) \/ Cancel(j)

Spec == Init /\ [][Next]_vars
=============================================================================
