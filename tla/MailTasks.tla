------------------------------ MODULE MailTasks ------------------------------
(***************************************************************************)
(* The mails of one user, from the commit of the change they tell of to    *)
(* the mailbox: a handler commits and then calls .delay(), a worker takes  *)
(* the task (acknowledged as it is taken), renders, and hands the mail to  *)
(* the SMTP server; a failure of any kind is retried after a delay, up to  *)
(* max_retries.  Both trees: the app has a fallback for a template that is *)
(* missing, the old tree lets the rendering fail.                          *)
(***************************************************************************)
EXTENDS Naturals, Sequences, FiniteSets

CONSTANTS
    Links,       \* mails that carry the link of a new token: verification, reset
    Notices,     \* mails that tell of a change: welcome, password, second factor
    MaxRetries   \* MAX_EMAIL_RETRIES

ASSUME RetriesAssumption == MaxRetries \in Nat

VARIABLES
    mail,        \* where each mail is
    attempts,    \* how often a worker has taken it
    mailbox,     \* what the server has accepted, in order
    issued,      \* the links, in the order their tokens were committed
    refusals,    \* the attempts on each mail that the server has refused
    dropped,     \* the mails lost with a broker or a worker
    outOfTurn,   \* the links that another link could overtake
    templates,   \* "present" or "missing", for the whole behaviour
    code         \* "app" or "old", for the whole behaviour

mailVars == <<mail, attempts, mailbox, issued, refusals, dropped, outOfTurn, templates, code>>

\* The tasks of email_tasks.py: those whose context carries a link, and the others.
Mails == Links \cup Notices

MailInit ==
    /\ mail = [m \in Mails |-> "none"]
    /\ attempts = [m \in Mails |-> 0] /\ refusals = [m \in Mails |-> 0]
    /\ mailbox = <<>> /\ issued = <<>> /\ dropped = {} /\ outOfTurn = {}
    /\ templates \in {"present", "missing"} /\ code \in {"app", "old"}

\* The mail of a task that takes a token: a link to the frontend that carries it.
CarriesLink(m) == m \in Links

Mailed(m, s) == mail' = [mail EXCEPT ![m] = s]

\* The links on their way: between the commit of the token and the mailbox.
OnTheWay == {m \in Links : mail[m] \in {"committed", "queued", "running", "waiting"}}

\* Mutant: the task is queued before the commit.
CommitLater(m) ==
    /\ mail[m] = "none"
    /\ Mailed(m, "queued")
    /\ UNCHANGED <<attempts, mailbox, issued, refusals, dropped, outOfTurn, templates, code>>

\* The handler commits its change; a link has a new token then.
Commit(m) ==
    /\ mail[m] = "none"
    /\ Mailed(m, "committed")
    /\ issued' = IF CarriesLink(m) THEN Append(issued, m) ELSE issued
    /\ outOfTurn' = IF CarriesLink(m) /\ OnTheWay # {} THEN outOfTurn \cup OnTheWay \cup {m}
                    ELSE outOfTurn
    /\ UNCHANGED <<attempts, mailbox, refusals, dropped, templates, code>>

\* .delay(); when the broker is away the request ends in a 500.
Delay(m) ==
    /\ mail[m] = "committed"
    /\ \/ Mailed(m, "queued") /\ UNCHANGED dropped
       \/ Mailed(m, "lost") /\ dropped' = dropped \cup {m}
    /\ UNCHANGED <<attempts, mailbox, issued, refusals, outOfTurn, templates, code>>

\* Mutant: a task that waits for its retry is forgotten.
TakeQueued(m) ==
    /\ mail[m] = "queued"
    /\ Mailed(m, "running")
    /\ attempts' = [attempts EXCEPT ![m] = @ + 1]
    /\ UNCHANGED <<mailbox, issued, refusals, dropped, outOfTurn, templates, code>>

\* A worker takes the task, at once or when its retry is due.
Take(m) ==
    /\ mail[m] \in {"queued", "waiting"}
    /\ Mailed(m, "running")
    /\ attempts' = [attempts EXCEPT ![m] = @ + 1]
    /\ UNCHANGED <<mailbox, issued, refusals, dropped, outOfTurn, templates, code>>

\* render_template: the app falls back to a plain text of its own.
Renders == templates = "present" \/ code = "app"

Send(m) ==
    /\ mail[m] = "running" /\ Renders
    /\ mailbox' = Append(mailbox, m)
    /\ Mailed(m, "sent")
    /\ UNCHANGED <<attempts, issued, refusals, dropped, outOfTurn, templates, code>>

\* Mutant: one retry too many.
AgainOnceMore(m) == Mailed(m, IF attempts[m] <= MaxRetries + 1 THEN "waiting" ELSE "lost")

\* task.retry: the task waits for its next turn, or has had the last one.
Again(m) == Mailed(m, IF attempts[m] <= MaxRetries THEN "waiting" ELSE "lost")

\* The rendering or the server fails; the server may have accepted the mail before
\* the failure, or not.
AttemptFails(m) ==
    /\ mail[m] = "running"
    /\ \/ Renders /\ mailbox' = Append(mailbox, m) /\ UNCHANGED refusals
       \/ /\ Renders /\ refusals' = [refusals EXCEPT ![m] = @ + 1] /\ UNCHANGED mailbox
       \/ ~Renders /\ UNCHANGED <<mailbox, refusals>>
    /\ Again(m)
    /\ UNCHANGED <<attempts, issued, dropped, outOfTurn, templates, code>>

\* A worker dies with the task, which was acknowledged, or cannot publish its retry.
WorkerDies(m) ==
    /\ mail[m] = "running"
    /\ Mailed(m, "lost") /\ dropped' = dropped \cup {m}
    /\ UNCHANGED <<attempts, mailbox, issued, refusals, outOfTurn, templates, code>>

Step(m) == Delay(m) \/ Take(m) \/ Send(m) \/ AttemptFails(m) \/ WorkerDies(m)

MailNext == \E m \in Mails : Commit(m) \/ Step(m)

\* Workers and brokers that run take what is queued and due.
MailFairness == \A m \in Mails : WF_mailVars(Step(m))

MailSpec == MailInit /\ [][MailNext]_mailVars /\ MailFairness

-----------------------------------------------------------------------------
(* Correctness.                                                            *)

Copies(m) == Cardinality({i \in DOMAIN mailbox : mailbox[i] = m})

\* Every variable keeps its type, and no task is taken more than MaxRetries + 1 times.
MailTypeOK ==
    /\ mail \in [Mails -> {"none", "committed", "queued", "running", "waiting", "sent", "lost"}]
    /\ attempts \in [Mails -> 0..(MaxRetries + 1)]
    /\ refusals \in [Mails -> 0..(MaxRetries + 1)]
    /\ \A m \in Mails : Copies(m) + refusals[m] <= attempts[m]
    /\ \A i \in DOMAIN issued : issued[i] \in Links
    /\ dropped \in SUBSET Mails /\ outOfTurn \in SUBSET Links
    /\ templates \in {"present", "missing"} /\ code \in {"app", "old"}

\* A mail is lost without a copy only by MaxRetries + 1 refusals, by a broker or a
\* worker that is gone, or by a template that the old tree misses.
LossExplained ==
    \A m \in Mails : mail[m] = "lost" /\ Copies(m) = 0 =>
        \/ refusals[m] = MaxRetries + 1 \/ m \in dropped
        \/ code = "old" /\ templates = "missing"

\* Mails are accounted for: counted as often as they were taken, and lost only for one
\* of the reasons that the code has.
MailsAccounted == MailTypeOK /\ LossExplained

\* A mail with a link is in the mailbox only for a token that is committed, and the
\* last of them carries the newest token that has left, unless two were under way at
\* once: a retry may deliver an older link after a newer one.
NewestLinkOnTop ==
    \A i \in DOMAIN mailbox : mailbox[i] \in Links =>
        /\ \E k \in DOMAIN issued : issued[k] = mailbox[i]
        /\ \A j \in 1..(i - 1), k, l \in DOMAIN issued :
             issued[k] = mailbox[i] /\ issued[l] = mailbox[j] /\ k < l =>
                 issued[k] \in outOfTurn

\* Every change that commits has its mail sent or given up.
MailSettles == \A m \in Mails : mail[m] = "committed" ~> mail[m] \in {"sent", "lost"}
=============================================================================
