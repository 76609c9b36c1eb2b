------------------------------ MODULE OldSessions ------------------------------
(***************************************************************************)
(* The sessions of one user in the old tree (session/services.py): a login *)
(* is one transaction that deletes what expired, updates or inserts the row*)
(* of its device, deletes the rows beyond the maximum and commits; tokens  *)
(* do not rotate, and a session ends when its row is deleted.              *)
(* A row is named after the login that inserted it, a refresh token after  *)
(* the login that signed it.  A SELECT sees committed rows and the changes *)
(* of its own transaction.  A flush takes the locks of the rows it changes *)
(* at once, waits for them while another transaction holds one, and keeps  *)
(* them to the commit; the database ends one request of a cycle of waits.  *)
(***************************************************************************)
EXTENDS Naturals, FiniteSets

CONSTANTS
    Devices,
    Logins,       \* create_login_session, after a right password or code
    Remembered,   \* the logins with remember_me: the row outlives the token
    Expiring,     \* bound: the logins whose token and row live to expire
    Refreshes,    \* POST /sessions/refresh
    Signouts,     \* POST /signout, and DELETE /sessions/revoke/{id}
    DeleteAlls,   \* delete_all_user_sessions, after a change of password
    Lists,        \* GET /sessions
    Arrivals,     \* bound: the sets of requests that may arrive together
    MaxSessions,  \* MAX_ACTIVE_SESSIONS_PER_USER; 5 in the code
    CrashProne,   \* the tasks that may die between two awaits
    Nothing       \* no row

Deleters == Signouts \cup DeleteAlls
Tasks == Logins \cup Refreshes \cup Deleters \cup Lists

ASSUME KindAssumption ==
    /\ Logins \cap (Refreshes \cup Deleters \cup Lists) = {}
    /\ Refreshes \cap (Deleters \cup Lists) = {}
    /\ Deleters \cap Lists = {} /\ Signouts \cap DeleteAlls = {}
ASSUME ConstantAssumption ==
    Remembered \cup Expiring \subseteq Logins /\ Nothing \notin Tasks /\ Arrivals \subseteq SUBSET Tasks
    /\ MaxSessions \in Nat

VARIABLES
    asked,    \* the requests that arrive
    rows,     \* the sessions that have a row
    device,   \* the device of each login, and of the row it inserted
    token,    \* the login whose refresh token a row holds the hash of
    seen,     \* the last_seen_at of a row
    expired,  \* the rows whose expires_at has passed
    stale,    \* the logins whose refresh token has expired
    clock,    \* counts the moments that requests take as now
    pc,       \* where each task is
    time,     \* the now of a login or a refresh
    target,   \* the row that a task has loaded, or inserts
    doomed,   \* the rows that a task deletes
    locks,    \* the rows that a task's transaction has locked
    listed,   \* what a list of sessions showed
    earlier,  \* the logins that had committed when a deletion of all began
    crossed,  \* the logins whose count was taken before another's commit
    touched   \* the rows that changed while another login was under way

table == <<rows, device, token, seen, expired>>
time_ == <<stale, clock>>
requests == <<time, target, doomed, locks, listed>>
ghosts == <<earlier, crossed, touched>>
vars == <<asked, table, time_, pc, requests, ghosts>>

Init ==
    /\ asked \in Arrivals
    /\ rows = {} /\ expired = {} /\ stale = {} /\ clock = 0
    /\ device = [l \in Logins |-> Nothing]
    /\ token = [l \in Logins |-> l] /\ seen = [l \in Logins |-> 0]
    /\ pc = [t \in Tasks |-> "idle"]
    /\ time = [t \in Logins \cup Refreshes |-> 0]
    /\ target = [t \in Tasks |-> Nothing]
    /\ doomed = [t \in Tasks |-> {}] /\ locks = [t \in Tasks |-> {}]
    /\ listed = [i \in Lists |-> {}]
    /\ earlier = [a \in DeleteAlls |-> {}] /\ crossed = {} /\ touched = {}

UnderWay == {"swept", "selected", "limited", "deleting"}

Arrives(t) == t \in asked /\ pc[t] = "idle"
Goto(t, stage) == pc' = [pc EXCEPT ![t] = stage]
Tick(t) == clock' = clock + 1 /\ time' = [time EXCEPT ![t] = clock + 1]
Unlock(t) == locks' = [locks EXCEPT ![t] = {}]
Counting == {l \in Logins : pc[l] = "limited"}
Sweeping(l) == {m \in Logins \ {l} : pc[m] \in {"swept", "selected", "limited"}}

\* The rows that a task's next flush locks; an insert waits for every change of a
\* row of its device, since (user_id, device_key_hash) is UNIQUE.
Wants(t) ==
    CASE pc[t] = "selected" /\ target[t] = t -> {s \in Logins : device[s] = device[t]}
      [] pc[t] = "selected" /\ target[t] # t -> {target[t]}
      [] OTHER -> doomed[t]

Waits(t, u) == Wants(t) \cap locks[u] # {} /\ t # u
Free(t) == \A u \in Tasks : ~Waits(t, u)

-----------------------------------------------------------------------------
(* create_login_session.                                                   *)

\* delete_expired_sessions_for_user: the SELECT.  One tick stands for its reading of the
\* clock and for the one that follows, which the row is stamped with.
LoginExpired(l) ==
    /\ Arrives(l)
    /\ \E d \in Devices : device' = [device EXCEPT ![l] = d]
    /\ Tick(l)
    /\ doomed' = [doomed EXCEPT ![l] = rows \cap expired]
    /\ Goto(l, "swept")
    /\ UNCHANGED <<asked, rows, token, seen, expired, stale, target, locks, listed, ghosts>>

OfDevice(l) == {s \in rows \ doomed[l] : device[s] = device[l]}

\* The SELECT of the device's row sends those DELETEs first.
LoginDevice(l) ==
    /\ pc[l] = "swept" /\ Free(l)
    /\ locks' = [locks EXCEPT ![l] = doomed[l] \cap rows]
    /\ target' = [target EXCEPT ![l] = IF OfDevice(l) = {} THEN l
                                       ELSE CHOOSE s \in OfDevice(l) : TRUE]
    /\ Goto(l, "selected")
    /\ UNCHANGED <<asked, table, time_, time, doomed, listed, ghosts>>

Rank(l, s) == IF s = target[l] THEN time[l] ELSE seen[s]
Counted(l) == (rows \ expired) \cup {target[l]}
Visible(l) == Counted(l) \ doomed[l]

\* Mutant: the session itself is not counted.
OverLoose(l) ==
    {s \in Visible(l) :
        Cardinality({r \in Visible(l) : Rank(l, r) > Rank(l, s)}) > MaxSessions}

\* Mutant: the newest sessions go, not the oldest.
OverNewest(l) ==
    {s \in Visible(l) :
        Cardinality({r \in Visible(l) : Rank(l, r) < Rank(l, s)}) >= MaxSessions}

\* The sessions beyond the MaxSessions most recently seen.
Over(l) ==
    {s \in Visible(l) :
        Cardinality({r \in Visible(l) : Rank(l, r) > Rank(l, s)}) >= MaxSessions}

\* Mutant: the table has no UNIQUE constraint.
LoginLimitNoUnique(l) ==
    /\ pc[l] = "selected" /\ Free(l)
    /\ \/ /\ target[l] \notin rows \cup {l}
          /\ Unlock(l)
          /\ Goto(l, "failed")
          /\ UNCHANGED doomed
       \/ /\ target[l] \in rows \cup {l}
          /\ locks' = [locks EXCEPT ![l] = @ \cup {target[l]}]
          /\ doomed' = [doomed EXCEPT ![l] = @ \cup Over(l)]
          /\ Goto(l, "limited")
    /\ UNCHANGED <<asked, table, time_, time, target, listed, ghosts>>

\* Mutant: a failed transaction is not rolled back.
LoginLimitHolds(l) ==
    /\ pc[l] = "selected" /\ Free(l)
    /\ \/ /\ IF target[l] = l THEN OfDevice(l) # {} ELSE target[l] \notin rows
          /\ Goto(l, "failed")
          /\ UNCHANGED <<doomed, locks>>
       \/ /\ IF target[l] = l THEN OfDevice(l) = {} ELSE target[l] \in rows
          /\ locks' = [locks EXCEPT ![l] = @ \cup {target[l]}]
          /\ doomed' = [doomed EXCEPT ![l] = @ \cup Over(l)]
          /\ Goto(l, "limited")
    /\ UNCHANGED <<asked, table, time_, time, target, listed, ghosts>>

\* enforce_max_sessions: its SELECT sends the UPDATE or the INSERT first.
LoginLimit(l) ==
    /\ pc[l] = "selected" /\ Free(l)
    /\ \/ /\ IF target[l] = l THEN OfDevice(l) # {} ELSE target[l] \notin rows
          /\ Unlock(l)
          /\ Goto(l, "failed")
          /\ UNCHANGED doomed
       \/ /\ IF target[l] = l THEN OfDevice(l) = {} ELSE target[l] \in rows
          /\ locks' = [locks EXCEPT ![l] = @ \cup {target[l]}]
          /\ doomed' = [doomed EXCEPT ![l] = @ \cup Over(l)]
          /\ Goto(l, "limited")
    /\ UNCHANGED <<asked, table, time_, time, target, listed, ghosts>>

\* A login that has deleted its own session ends in an error when it reloads it.
LoginCommit(l) ==
    /\ pc[l] = "limited" /\ Free(l)
    /\ rows' = (rows \cup {target[l]}) \ doomed[l]
    /\ token' = [token EXCEPT ![target[l]] = l]
    /\ seen' = [seen EXCEPT ![target[l]] = time[l]]
    /\ expired' = expired \ {target[l]}
    /\ Unlock(l)
    /\ crossed' = crossed \cup (Counting \ {l})
    /\ touched' = IF Sweeping(l) # {} THEN touched \cup {target[l]} ELSE touched
    /\ Goto(l, IF target[l] \in doomed[l] THEN "failed" ELSE "done")
    /\ UNCHANGED <<asked, device, time_, time, target, doomed, listed, earlier>>

Login(l) == LoginExpired(l) \/ LoginDevice(l) \/ LoginLimit(l) \/ LoginCommit(l)

-----------------------------------------------------------------------------
(* Refresh, sign-out, revocation, deletion of all, list.                   *)

\* The row must hold the hash of this very token.
RefreshSelect(f) ==
    /\ Arrives(f)
    /\ Tick(f)
    /\ \E l \in Logins :
         /\ pc[l] = "done"
         /\ IF l \notin stale /\ target[l] \in rows \ expired /\ token[target[l]] = l
            THEN target' = [target EXCEPT ![f] = target[l]] /\ Goto(f, "selected")
            ELSE UNCHANGED target /\ Goto(f, "rejected")
    /\ UNCHANGED <<asked, table, stale, doomed, locks, listed, ghosts>>

\* last_seen_at := now; the UPDATE of a deleted row fails.  (So does the refresh after the
\* commit, for a row deleted in between: only the answer is another.)
RefreshCommit(f) ==
    /\ pc[f] = "selected" /\ Free(f)
    /\ \/ /\ target[f] \in rows
          /\ seen' = [seen EXCEPT ![target[f]] = time[f]]
          /\ touched' = IF Sweeping(f) # {} THEN touched \cup {target[f]} ELSE touched
          /\ Goto(f, "done")
       \/ /\ target[f] \notin rows
          /\ Goto(f, "failed")
          /\ UNCHANGED <<asked, seen, touched>>
    /\ UNCHANGED <<asked, rows, device, token, expired, time_, requests, earlier, crossed>>

\* The row of a session named by a refresh token, whatever token it holds now, or
\* by an id that was listed.
SignoutSelect(o) ==
    /\ Arrives(o)
    /\ \E l \in Logins :
         /\ pc[l] = "done"
         /\ IF target[l] \in rows
            THEN doomed' = [doomed EXCEPT ![o] = {target[l]}] /\ Goto(o, "deleting")
            ELSE UNCHANGED doomed /\ Goto(o, "rejected")
    /\ UNCHANGED <<asked, table, time_, time, target, locks, listed, ghosts>>

\* Mutant: only the sessions that are not expired are deleted.
DeleteAllActive(a) ==
    /\ Arrives(a)
    /\ doomed' = [doomed EXCEPT ![a] = rows \ expired]
    /\ earlier' = [earlier EXCEPT ![a] = rows]
    /\ Goto(a, "deleting")
    /\ UNCHANGED <<asked, table, time_, time, target, locks, listed, crossed, touched>>

DeleteAllSelect(a) ==
    /\ Arrives(a)
    /\ doomed' = [doomed EXCEPT ![a] = rows]
    /\ earlier' = [earlier EXCEPT ![a] = rows]
    /\ Goto(a, "deleting")
    /\ UNCHANGED <<asked, table, time_, time, target, locks, listed, crossed, touched>>

DeleteCommit(t) ==
    /\ pc[t] = "deleting" /\ Free(t)
    /\ rows' = rows \ doomed[t]
    /\ Goto(t, "done")
    /\ UNCHANGED <<asked, device, token, seen, expired, time_, requests, ghosts>>

\* get_sessions_by_user_id asks for no expiry.
List(i) ==
    /\ Arrives(i)
    /\ listed' = [listed EXCEPT ![i] = rows]
    /\ Goto(i, "done")
    /\ UNCHANGED <<asked, table, time_, time, target, doomed, locks, ghosts>>

-----------------------------------------------------------------------------
(* Time, the database's deadlock detector, and failures.                   *)

\* Seven days have passed since the token was signed.
TokenExpire(l) ==
    /\ pc[l] = "done" /\ l \in Expiring \ stale
    /\ stale' = stale \cup {l}
    /\ UNCHANGED <<asked, table, clock, pc, requests, ghosts>>

\* A remembered row lives 30 days, the others as long as their token.
RowExpire(s) ==
    /\ s \in rows \ expired /\ token[s] \in Expiring
    /\ token[s] \in Remembered => token[s] \in stale
    /\ expired' = expired \cup {s}
    /\ UNCHANGED <<asked, rows, device, token, seen, time_, pc, requests, ghosts>>

Blocked == {t \in Tasks : pc[t] \in UnderWay /\ \E u \in Tasks : Waits(t, u)}

\* Every task of D waits for one of D and is waited for by one of D.
Cycle(D) == \A t \in D : (\E u \in D : Waits(t, u)) /\ (\E u \in D : Waits(u, t))

\* The database ends one request of a cycle.
Abort(t) ==
    /\ \E D \in SUBSET Blocked : t \in D /\ Cycle(D)
    /\ Unlock(t)
    /\ Goto(t, "failed")
    /\ UNCHANGED <<asked, table, time_, time, target, doomed, listed, ghosts>>

Die(t) ==
    /\ t \in CrashProne
    /\ pc[t] \in UnderWay
    /\ Unlock(t)
    /\ Goto(t, "dead")
    /\ UNCHANGED <<asked, table, time_, time, target, doomed, listed, ghosts>>

Run(t) ==
    \/ t \in Logins /\ Login(t)
    \/ t \in Refreshes /\ (RefreshSelect(t) \/ RefreshCommit(t))
    \/ t \in Signouts /\ SignoutSelect(t)
    \/ t \in DeleteAlls /\ DeleteAllSelect(t)
    \/ t \in Deleters /\ DeleteCommit(t)
    \/ t \in Lists /\ List(t)
    \/ Abort(t)

Next ==
    \/ \E t \in Tasks : Run(t) \/ Die(t)
    \/ \E l \in Logins : TokenExpire(l) \/ RowExpire(l)

Spec == Init /\ [][Next]_vars

\* The event loop and the database do not stop while a request can go on.
FairSpec == Spec /\ WF_vars(\E t \in Tasks : Run(t) /\ pc[t] # "idle")

-----------------------------------------------------------------------------
(* Correctness.                                                            *)

Ended == {"done", "rejected", "failed", "dead"}
Stages == {"idle"} \cup UnderWay \cup Ended

\* Every variable keeps its type, and no two rows are of one device.
TypeOK ==
    /\ asked \in SUBSET Tasks
    /\ rows \in SUBSET Logins
    /\ device \in [Logins -> Devices \cup {Nothing}]
    /\ token \in [Logins -> Logins]
    /\ seen \in [Logins -> 0..clock]
    /\ expired \in SUBSET Logins
    /\ stale \in SUBSET Logins
    /\ clock \in Nat
    /\ pc \in [Tasks -> Stages]
    /\ time \in [Logins \cup Refreshes -> 0..clock]
    /\ target \in [Tasks -> Logins \cup {Nothing}]
    /\ doomed \in [Tasks -> SUBSET Logins]
    /\ locks \in [Tasks -> SUBSET Logins]
    /\ listed \in [Lists -> SUBSET Logins]
    /\ earlier \in [DeleteAlls -> SUBSET Logins]
    /\ crossed \in SUBSET Logins
    /\ touched \in SUBSET Logins

\* The UNIQUE constraint and the waits keep one session per device, also while
\* logins of one device, a sweep and a sign-out overlap.
OneRowPerDevice == \A s, r \in rows : device[s] = device[r] => s = r

\* The user has more than MaxSessions sessions only by logins that counted before
\* another committed.
WithinMaximum ==
    Cardinality(rows \ expired)
      <= MaxSessions + Cardinality({s \in rows : token[s] \in crossed})

\* A session that was there when a deletion of all began is not there after it, nor
\* ever again.
PasswordEndsSessions ==
    \A a \in DeleteAlls : pc[a] = "done" => rows \cap earlier[a] = {}

\* A login that commits evicts the sessions that were seen least recently (its own one
\* counts as seen now), as far as neither they nor those that stay changed meanwhile.
EvictsLeastRecent ==
    [][\A l \in Logins : LoginCommit(l) =>
         \A s \in Counted(l) \ rows', r \in Counted(l) \cap rows' :
             Rank(l, s) < Rank(l, r) \/ s \in touched' \/ r \in touched']_vars

\* No request waits for ever, though a login holds the rows it changed while it
\* waits for those that it deletes.
RequestsEnd ==
    <>[](\A t \in Tasks : pc[t] \in Ended \cup {"idle"})

-----------------------------------------------------------------------------
(* What the code says of itself and does not keep.                         *)

\* "List active, non-expired sessions for the currently authenticated user."
ListedLive ==
    [][\A i \in Lists : pc[i] = "idle" /\ pc'[i] = "done" => listed'[i] \cap expired = {}]_vars
=============================================================================
