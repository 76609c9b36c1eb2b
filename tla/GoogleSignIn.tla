----------------------------- MODULE GoogleSignIn -----------------------------
(***************************************************************************)
(* The users table under concurrent registrations, Google callbacks and    *)
(* clicks on verification links, and the tokens a callback hands out.  The *)
(* app and the old tree differ in how they consume the OAuth state, find   *)
(* the user and link it, in what the exchange of a google_token asks, and  *)
(* in whether a click on a link does anything; tree tells which of them    *)
(* runs.  Which of several links of one row is good, and for how long, is  *)
(* the subject of OldAccounts: here a good link is one of a token row.     *)
(* A user's row is named after the request that inserted it, a state after *)
(* the login that saved it, a google_token after the callback that signed  *)
(* it.  Google is external: a code buys one answer, which names an account *)
(* and an address; an address may move from one account to another.        *)
(***************************************************************************)
EXTENDS Naturals

CONSTANTS
    Emails, Accounts,   \* addresses, and Google accounts (the sub claim)
    Registers,          \* POST /register (app), POST /signup (old tree)
    Resends,            \* POST /verification/request/ (old tree)
    Clicks,             \* GET /verification/confirm/{token}, or the same link of the app
    Starts,             \* POST /google/login
    Callbacks,          \* GET or POST /google/callback
    Exchanges,          \* POST /google/session
    Consents,           \* codes Google may issue for one start
    CrashProne,         \* the tasks that may die between two awaits
    Nothing             \* no address, no account, no row

Rows == Registers \cup Callbacks
Seekers == Callbacks \cup Resends \cup Clicks
Tasks == Rows \cup Starts \cup Exchanges \cup Resends \cup Clicks

ASSUME KindAssumption ==
    /\ Registers \cap (Callbacks \cup Starts \cup Exchanges) = {}
    /\ Callbacks \cap (Starts \cup Exchanges) = {}
    /\ Starts \cap Exchanges = {}
    /\ Resends \cap (Rows \cup Starts \cup Exchanges) = {}
    /\ Clicks \cap (Rows \cup Starts \cup Exchanges \cup Resends) = {}
ASSUME NothingAssumption == Nothing \notin Emails \cup Accounts \cup Tasks

VARIABLES
    tree,      \* "app" or "old"
    mail,      \* the address of each row, Nothing when there is no row
    sub,       \* its google_sub
    verified,  \* the rows with is_verified
    links,     \* the rows that have a row in email_verification_tokens
    states,    \* the OAuth states that Redis holds
    redeemed,  \* the codes that Google has taken back
    tokens,    \* the google_tokens that are issued and not expired
    sessions,  \* the exchanges that opened a session
    pc,        \* where each task is
    state,     \* the state that a callback carries
    account,   \* the Google account that a callback was told
    email,     \* the address of a registration, or that Google told
    found,     \* the user row that a callback, a resend or a click has found
    loaded,    \* the google_sub that a callback loaded with it
    grant,     \* the callback whose google_token an exchange carries
    proven,    \* the addresses that Google has vouched for
    rivals,    \* the callbacks that deleted a state another had deleted
    crossed    \* the callbacks that overwrote a link made since they loaded

table == <<mail, sub, verified, links>>
redis == <<states, redeemed>>
issued == <<tokens, sessions>>
requests == <<state, account, email, found, loaded, grant>>
ghosts == <<proven, rivals, crossed>>
vars == <<tree, table, redis, issued, pc, requests, ghosts>>

Init ==
    /\ tree \in {"app", "old"}
    /\ mail = [u \in Rows |-> Nothing] /\ sub = [u \in Rows |-> Nothing]
    /\ verified = {} /\ links = {} /\ states = {} /\ redeemed = {} /\ tokens = {} /\ sessions = {}
    /\ pc = [t \in Tasks |-> "idle"]
    /\ state = [c \in Callbacks |-> Nothing] /\ account = [c \in Callbacks |-> Nothing]
    /\ email = [u \in Rows |-> Nothing]
    /\ found = [t \in Seekers |-> Nothing] /\ loaded = [c \in Callbacks |-> Nothing]
    /\ grant = [x \in Exchanges |-> Nothing]
    /\ proven = {} /\ rivals = {} /\ crossed = {}

Goto(t, stage) == pc' = [pc EXCEPT ![t] = stage]
Taken(e) == \E u \in Rows : mail[u] = e
Linked(a) == {u \in Rows : sub[u] = a}

-----------------------------------------------------------------------------
(* Registration by email: two commits, the user and the verification token,*)
(* and what the old tree does with that token.                             *)

RegisterSelect(r) ==
    /\ pc[r] = "idle"
    /\ \E e \in Emails :
         /\ email' = [email EXCEPT ![r] = e]
         /\ Goto(r, IF Taken(e) THEN "rejected" ELSE "absent")
    /\ UNCHANGED <<tree, table, redis, issued, state, account, found, loaded, grant, ghosts>>

\* users.email is UNIQUE.
RegisterInsert(r) ==
    /\ pc[r] = "absent"
    /\ \/ Taken(email[r]) /\ Goto(r, "failed") /\ UNCHANGED mail
       \/ ~Taken(email[r]) /\ Goto(r, "registered")
          /\ mail' = [mail EXCEPT ![r] = email[r]]
    /\ UNCHANGED <<tree, sub, verified, links, redis, issued, requests, ghosts>>

\* The old tree mints another link for an account by email that is not verified.
ResendSelect(q) ==
    /\ tree = "old" /\ pc[q] = "idle"
    /\ \/ \E u \in Registers \ verified :
            /\ mail[u] # Nothing
            /\ found' = [found EXCEPT ![q] = u] /\ Goto(q, "registered")
       \/ Goto(q, "rejected") /\ UNCHANGED found
    /\ UNCHANGED <<tree, table, redis, issued, state, account, email, loaded, grant, ghosts>>

Owner(t) == IF t \in Registers THEN t ELSE found[t]

\* create_email_verification_token (app), create_or_update_verification_token (old
\* tree): a token row is inserted, or updated when the user has one.
TokenSelect(t) ==
    /\ pc[t] = "registered"
    /\ Goto(t, IF Owner(t) \in links THEN "renewing" ELSE "minting")
    /\ UNCHANGED <<tree, table, redis, issued, requests, ghosts>>

\* user_id is UNIQUE, and an UPDATE of a row that is gone fails; then the mail.
TokenCommit(t) ==
    /\ \/ /\ pc[t] = IF Owner(t) \in links THEN "renewing" ELSE "minting"
          /\ links' = links \cup {Owner(t)}
          /\ Goto(t, "done")
       \/ /\ pc[t] = IF Owner(t) \in links THEN "minting" ELSE "renewing"
          /\ Goto(t, "failed")
          /\ UNCHANGED links
    /\ UNCHANGED <<tree, mail, sub, verified, redis, issued, requests, ghosts>>

MintLink(t) == TokenSelect(t) \/ TokenCommit(t)
Register(r) == RegisterSelect(r) \/ RegisterInsert(r) \/ MintLink(r)
Resend(q) == ResendSelect(q) \/ MintLink(q)

\* A link that is not of a token row, or expired, is refused.
ClickSelect(k) ==
    /\ tree = "old" /\ pc[k] = "idle"
    /\ \/ \E u \in links : found' = [found EXCEPT ![k] = u] /\ Goto(k, "accepted")
       \/ Goto(k, "rejected") /\ UNCHANGED found
    /\ UNCHANGED <<tree, table, redis, issued, state, account, email, loaded, grant, ghosts>>

\* verify_user commits ...
ClickVerify(k) ==
    /\ pc[k] = "accepted"
    /\ verified' = verified \cup {found[k]}
    /\ Goto(k, "verifying")
    /\ UNCHANGED <<tree, mail, sub, links, redis, issued, requests, ghosts>>

\* ... and then the token row is deleted.
ClickDelete(k) ==
    /\ pc[k] = "verifying"
    /\ links' = links \ {found[k]}
    /\ Goto(k, "done")
    /\ UNCHANGED <<tree, mail, sub, verified, redis, issued, requests, ghosts>>

\* The app mails the link too, and none of its routers has a route for it: a 404,
\* though the link is good.
AppClick(k) ==
    /\ tree = "app" /\ pc[k] = "idle"
    /\ \E u \in links : found' = [found EXCEPT ![k] = u]
    /\ Goto(k, "rejected")
    /\ UNCHANGED <<tree, table, redis, issued, state, account, email, loaded, grant, ghosts>>

Click(k) == ClickSelect(k) \/ ClickVerify(k) \/ ClickDelete(k) \/ AppClick(k)

-----------------------------------------------------------------------------
(* The OAuth state in Redis.                                               *)

Start(s) ==
    /\ pc[s] = "idle"
    /\ states' = states \cup {s}
    /\ Goto(s, "done")
    /\ UNCHANGED <<tree, table, redeemed, issued, requests, ghosts>>

\* GOOGLE_OAUTH_STATE_TTL_SECONDS have passed.
StateExpire(s) ==
    /\ s \in states
    /\ states' = states \ {s}
    /\ UNCHANGED <<tree, table, redeemed, issued, pc, requests, ghosts>>

\* The app reads the state ...
AppStateGet(c) ==
    /\ tree = "app" /\ pc[c] = "idle"
    /\ \E s \in Starts :
         /\ pc[s] = "done"
         /\ state' = [state EXCEPT ![c] = s]
         /\ Goto(c, IF s \in states THEN "read" ELSE "missed")
    /\ UNCHANGED <<tree, table, redis, issued, account, email, found, loaded, grant, ghosts>>

\* Mutant: the state is not deleted.
AppStateKeep(c) ==
    /\ pc[c] \in {"read", "missed"}
    /\ rivals' = IF state[c] \in states THEN rivals ELSE rivals \cup {c}
    /\ Goto(c, IF pc[c] = "read" THEN "consumed" ELSE "rejected")
    /\ UNCHANGED <<tree, table, redis, issued, requests, proven, crossed>>

\* ... and deletes it in a second call, whether or not it is still there.
AppStateDelete(c) ==
    /\ pc[c] \in {"read", "missed"}
    /\ states' = states \ {state[c]}
    /\ rivals' = IF state[c] \in states THEN rivals ELSE rivals \cup {c}
    /\ Goto(c, IF pc[c] = "read" THEN "consumed" ELSE "rejected")
    /\ UNCHANGED <<tree, table, redeemed, issued, requests, proven, crossed>>

\* The old tree does both in one transaction.
OldStateConsume(c) ==
    /\ tree = "old" /\ pc[c] = "idle"
    /\ \E s \in Starts :
         /\ pc[s] = "done"
         /\ state' = [state EXCEPT ![c] = s]
         /\ states' = states \ {s}
         /\ Goto(c, IF s \in states THEN "consumed" ELSE "rejected")
    /\ UNCHANGED <<tree, table, redeemed, issued, account, email, found, loaded, grant, ghosts>>

-----------------------------------------------------------------------------
(* Google: a code is exchanged once, and the answer names an account and an*)
(* address.  An address that Google has not verified ends the callback.    *)

\* Mutant: an address that Google does not vouch for is accepted.
GoogleAnswerUnverified(c) ==
    /\ pc[c] = "consumed"
    /\ \E n \in 1..Consents, a \in Accounts, e \in Emails, vouched \in BOOLEAN :
         /\ <<state[c], n>> \notin redeemed
         /\ redeemed' = redeemed \cup {<<state[c], n>>}
         /\ account' = [account EXCEPT ![c] = a]
         /\ email' = [email EXCEPT ![c] = e]
         /\ proven' = IF vouched THEN proven \cup {e} ELSE proven
         /\ Goto(c, "identified")
    /\ UNCHANGED <<tree, table, states, issued, state, found, loaded, grant, rivals, crossed>>

GoogleAnswer(c) ==
    /\ pc[c] = "consumed"
    /\ \E n \in 1..Consents, a \in Accounts, e \in Emails, vouched \in BOOLEAN :
         /\ <<state[c], n>> \notin redeemed
         /\ redeemed' = redeemed \cup {<<state[c], n>>}
         /\ account' = [account EXCEPT ![c] = a]
         /\ email' = [email EXCEPT ![c] = e]
         /\ proven' = IF vouched THEN proven \cup {e} ELSE proven
         /\ Goto(c, IF vouched THEN "identified" ELSE "rejected")
    /\ UNCHANGED <<tree, table, states, issued, state, found, loaded, grant, rivals, crossed>>

\* Google refuses a code it has seen, or cannot be reached.
GoogleRefuse(c) ==
    /\ pc[c] = "consumed"
    /\ Goto(c, "rejected")
    /\ UNCHANGED <<tree, table, redis, issued, requests, ghosts>>

-----------------------------------------------------------------------------
(* get_or_create_google_user.                                              *)

\* The app first looks for the account.
AppSubSelect(c) ==
    /\ tree = "app" /\ pc[c] = "identified"
    /\ \/ \E u \in Linked(account[c]) :
            found' = [found EXCEPT ![c] = u] /\ Goto(c, "known")
       \/ Linked(account[c]) = {} /\ Goto(c, "unknown") /\ UNCHANGED found
    /\ UNCHANGED <<tree, table, redis, issued, state, account, email, loaded, grant, ghosts>>

\* An account already linked: is_verified := True.
AppKnownCommit(c) ==
    /\ pc[c] = "known"
    /\ verified' = verified \cup {found[c]}
    /\ Goto(c, "signed")
    /\ UNCHANGED <<tree, mail, sub, links, redis, issued, requests, ghosts>>

\* Mutant: a row linked to another account is not refused.
EmailSelectAny(c) ==
    /\ pc[c] = IF tree = "app" THEN "unknown" ELSE "identified"
    /\ \/ \E u \in Rows :
            /\ mail[u] = email[c]
            /\ found' = [found EXCEPT ![c] = u]
            /\ loaded' = [loaded EXCEPT ![c] = sub[u]]
            /\ Goto(c, IF tree = "old" /\ sub[u] = account[c] THEN "signed" ELSE "linking")
       \/ ~Taken(email[c]) /\ Goto(c, "absent") /\ UNCHANGED <<found, loaded>>
    /\ UNCHANGED <<tree, table, redis, issued, state, account, email, grant, ghosts>>

\* Then, or in the old tree at once, for the address; a row linked to another
\* account is refused, and the old tree leaves one linked to this account alone.
EmailSelect(c) ==
    /\ pc[c] = IF tree = "app" THEN "unknown" ELSE "identified"
    /\ \/ \E u \in Rows :
            /\ mail[u] = email[c]
            /\ \/ /\ sub[u] \notin {Nothing, account[c]}
                  /\ Goto(c, "rejected")
                  /\ UNCHANGED <<found, loaded>>
               \/ /\ sub[u] \in {Nothing, account[c]}
                  /\ found' = [found EXCEPT ![c] = u]
                  /\ loaded' = [loaded EXCEPT ![c] = sub[u]]
                  /\ Goto(c, IF tree = "old" /\ sub[u] = account[c]
                             THEN "signed" ELSE "linking")
       \/ ~Taken(email[c]) /\ Goto(c, "absent") /\ UNCHANGED <<found, loaded>>
    /\ UNCHANGED <<tree, table, redis, issued, state, account, email, grant, ghosts>>

\* The link overwrites what another callback committed since; the app's
\* google_sub is UNIQUE, and its link also verifies the row.  A google_sub that was
\* loaded with this account is not written again.
LinkCommit(c) ==
    /\ pc[c] = "linking"
    /\ \/ /\ tree = "app" /\ loaded[c] = Nothing /\ Linked(account[c]) \ {found[c]} # {}
          /\ Goto(c, "failed")
          /\ UNCHANGED <<sub, verified, crossed>>
       \/ /\ \/ tree = "old" \/ loaded[c] # Nothing
             \/ Linked(account[c]) \ {found[c]} = {}
          /\ sub' = [sub EXCEPT ![found[c]] =
                        IF loaded[c] = Nothing THEN account[c] ELSE sub[found[c]]]
          /\ verified' = IF tree = "app" THEN verified \cup {found[c]} ELSE verified
          /\ crossed' = IF sub[found[c]] # loaded[c] THEN crossed \cup {c} ELSE crossed
          /\ Goto(c, "signed")
    /\ UNCHANGED <<tree, mail, links, redis, issued, requests, proven, rivals>>

\* email is UNIQUE, and in the app google_sub is too.
Conflict(c) == Taken(email[c]) \/ (tree = "app" /\ Linked(account[c]) # {})

\* Mutant: an address taken meanwhile is an update of its row.
UserUpsert(c) ==
    /\ pc[c] = "absent"
    /\ \E u \in Rows :
         /\ IF Taken(email[c]) THEN mail[u] = email[c] ELSE u = c
         /\ mail' = [mail EXCEPT ![u] = email[c]]
         /\ sub' = [sub EXCEPT ![u] = account[c]]
         /\ verified' = verified \cup {u}
         /\ found' = [found EXCEPT ![c] = u]
    /\ Goto(c, "signed")
    /\ UNCHANGED <<tree, links, redis, issued, state, account, email, loaded, grant, ghosts>>

UserInsert(c) ==
    /\ pc[c] = "absent"
    /\ \/ Conflict(c) /\ Goto(c, "failed") /\ UNCHANGED <<table, found>>
       \/ /\ ~Conflict(c)
          /\ mail' = [mail EXCEPT ![c] = email[c]]
          /\ sub' = [sub EXCEPT ![c] = account[c]]
          /\ verified' = verified \cup {c}
          /\ found' = [found EXCEPT ![c] = c]
          /\ Goto(c, "signed")
    /\ UNCHANGED <<tree, links, redis, issued, state, account, email, loaded, grant, ghosts>>

\* can_login of the row as it is now (the app), then the google_token.
TokenIssue(c) ==
    /\ pc[c] = "signed"
    /\ \/ /\ tree = "old" \/ found[c] \in verified
          /\ tokens' = tokens \cup {c}
          /\ Goto(c, "done")
       \/ /\ tree = "app" /\ found[c] \notin verified
          /\ Goto(c, "rejected")
          /\ UNCHANGED tokens
    /\ UNCHANGED <<tree, table, redis, sessions, requests, ghosts>>

GetOrCreate(c) ==
    \/ AppSubSelect(c) \/ AppKnownCommit(c) \/ EmailSelect(c) \/ LinkCommit(c)
    \/ UserInsert(c)

Callback(c) ==
    \/ AppStateGet(c) \/ AppStateDelete(c) \/ OldStateConsume(c)
    \/ GoogleAnswer(c) \/ GoogleRefuse(c) \/ GetOrCreate(c) \/ TokenIssue(c)

\* Two minutes have passed since the callback.
TokenExpire(c) ==
    /\ c \in tokens
    /\ tokens' = tokens \ {c}
    /\ UNCHANGED <<tree, table, redis, sessions, pc, requests, ghosts>>

-----------------------------------------------------------------------------
(* POST /google/session.  Neither tree marks the token as used.            *)

ExchangeCheck(x) ==
    /\ pc[x] = "idle"
    /\ \E c \in Callbacks :
         /\ pc[c] = "done"
         /\ grant' = [grant EXCEPT ![x] = c]
         /\ Goto(x, IF c \in tokens /\ (tree = "old" \/ found[c] \in verified)
                    THEN "valid" ELSE "rejected")
    /\ UNCHANGED <<tree, table, redis, issued, state, account, email, found, loaded, ghosts>>

\* create_login_session, in one step.
ExchangeOpen(x) ==
    /\ pc[x] = "valid"
    /\ sessions' = sessions \cup {x}
    /\ Goto(x, IF tree = "app" THEN "opened" ELSE "done")
    /\ UNCHANGED <<tree, table, redis, tokens, requests, ghosts>>

\* The app's router checks the token again, for the mail: if it expired by now the
\* client sees a 500 and the session stays.
AppExchangeAnswer(x) ==
    /\ pc[x] = "opened"
    /\ Goto(x, IF grant[x] \in tokens THEN "done" ELSE "failed")
    /\ UNCHANGED <<tree, table, redis, issued, requests, ghosts>>

Exchange(x) == ExchangeCheck(x) \/ ExchangeOpen(x) \/ AppExchangeAnswer(x)

Die(t) ==
    /\ t \in CrashProne
    /\ pc[t] \notin {"idle", "done", "rejected", "failed", "dead"}
    /\ Goto(t, "dead")
    /\ UNCHANGED <<tree, table, redis, issued, requests, ghosts>>

Next ==
    \/ \E r \in Registers : Register(r)
    \/ \E q \in Resends : Resend(q)
    \/ \E k \in Clicks : Click(k)
    \/ \E s \in Starts : Start(s) \/ StateExpire(s)
    \/ \E c \in Callbacks : Callback(c) \/ TokenExpire(c)
    \/ \E x \in Exchanges : Exchange(x)
    \/ \E t \in Tasks : Die(t)

Spec == Init /\ [][Next]_vars

\* A request that has begun and is not killed runs to its end; nobody has to begin one.
FairSpec ==
    /\ Spec
    /\ \A r \in Registers : WF_vars(RegisterInsert(r) \/ MintLink(r))
    /\ \A k \in Clicks : WF_vars(ClickVerify(k) \/ ClickDelete(k))

-----------------------------------------------------------------------------
(* Correctness.                                                            *)

Stages == {"idle", "absent", "registered", "read", "missed", "consumed", "identified",
           "known", "unknown", "linking", "signed", "valid", "opened",
           "minting", "renewing", "accepted", "verifying",
           "done", "rejected", "failed", "dead"}

\* Every variable keeps its type, and what is loaded of a row is about a row.
TypeOK ==
    /\ tree \in {"app", "old"}
    /\ mail \in [Rows -> Emails \cup {Nothing}]
    /\ sub \in [Rows -> Accounts \cup {Nothing}]
    /\ verified \in SUBSET Rows /\ links \in SUBSET Registers
    /\ states \in SUBSET Starts
    /\ redeemed \in SUBSET (Starts \X (1..Consents))
    /\ tokens \in SUBSET Callbacks
    /\ sessions \in SUBSET Exchanges
    /\ pc \in [Tasks -> Stages]
    /\ state \in [Callbacks -> Starts \cup {Nothing}]
    /\ account \in [Callbacks -> Accounts \cup {Nothing}]
    /\ email \in [Rows -> Emails \cup {Nothing}]
    /\ found \in [Seekers -> Rows \cup {Nothing}]
    /\ loaded \in [Callbacks -> Accounts \cup {Nothing}]
    /\ grant \in [Exchanges -> Callbacks \cup {Nothing}]
    /\ proven \in SUBSET Emails
    /\ rivals \in SUBSET Callbacks
    /\ crossed \in SUBSET Callbacks

Past == {"consumed", "identified", "known", "unknown", "absent", "linking", "signed", "done"}

\* Two callbacks get past one OAuth state only in the app, and only if both had
\* read it before either deleted it.
StateOnce ==
    \A c, d \in Callbacks :
        c # d /\ state[c] = state[d] /\ pc[c] \in Past /\ pc[d] \in Past
          => tree = "app" /\ (c \in rivals \/ d \in rivals)

\* A user is verified only if Google has vouched for the user's address or, in the old
\* tree alone, a link that was mailed to that address was opened while it was good; and
\* in the app a row linked to a Google account is verified, so that the can_login check
\* after the commit never refuses a Google sign-in that linked a row.
VerifiedSound ==
    /\ \A u \in verified :
         mail[u] \in proven \/ (tree = "old" /\ \E k \in Clicks : found[k] = u)
    /\ tree = "app" => \A u \in Rows : sub[u] # Nothing => u \in verified

\* A Google session belongs to the user whom that Google account is linked to,
\* unless two callbacks linked one row at the same time.
SessionOfAccount ==
    \A x \in sessions :
        LET c == grant[x]
        IN  \/ sub[found[c]] = account[c]
            \/ \E d \in crossed : found[d] = found[c]

\* A link to a Google account is never replaced, unless by a callback that had
\* loaded the row before the link was made: the 409 check holds but for that race.
LinkStays ==
    [][\A u \in Rows : sub[u] # Nothing /\ sub'[u] # sub[u]
         => \E d \in crossed' : found[d] = u /\ loaded[d] = Nothing]_vars

-----------------------------------------------------------------------------
(* What the code says of itself and does not keep.                         *)

\* "Account created successfully. Please verify your email.": whoever opens the link
\* of that mail while it is good gets the account verified, as a sign-in requires.
ClickVerifies == \A k \in Clicks, r \in Registers : (found[k] = r) ~> (r \in verified)
=============================================================================
