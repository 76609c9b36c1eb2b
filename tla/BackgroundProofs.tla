--------------------------- MODULE BackgroundProofs ---------------------------
(***************************************************************************)
(* Theorems about MailTasks, Subscriptions, Avatars and ImagePipeline, for *)
(* any number of mails, orders and uploads and any lengths, as the parts of*)
(* MCBackground, of which one moves in a behaviour.                        *)
(***************************************************************************)
EXTENDS MCBackground, FiniteSetTheorems, TLAPS

\* A step is one of one part, and leaves the others alone.
LEMMA PartSteps == [Next]_vars => /\ [MailNext]_mailVars
                                  /\ [SubscriptionNext]_subscriptionVars
                                  /\ [AvatarNext]_avatarVars
                                  /\ [ProcessUpload]_imageVars
BY DEF Next, vars

-----------------------------------------------------------------------------
(* Mails.                                                                  *)

\* The copies of a mail are counted, and another copy is one more.
LEMMA CopiesCount ==
    ASSUME mailbox \in Seq(Mails), NEW x
    PROVE  /\ Copies(x) \in Nat
           /\ \A m \in Mails : mailbox' = Append(mailbox, m) =>
                Copies(x)' = IF x = m THEN Copies(x) + 1 ELSE Copies(x)
<1> DEFINE at == {i \in DOMAIN mailbox : mailbox[i] = x}
<1>1. DOMAIN mailbox = 1..Len(mailbox) /\ Len(mailbox) \in Nat
  OBVIOUS
<1>2. IsFiniteSet(DOMAIN mailbox)
  BY <1>1, FS_Interval
<1>3. IsFiniteSet(at)
  BY <1>2, FS_Subset
<1>4. Copies(x) = Cardinality(at) /\ Copies(x) \in Nat
  BY <1>3, FS_CardinalityType DEF Copies
<1>5. ASSUME NEW m \in Mails, mailbox' = Append(mailbox, m)
      PROVE  Copies(x)' = IF x = m THEN Copies(x) + 1 ELSE Copies(x)
  <2> DEFINE new == {i \in DOMAIN mailbox' : mailbox'[i] = x}
             end == Len(mailbox) + 1
  <2>1. /\ DOMAIN mailbox' = (DOMAIN mailbox) \cup {end} /\ end \notin DOMAIN mailbox
        /\ mailbox'[end] = m
        /\ \A i \in DOMAIN mailbox : mailbox'[i] = mailbox[i]
    BY <1>1, <1>5
  <2>2. Copies(x)' = Cardinality(new)
    BY DEF Copies
  <2>3. CASE x = m
    <3>1. new = at \cup {end} /\ end \notin at
      BY <2>1, <2>3
    <3> HIDE DEF new, at, end
    <3> QED
      BY <3>1, <2>2, <2>3, <1>3, <1>4, FS_AddElement
  <2>4. CASE x # m
    <3>1. new = at
      BY <2>1, <2>4
    <3> QED
      BY <3>1, <2>2, <2>4, <1>4
  <2> QED
    BY <2>3, <2>4
<1> QED
  BY <1>4, <1>5

\* A task that waits has a retry left, and one that runs is not counted yet; every
\* attempt before it left a copy or a refusal, if the template renders.
Counted(m) ==
    /\ Copies(m) + refusals[m] <= attempts[m] /\ attempts[m] <= MaxRetries + 1
    /\ mail[m] \in {"none", "committed", "queued"} => attempts[m] = 0
    /\ mail[m] = "waiting" => attempts[m] <= MaxRetries
    /\ mail[m] = "running" => Copies(m) + refusals[m] < attempts[m]
    /\ Renders /\ m \notin dropped /\ mail[m] # "running" =>
         attempts[m] = Copies(m) + refusals[m]
    /\ Renders /\ m \notin dropped /\ mail[m] = "running" =>
         attempts[m] = Copies(m) + refusals[m] + 1
    /\ mail[m] = "lost" => m \in dropped \/ attempts[m] = MaxRetries + 1

MailsExplained ==
    /\ mail \in [Mails -> {"none", "committed", "queued", "running", "waiting", "sent", "lost"}]
    /\ attempts \in [Mails -> Nat] /\ refusals \in [Mails -> Nat] /\ mailbox \in Seq(Mails)
    /\ issued \in Seq(Links) /\ dropped \in SUBSET Mails /\ outOfTurn \in SUBSET Links
    /\ templates \in {"present", "missing"} /\ code \in {"app", "old"}
    /\ \A m \in Mails : Counted(m)

\* Every mail's state is explained by what has befallen it.
LEMMA MailsInvariant == Spec => []MailsExplained
<1> USE RetriesAssumption DEF MailsExplained, Mailed
<1>1. MailInit => MailsExplained
  <2> SUFFICES ASSUME MailInit PROVE MailsExplained
    OBVIOUS
  <2>1. mailbox = <<>> /\ mailbox \in Seq(Mails)
    BY DEF MailInit
  <2>2. \A m : {i \in DOMAIN mailbox : mailbox[i] = m} = {}
    BY <2>1
  <2>3. \A m : Copies(m) = 0
    BY <2>2, FS_EmptySet DEF Copies
  <2> QED
    BY <2>1, <2>3 DEF MailInit, Counted
<1>2. MailsExplained /\ [MailNext]_mailVars => MailsExplained'
  <2> SUFFICES ASSUME MailsExplained, [MailNext]_mailVars PROVE MailsExplained'
    OBVIOUS
  <2>0. /\ \A m : Copies(m) \in Nat
        /\ \A x, m \in Mails : mailbox' = Append(mailbox, m) =>
             Copies(x)' = IF x = m THEN Copies(x) + 1 ELSE Copies(x)
    BY CopiesCount
  <2>a. UNCHANGED mailbox => \A m : Copies(m)' = Copies(m)
    BY DEF Copies
  <2>k. \A m \in Mails : /\ Counted(m) /\ Copies(m) \in Nat
                          /\ attempts[m] \in Nat /\ refusals[m] \in Nat
    BY <2>0
  <2>b. UNCHANGED <<templates, code>> => Renders' = Renders
    BY DEF Renders
  <2>c. ASSUME NEW x \in Mails, mail'[x] = mail[x], attempts'[x] = attempts[x],
               refusals'[x] = refusals[x], Copies(x)' = Copies(x), Renders' = Renders,
               x \in dropped' <=> x \in dropped
        PROVE  Counted(x)'
    BY <2>c DEF Counted
  <2>1. ASSUME NEW m \in Mails, Commit(m) PROVE MailsExplained'
    <3>1. issued' \in Seq(Links) /\ outOfTurn' \in SUBSET Links
      BY <2>1 DEF Commit, CarriesLink, OnTheWay
    <3>2. /\ mail[m] = "none" /\ mail'[m] = "committed"
          /\ Copies(m)' = Copies(m) /\ Renders' = Renders
          /\ UNCHANGED <<attempts, refusals, dropped>>
      BY <2>1, <2>a, <2>b DEF Commit
    <3>4. Counted(m)'
      BY <3>2, <2>0 DEF Counted
    <3>3. ASSUME NEW x \in Mails \ {m} PROVE Counted(x)'
      BY <2>1, <2>a, <2>b, <2>c DEF Commit
    <3> QED
      BY <2>1, <3>1, <3>3, <3>4 DEF Commit
  <2>2. ASSUME NEW m \in Mails, Delay(m) \/ Take(m) \/ WorkerDies(m) PROVE MailsExplained'
    <3>1. Counted(m)'
      <4>0. Copies(m)' = Copies(m) /\ Renders' = Renders /\ refusals'[m] = refusals[m]
        BY <2>2, <2>a, <2>b DEF Delay, Take, WorkerDies
      <4>1. CASE Delay(m)
        <5>1. /\ mail[m] = "committed" /\ attempts'[m] = attempts[m]
              /\ \/ mail'[m] = "queued" /\ dropped' = dropped
                 \/ mail'[m] = "lost" /\ m \in dropped'
          BY <4>1 DEF Delay
        <5> QED
          BY <4>0, <5>1, <2>0 DEF Counted
      <4>2. CASE Take(m)
        <5>1. /\ mail[m] \in {"queued", "waiting"} /\ mail'[m] = "running"
              /\ attempts'[m] = attempts[m] + 1 /\ dropped' = dropped
          BY <4>2 DEF Take
        <5>2. attempts[m] <= MaxRetries
          BY <5>1, <2>k DEF Counted
        <5> HIDE DEF MailsExplained
        <5> QED
          BY <4>0, <5>1, <5>2, <2>k DEF Counted
      <4>3. CASE WorkerDies(m)
        <5>1. /\ mail[m] = "running" /\ mail'[m] = "lost" /\ m \in dropped'
              /\ attempts'[m] = attempts[m]
          BY <4>3 DEF WorkerDies
        <5> QED
          BY <4>0, <5>1, <2>0 DEF Counted
      <4> QED
        BY <2>2, <4>1, <4>2, <4>3
    <3>2. ASSUME NEW x \in Mails \ {m} PROVE Counted(x)'
      BY <2>2, <2>a, <2>b, <2>c DEF Delay, Take, WorkerDies
    <3>3. UNCHANGED <<mailbox, issued, refusals, outOfTurn, templates, code>>
      BY <2>2 DEF Delay, Take, WorkerDies
    <3>4. mail' \in [Mails -> {"none", "committed", "queued", "running", "waiting", "sent",
                              "lost"}]
      BY <2>2 DEF Delay, Take, WorkerDies
    <3>5. attempts' \in [Mails -> Nat] /\ dropped' \in SUBSET Mails
      <4>1. CASE Delay(m)
        BY <4>1 DEF Delay
      <4>2. CASE Take(m)
        BY <4>2 DEF Take
      <4>3. CASE WorkerDies(m)
        BY <4>3 DEF WorkerDies
      <4> QED
        BY <2>2, <4>1, <4>2, <4>3
    <3> QED
      BY <3>1, <3>2, <3>3, <3>4, <3>5
  <2>3. ASSUME NEW m \in Mails, Send(m) PROVE MailsExplained'
    <3>1. /\ mailbox' = Append(mailbox, m) /\ mail[m] = "running" /\ mail'[m] = "sent"
          /\ Copies(m)' = Copies(m) + 1 /\ Renders /\ Renders' = Renders
          /\ UNCHANGED <<attempts, refusals, dropped>>
      BY <2>3, <2>0, <2>b DEF Send
    <3>2. Counted(m)'
      <4>1. Counted(m) /\ Copies(m) \in Nat /\ attempts[m] \in Nat /\ refusals[m] \in Nat
        BY <2>k
      <4>2. attempts'[m] = attempts[m] /\ refusals'[m] = refusals[m]
        BY <3>1
      <4> HIDE DEF MailsExplained
      <4> QED
        BY <3>1, <4>1, <4>2 DEF Counted
    <3>3. ASSUME NEW x \in Mails \ {m} PROVE Counted(x)'
      BY <2>3, <2>0, <3>1, <2>c DEF Send
    <3> QED
      BY <2>3, <3>2, <3>3 DEF Send
  <2>4. ASSUME NEW m \in Mails, AttemptFails(m) PROVE MailsExplained'
    <3>1. /\ mail[m] = "running" /\ Copies(m) \in Nat /\ Renders' = Renders
          /\ UNCHANGED <<attempts, issued, dropped, outOfTurn, templates, code>>
          /\ mail' = [mail EXCEPT ![m] = IF attempts[m] <= MaxRetries THEN "waiting" ELSE "lost"]
      BY <2>4, <2>0, <2>b DEF AttemptFails, Again, Renders
    <3>5. ASSUME Copies(m)' \in Nat, refusals'[m] \in Nat,
                 \/ Renders /\ Copies(m)' + refusals'[m] = Copies(m) + refusals[m] + 1
                 \/ ~Renders /\ Copies(m)' + refusals'[m] = Copies(m) + refusals[m]
          PROVE  Counted(m)'
      <4>1. mail'[m] = IF attempts[m] <= MaxRetries THEN "waiting" ELSE "lost"
        BY <3>1
      <4>2. Counted(m) /\ Copies(m) \in Nat /\ attempts[m] \in Nat /\ refusals[m] \in Nat
        BY <2>k
      <4>3. attempts'[m] = attempts[m] /\ (m \in dropped' <=> m \in dropped)
        BY <3>1
      <4> HIDE DEF MailsExplained
      <4>4. CASE attempts[m] <= MaxRetries
        BY <3>1, <3>5, <4>1, <4>2, <4>3, <4>4 DEF Counted
      <4>5. CASE ~(attempts[m] <= MaxRetries)
        BY <3>1, <3>5, <4>1, <4>2, <4>3, <4>5 DEF Counted
      <4> QED
        BY <4>4, <4>5
    <3>6. \A x \in Mails \ {m} : mail'[x] = mail[x]
      BY <3>1
    <3>2. CASE Renders /\ mailbox' = Append(mailbox, m) /\ UNCHANGED refusals
      <4>0. Copies(m)' = Copies(m) + 1
        BY <3>2, <2>0
      <4>1. \A x \in Mails \ {m} : Copies(x)' = Copies(x)
        BY <3>2, <2>0
      <4>2. refusals'[m] = refusals[m] /\ Copies(m) \in Nat /\ refusals[m] \in Nat
        BY <3>2, <2>k
      <4>5. Copies(m)' \in Nat /\ Copies(m)' + refusals'[m] = Copies(m) + refusals[m] + 1
        <5> HIDE DEF MailsExplained
        <5> QED
          BY <4>0, <4>2
      <4>4. Counted(m)'
        BY <3>2, <3>5, <4>2, <4>5
      <4>3. \A x \in Mails \ {m} : Counted(x)'
        BY <3>1, <3>2, <3>6, <4>1, <2>c
      <4> QED
        BY <3>1, <3>2, <4>3, <4>4
    <3>3. CASE Renders /\ refusals' = [refusals EXCEPT ![m] = @ + 1] /\ UNCHANGED mailbox
      <4>1. refusals'[m] = refusals[m] + 1 /\ refusals' \in [Mails -> Nat]
        BY <3>3
      <4>2. Copies(m)' = Copies(m) /\ Copies(m) \in Nat /\ refusals[m] \in Nat
        BY <3>3, <2>a, <2>k
      <4>5. /\ Copies(m)' \in Nat /\ refusals'[m] \in Nat
            /\ Copies(m)' + refusals'[m] = Copies(m) + refusals[m] + 1
        BY <4>1, <4>2
      <4>4. Counted(m)'
        BY <3>3, <3>5, <4>5
      <4>3. \A x \in Mails \ {m} : Counted(x)'
        BY <3>1, <3>3, <3>6, <2>a, <2>c
      <4> QED
        BY <3>1, <3>3, <4>1, <4>3, <4>4
    <3>4. CASE ~Renders /\ UNCHANGED <<mailbox, refusals>>
      <4>1. Counted(m)'
        BY <3>4, <3>5, <2>a, <2>k
      <4>2. \A x \in Mails \ {m} : Counted(x)'
        BY <3>1, <3>4, <3>6, <2>a, <2>c
      <4> QED
        BY <3>1, <3>4, <4>1, <4>2
    <3> QED
      BY <2>4, <3>2, <3>3, <3>4 DEF AttemptFails
  <2>5. CASE UNCHANGED mailVars
    BY <2>5, <2>a, <2>b, <2>c DEF mailVars
  <2> QED
    BY <2>1, <2>2, <2>3, <2>4, <2>5 DEF MailNext, Step
<1> QED
  BY <1>1, <1>2, PartSteps, PTL DEF Spec, Init

\* Mails are counted as often as they were taken, and lost only for one of the reasons
\* that the code has.
THEOREM MailsAreAccounted == Spec => []MailsAccounted
<1>1. MailsExplained => MailsAccounted
  <2> SUFFICES ASSUME MailsExplained PROVE MailsAccounted
    OBVIOUS
  <2> USE RetriesAssumption DEF MailsExplained
  <2>1. \A m \in Mails : Copies(m) \in Nat
    BY CopiesCount
  <2>2. MailTypeOK
    BY <2>1 DEF MailTypeOK, Counted
  <2>3. LossExplained
    BY <2>1 DEF LossExplained, Counted, Renders
  <2> QED
    BY <2>2, <2>3 DEF MailsAccounted
<1> QED
  BY <1>1, MailsInvariant, PTL

\* A link is issued once, in the order of the commits, and one that was still on its way
\* at a later commit is out of turn.
LinksOrdered ==
    /\ NewestLinkOnTop
    /\ mail \in [Mails -> {"none", "committed", "queued", "running", "waiting", "sent", "lost"}]
    /\ mailbox \in Seq(Mails) /\ issued \in Seq(Links)
    /\ \A i \in DOMAIN mailbox : mail[mailbox[i]] # "none"
    /\ \A m \in Links : mail[m] # "none" <=> \E k \in DOMAIN issued : issued[k] = m
    /\ \A k, l \in DOMAIN issued : k < l =>
         issued[k] \in outOfTurn \/ mail[issued[k]] \in {"sent", "lost"}

\* A link that was still on its way when a later one was issued is out of turn.
LEMMA LinksInvariant == Spec => []LinksOrdered
<1> USE DEF LinksOrdered, NewestLinkOnTop, Mailed, Mails
<1>1. MailInit => LinksOrdered
  BY DEF MailInit
<1>2. LinksOrdered /\ [MailNext]_mailVars => LinksOrdered'
  <2> SUFFICES ASSUME LinksOrdered, [MailNext]_mailVars PROVE LinksOrdered'
    OBVIOUS
  <2>1. ASSUME NEW m \in Mails, Commit(m) PROVE LinksOrdered'
    <3>1. CASE m \notin Links
      BY <2>1, <3>1 DEF Commit, CarriesLink
    <3>2. CASE m \in Links
      <4> DEFINE end == Len(issued) + 1
      <4>1. /\ mail[m] = "none" /\ mail' = [mail EXCEPT ![m] = "committed"]
            /\ issued' = Append(issued, m) /\ UNCHANGED mailbox
            /\ OnTheWay \subseteq outOfTurn' /\ outOfTurn \subseteq outOfTurn'
        BY <2>1, <3>2 DEF Commit, CarriesLink
      <4>2. /\ DOMAIN issued' = (DOMAIN issued) \cup {end} /\ issued'[end] = m
            /\ \A k \in DOMAIN issued : /\ issued'[k] = issued[k] /\ issued[k] \in Links
                                       /\ k < end /\ issued[k] # m
        BY <4>1
      <4>3. \A i \in DOMAIN mailbox : mailbox[i] # m /\ mailbox[i] \in Mails
        BY <4>1
      <4> HIDE DEF end
      <4>4. ASSUME NEW k \in DOMAIN issued', NEW l \in DOMAIN issued', k < l
            PROVE  issued'[k] \in outOfTurn' \/ mail'[issued'[k]] \in {"sent", "lost"}
        <5>1. k \in DOMAIN issued
          BY <4>2, <4>4 DEF end
        <5>2. CASE l \in DOMAIN issued
          BY <5>1, <5>2, <4>1, <4>2, <4>4
        <5>3. CASE l = end
          <6>1. issued[k] \in OnTheWay \/ mail[issued[k]] \in {"sent", "lost"}
            BY <5>1, <4>2 DEF OnTheWay
          <6> QED
            BY <6>1, <5>1, <4>1, <4>2
        <5> QED
          BY <5>2, <5>3, <4>2
      <4>5. NewestLinkOnTop'
        BY <4>1, <4>2, <4>3
      <4>6. \A x \in Links : mail'[x] # "none" <=> \E k \in DOMAIN issued' : issued'[k] = x
        BY <3>2, <4>1, <4>2
      <4>7. \A i \in DOMAIN mailbox' : mail'[mailbox'[i]] # "none"
        BY <4>1, <4>3
      <4>8. /\ mail' \in [Mails -> {"none", "committed", "queued", "running", "waiting",
                                    "sent", "lost"}]
            /\ mailbox' \in Seq(Mails) /\ issued' \in Seq(Links)
        BY <3>2, <4>1
      <4> HIDE DEF NewestLinkOnTop
      <4> QED
        BY <4>4, <4>5, <4>6, <4>7, <4>8
    <3> QED
      BY <3>1, <3>2
  <2>2. ASSUME NEW m \in Mails, Delay(m) \/ Take(m) \/ WorkerDies(m) PROVE LinksOrdered'
    BY <2>2 DEF Delay, Take, WorkerDies
  <2>3. ASSUME NEW m \in Mails, mail[m] = "running", mailbox' = Append(mailbox, m),
               Mailed(m, "sent") \/ Mailed(m, "waiting") \/ Mailed(m, "lost"),
               UNCHANGED <<issued, outOfTurn>>
        PROVE  LinksOrdered'
    <3> DEFINE end == Len(mailbox) + 1
    <3>1. /\ DOMAIN mailbox' = (DOMAIN mailbox) \cup {end} /\ mailbox'[end] = m
          /\ mailbox' \in Seq(Mails)
          /\ \A i \in DOMAIN mailbox : mailbox'[i] = mailbox[i] /\ ~(end < i) /\ i \in Nat
      BY <2>3
    <3>2. \A x \in Mails : mail'[x] = "none" <=> mail[x] = "none"
      BY <2>3
    <3>3. ASSUME NEW k \in DOMAIN issued, NEW l \in DOMAIN issued, k < l
          PROVE  /\ issued[k] \in outOfTurn \/ mail'[issued[k]] \in {"sent", "lost"}
                 /\ issued[k] = m => m \in outOfTurn
      BY <2>3, <3>3
    <3>4. ASSUME NEW i \in DOMAIN mailbox', mailbox'[i] \in Links
          PROVE  /\ \E k \in DOMAIN issued : issued[k] = mailbox'[i]
                 /\ \A j \in 1..(i - 1), k, l \in DOMAIN issued :
                      issued[k] = mailbox'[i] /\ issued[l] = mailbox'[j] /\ k < l =>
                        issued[k] \in outOfTurn
      <4>1. CASE i \in DOMAIN mailbox
        <5>1. \A j \in 1..(i - 1) : j \in DOMAIN mailbox /\ mailbox'[j] = mailbox[j]
          BY <4>1, <3>1
        <5> HIDE DEF end
        <5> QED
          BY <4>1, <5>1, <3>1, <3>4
      <4>2. CASE i = end
        <5> HIDE DEF end
        <5> QED
          BY <4>2, <2>3, <3>1, <3>3, <3>4
      <4> QED
        BY <4>1, <4>2, <3>1
    <3>5. NewestLinkOnTop'
      BY <3>4, <2>3
    <3> HIDE DEF end
    <3> QED
      BY <2>3, <3>1, <3>2, <3>3, <3>5
  <2>4. ASSUME NEW m \in Mails, Send(m) PROVE LinksOrdered'
    BY <2>3, <2>4 DEF Send
  <2>5. ASSUME NEW m \in Mails, AttemptFails(m) PROVE LinksOrdered'
    <3>1. /\ mail[m] = "running" /\ UNCHANGED <<issued, outOfTurn>>
          /\ Mailed(m, "waiting") \/ Mailed(m, "lost")
      BY <2>5 DEF AttemptFails, Again
    <3>2. CASE mailbox' = Append(mailbox, m)
      <4> HIDE DEF LinksOrdered, Mailed
      <4> QED
        BY <3>1, <3>2, <2>3
    <3>3. CASE UNCHANGED mailbox
      BY <3>1, <3>3
    <3> QED
      BY <2>5, <3>2, <3>3 DEF AttemptFails
  <2>6. CASE UNCHANGED mailVars
    BY <2>6 DEF mailVars
  <2> QED
    BY <2>1, <2>2, <2>4, <2>5, <2>6 DEF MailNext, Step
<1> QED
  BY <1>1, <1>2, PartSteps, PTL DEF Spec, Init

\* A mailed link is of a token that is committed, and the last one in the mailbox carries
\* the newest that has left, unless two were on their way at once.
THEOREM NewestLinkIsOnTop == Spec => []NewestLinkOnTop
<1>1. LinksOrdered => NewestLinkOnTop
  BY DEF LinksOrdered
<1> QED
  BY <1>1, LinksInvariant, PTL

-----------------------------------------------------------------------------
(* Subscriptions.                                                          *)

\* A call that has begun has its row, and PesaPal has nothing of it before it submits.
OrdersExplained ==
    /\ OrdersSound /\ answered \in [Orders -> Nat]
    /\ \A o \in Orders : progress[o] \notin {"idle", "failed"} => status[o] # "none"
    /\ \A o \in Orders :
         progress[o] \in {"idle", "inserted", "authorized"} => provider[o] = "none"

\* Every order is explained by how far the call of /subscribe has come.
LEMMA OrdersInvariant == Spec => []OrdersExplained
<1> USE NoticesAssumption
        DEF OrdersExplained, OrdersSound, SubscriptionTypeOK, OrdersTraceable, Goes, CallFails
<1>1. SubscriptionInit => OrdersExplained
  BY DEF SubscriptionInit
<1>2. OrdersExplained /\ [SubscriptionNext]_subscriptionVars => OrdersExplained'
  <2> SUFFICES ASSUME OrdersExplained, [SubscriptionNext]_subscriptionVars
               PROVE  OrdersExplained'
    OBVIOUS
  <2>1. ASSUME NEW o \in Orders, Insert(o) PROVE OrdersExplained'
    BY <2>1 DEF Insert
  <2>2. ASSUME NEW o \in Orders, RequestToken(o) PROVE OrdersExplained'
    BY <2>2 DEF RequestToken
  <2>3. ASSUME NEW o \in Orders, SubmitOrder(o) PROVE OrdersExplained'
    BY <2>3 DEF SubmitOrder
  <2>4. ASSUME NEW o \in Orders, StoreTracking(o) PROVE OrdersExplained'
    BY <2>4 DEF StoreTracking
  <2>5. ASSUME NEW o \in Orders, SubscribeDies(o) PROVE OrdersExplained'
    BY <2>5 DEF SubscribeDies
  <2>6. ASSUME NEW o \in Orders, Pay(o) PROVE OrdersExplained'
    BY <2>6 DEF Pay
  <2>7. ASSUME NEW o \in Orders, Ipn(o) PROVE OrdersExplained'
    <3>1. /\ notified[o] \in 0..MaxNotices /\ notified[o] < MaxNotices
          /\ answered[o] \in 0..notified[o]
          /\ notified' = [notified EXCEPT ![o] = @ + 1]
          /\ answered' = answered \/ answered' = [answered EXCEPT ![o] = @ + 1]
          /\ UNCHANGED <<progress, status, tracking, provider>>
      BY <2>7 DEF Ipn
    <3>2. notified[o] + 1 \in 0..MaxNotices
      BY <3>1
    <3>3. \A x \in Orders : answered'[x] \in 0..notified'[x]
      BY <3>1
    <3> QED
      BY <3>1, <3>2, <3>3
  <2>8. CASE UNCHANGED subscriptionVars
    BY <2>8 DEF subscriptionVars
  <2> QED
    BY <2>1, <2>2, <2>3, <2>4, <2>5, <2>6, <2>7, <2>8 DEF SubscriptionNext, Subscribe
<1> QED
  BY <1>1, <1>2, PartSteps, PTL DEF Spec, Init

\* An order that PesaPal holds has its row, and one that is paid its tracking id.
THEOREM OrdersAreSound == Spec => []OrdersSound
<1>1. OrdersExplained => OrdersSound
  BY DEF OrdersExplained
<1> QED
  BY <1>1, OrdersInvariant, PTL

-----------------------------------------------------------------------------
(* Avatars.                                                                *)

\* What is deleted between the file of an upload and its row is deleted by an upload
\* that replaced another.
FileExplained ==
    /\ upload \in [Uploads -> {"idle", "loaded", "refused", "saved", "committed", "done", "dead"}]
    /\ before \in [Uploads -> {"none", AvatarPath}] /\ path \in {"none", AvatarPath}
    /\ path = AvatarPath \/ (\E u \in Uploads : upload[u] = "saved") =>
         \/ file # NoFile
         \/ \E u \in Uploads : upload[u] = "done" /\ before[u] = AvatarPath

\* The avatar's file is there until an upload removes the one it replaced.
LEMMA FileInvariant == Spec => []FileExplained
<1> USE NoFileAssumption DEF FileExplained, AvatarPath, Turns
<1>1. AvatarInit => FileExplained
  BY DEF AvatarInit
<1>2. FileExplained /\ [AvatarNext]_avatarVars => FileExplained'
  <2> SUFFICES ASSUME FileExplained, [AvatarNext]_avatarVars PROVE FileExplained'
    OBVIOUS
  <2>1. ASSUME NEW u \in Uploads, LoadPath(u) PROVE FileExplained'
    BY <2>1 DEF LoadPath
  <2>2. ASSUME NEW u \in Uploads, SaveFile(u) PROVE FileExplained'
    BY <2>2 DEF SaveFile
  <2>3. ASSUME NEW u \in Uploads, CommitPath(u) PROVE FileExplained'
    BY <2>3 DEF CommitPath
  <2>4. ASSUME NEW u \in Uploads, DeleteOld(u) PROVE FileExplained'
    BY <2>4 DEF DeleteOld
  <2>5. ASSUME NEW u \in Uploads, UploadDies(u) PROVE FileExplained'
    BY <2>5 DEF UploadDies
  <2>6. CASE UNCHANGED avatarVars
    BY <2>6 DEF avatarVars
  <2> QED
    BY <2>1, <2>2, <2>3, <2>4, <2>5, <2>6 DEF AvatarNext, UpdateAvatar
<1> QED
  BY <1>1, <1>2, PartSteps, PTL DEF Spec, Init

\* The row names a file that is gone only after an upload that replaced another.
THEOREM FileLostByReplacement == Spec => []LostByReplacement
<1>1. FileExplained => LostByReplacement
  BY DEF FileExplained, LostByReplacement
<1> QED
  BY <1>1, FileInvariant, PTL

-----------------------------------------------------------------------------
(* Pictures.                                                               *)

Lengths == Nat \ {0}

\* A common factor can be left out of a comparison.
LEMMA Product ==
    ASSUME NEW x \in Int, NEW y \in Int, NEW b \in Lengths
    PROVE  /\ x * b <= y * b => x <= y
           /\ x * b < y * b => x < y
           /\ x <= y => x * b <= y * b
           /\ x < y => x * b < y * b
<1>0. b \in Int /\ b > 0
  BY DEF Lengths
<1>1. ASSUME x <= y PROVE x * b <= y * b
  <2>1. (y - x) * b >= 0
    BY <1>0, <1>1
  <2> QED
    BY <1>0, <2>1
<1>2. ASSUME x < y PROVE x * b < y * b
  <2>1. (y - x - 1) * b >= 0
    BY <1>0, <1>2
  <2> QED
    BY <1>0, <2>1
<1>3. ASSUME y <= x PROVE y * b <= x * b
  <2>1. (x - y) * b >= 0
    BY <1>0, <1>3
  <2> QED
    BY <1>0, <2>1
<1>4. ASSUME y < x PROVE y * b < x * b
  <2>1. (x - y - 1) * b >= 0
    BY <1>0, <1>4
  <2> QED
    BY <1>0, <2>1
<1>5. x * b \in Int /\ y * b \in Int
  BY <1>0
<1> QED
  BY <1>1, <1>2, <1>3, <1>4, <1>5

\* A scaled length is off by at most one, and scaling down never yields the length or a
\* larger one, scaling up never a smaller one.
LEMMA ScaledLength ==
    ASSUME NEW n \in Lengths, NEW a \in Lengths, NEW b \in Lengths, NEW q \in Scaled(n, a, b)
    PROVE  /\ q \in Int /\ q * b <= n * a /\ n * a <= (q + 1) * b
           /\ a < b => q < n
           /\ a = b => q = n
           /\ a > b => q >= n
<1> DEFINE d == (n * a) \div b
<1>0. n \in Int /\ n > 0 /\ a \in Int /\ a > 0 /\ b \in Int /\ b > 0
  BY DEF Lengths
<1>1. n * a \in Int /\ n * a >= 0 /\ n * a = a * n /\ n * b = b * n /\ n * b \in Int
  BY <1>0
<1>2. /\ d \in Int /\ n * a = b * d + ((n * a) % b)
      /\ (n * a) % b \in 0..(b - 1)
  BY <1>0, <1>1
<1>3. q = d \/ (q = d - 1 /\ (n * a) % b = 0 /\ a # b)
  BY DEF Scaled
<1> HIDE DEF d
<1>4. q \in Int /\ q * b \in Int /\ (q + 1) * b \in Int
  BY <1>0, <1>2, <1>3
<1>5. /\ b * d = d * b /\ d * b \in Int /\ (d + 1) * b = d * b + b
      /\ (d - 1) * b = d * b - b /\ (d - 1) + 1 = d
  BY <1>0, <1>2
<1>6. q * b <= n * a /\ n * a <= (q + 1) * b
  BY <1>0, <1>1, <1>2, <1>3, <1>5
<1>7. ASSUME a < b PROVE q < n
  <2>1. a * n < b * n
    BY <1>0, <1>7, Product
  <2>2. q * b < n * b
    BY <1>1, <1>4, <1>6, <2>1
  <2> QED
    BY <1>0, <1>4, <2>2, Product
<1>8. ASSUME a > b PROVE q >= n
  <2>1. b * n < a * n
    BY <1>0, <1>8, Product
  <2>2. n * b < (q + 1) * b
    BY <1>1, <1>4, <1>6, <2>1
  <2>3. n < q + 1
    BY <1>0, <1>4, <2>2, Product
  <2> QED
    BY <1>0, <1>4, <2>3
<1>9. ASSUME a = b PROVE q = n
  <2>1. q = d /\ d * b <= n * b /\ n * b < (d + 1) * b
    BY <1>0, <1>1, <1>2, <1>3, <1>5, <1>9
  <2>2. d <= n /\ n < d + 1
    BY <1>0, <1>2, <2>1, Product
  <2> QED
    BY <1>0, <1>2, <2>1, <2>2
<1> QED
  BY <1>4, <1>6, <1>7, <1>8, <1>9

\* A picture of width w and height h that is scaled to the width a: it stays below a,
\* grows or shrinks on both sides, keeps its proportions, and vanishes only as a sliver.
LEMMA ScaledPicture ==
    ASSUME NEW w \in Lengths, NEW h \in Lengths, NEW a \in Lengths,
           NEW p \in Scaled(w, a, w), NEW q \in Scaled(h, a, w)
    PROVE  /\ p \in Int /\ q \in Int /\ p <= a /\ q * w <= h * a
           /\ p * h - q * w \in -(h + w)..(h + w)
           /\ a < w => p < w /\ q < h
           /\ a >= w => p >= w /\ q >= h
           /\ p <= 0 \/ q <= 0 => w * a <= h \/ h * a <= w
<1>0. /\ w \in Int /\ w > 0 /\ h \in Int /\ h > 0 /\ a \in Int /\ a > 0
      /\ w * a \in Int /\ w * a = a * w /\ h * a \in Int /\ h * a = a * h
  BY DEF Lengths
<1>1. /\ p \in Int /\ p * w <= w * a /\ w * a <= (p + 1) * w
      /\ a < w => p < w
      /\ a = w => p = w
      /\ a > w => p >= w
  BY ScaledLength
<1>2. /\ q \in Int /\ q * w <= h * a /\ h * a <= (q + 1) * w
      /\ a < w => q < h
      /\ a = w => q = h
      /\ a > w => q >= h
  BY ScaledLength
<1>3. p <= a /\ a <= p + 1
  <2>1. p + 1 \in Int /\ p * w <= a * w /\ a * w <= (p + 1) * w
    BY <1>0, <1>1
  <2> QED
    BY <1>0, <1>1, <2>1, Product
<1>4. p * h - q * w \in -(h + w)..(h + w)
  <2>1. p * h <= a * h /\ a * h <= (p + 1) * h
    BY <1>0, <1>1, <1>3, Product
  <2>2. /\ (p + 1) * h = p * h + h /\ (q + 1) * w = q * w + w
        /\ p * h \in Int /\ q * w \in Int
    BY <1>0, <1>1, <1>2
  <2>3. p * h <= q * w + w /\ q * w <= p * h + h
    BY <1>0, <1>2, <2>1, <2>2
  <2> QED
    BY <1>0, <2>2, <2>3
<1>5. ASSUME p <= 0 PROVE w * a <= h \/ h * a <= w
  <2>1. a = 1
    BY <1>0, <1>1, <1>3, <1>5
  <2> QED
    BY <1>0, <2>1
<1>6. ASSUME q <= 0 PROVE h * a <= w
  <2>1. (q + 1) * w <= 1 * w
    BY <1>0, <1>2, <1>6, Product
  <2> QED
    BY <1>0, <1>2, <2>1
<1> QED
  BY <1>0, <1>1, <1>2, <1>3, <1>4, <1>5, <1>6

\* What a result r may be of a picture s, whatever the config.
Fits(s, r) ==
    /\ r.w <= s.w /\ r.h <= s.h
    /\ r.w * s.h - r.h * s.w \in -(s.h + s.w)..(s.h + s.w)

\* The picture is a sliver against the length a.
Sliver(s, a) == s.w * a <= s.h \/ s.h * a <= s.w

\* A quotient that is rounded below is one of the scaled lengths.
LEMMA ScaledOnce ==
    ASSUME NEW n \in Lengths, NEW a \in Lengths, NEW b \in Lengths
    PROVE  (n * a) \div b \in Scaled(n, a, b) /\ a \in Scaled(b, a, b)
<1>1. (n * a) \div b \in Scaled(n, a, b) /\ (b * a) \div b \in Scaled(b, a, b)
  BY DEF Scaled
<1>2. /\ a \in Int /\ b \in Int /\ b > 0 /\ b * a \in Int /\ b * a = a * b
      /\ b * a = b * ((b * a) \div b) + ((b * a) % b)
      /\ (b * a) % b \in 0..(b - 1) /\ (b * a) \div b \in Int
  BY DEF Lengths
<1> DEFINE d == (b * a) \div b
<1>3. /\ b * d = d * b /\ (d + 1) * b = d * b + b /\ d + 1 \in Int
  BY <1>2
<1>4. d * b <= a * b /\ a * b < (d + 1) * b
  BY <1>2, <1>3
<1>5. d = a
  <2> HIDE DEF d
  <2>1. d <= a /\ a < d + 1
    BY <1>2, <1>3, <1>4, Product DEF d
  <2> QED
    BY <1>2, <2>1 DEF d
<1> QED
  BY <1>1, <1>5

\* A picture that is fitted in a box, or in one side of it, and never upscaled.
LEMMA FittedPicture ==
    ASSUME NEW s \in [w : Lengths, h : Lengths], NEW width \in Nat, NEW height \in Nat,
           width > 0 \/ height > 0, NEW r \in FitInBox(s, width, height)
    PROVE  /\ r \in [w : Int, h : Int] /\ Fits(s, r)
           /\ width > 0 /\ height > 0 => r.w <= width /\ r.h <= height
           /\ Positive(r) \/ \E a \in {width, height} \ {0} : Sliver(s, a)
<1>0. /\ s.w \in Lengths /\ s.h \in Lengths /\ s = Size(s.w, s.h)
      /\ s.w \in Int /\ s.w > 0 /\ s.h \in Int /\ s.h > 0
  BY DEF Lengths, Size
<1>1. PICK n \in IF width > 0 /\ height > 0 THEN FitSizes(s, width, height)
                 ELSE IF width > 0 THEN {Size(width, (s.h * width) \div s.w)}
                 ELSE {Size((s.w * height) \div s.h, height)} :
        r = IF n.w >= s.w /\ n.h >= s.h THEN s ELSE n
  BY DEF FitInBox
<1> DEFINE Along == /\ width > 0 /\ n = Size(n.w, n.h)
                    /\ n.w \in Scaled(s.w, width, s.w) /\ n.h \in Scaled(s.h, width, s.w)
           Upon  == /\ height > 0 /\ n = Size(n.w, n.h)
                    /\ n.w \in Scaled(s.w, height, s.h) /\ n.h \in Scaled(s.h, height, s.h)
<1>2. \/ Along /\ (height > 0 => width * s.h <= height * s.w)
      \/ Upon /\ (width > 0 => ~(width * s.h <= height * s.w))
  <2>1. CASE width > 0 /\ height > 0
    BY <1>1, <2>1 DEF FitSizes, Size
  <2>2. CASE width > 0 /\ ~(height > 0)
    <3>1. width \in Scaled(s.w, width, s.w) /\ (s.h * width) \div s.w \in Scaled(s.h, width, s.w)
      BY <1>0, <2>2, ScaledOnce DEF Lengths
    <3> QED
      BY <1>1, <2>2, <3>1 DEF Size
  <2>3. CASE ~(width > 0) /\ height > 0
    <3>1. height \in Scaled(s.h, height, s.h) /\ (s.w * height) \div s.h \in Scaled(s.w, height, s.h)
      BY <1>0, <2>3, ScaledOnce DEF Lengths
    <3> QED
      BY <1>1, <2>3, <3>1 DEF Size
  <2> QED
    BY <2>1, <2>2, <2>3
<1>3. /\ n.w \in Int /\ n.h \in Int /\ n = Size(n.w, n.h)
      /\ n.w * s.h - n.h * s.w \in -(s.h + s.w)..(s.h + s.w)
      /\ (n.w >= s.w /\ n.h >= s.h) \/ (n.w < s.w /\ n.h < s.h)
      /\ n.w <= 0 \/ n.h <= 0 => \E a \in {width, height} \ {0} : Sliver(s, a)
      /\ width > 0 /\ height > 0 => n.w <= width /\ n.h <= height
  <2>1. CASE Along /\ (height > 0 => width * s.h <= height * s.w)
    <3>1. width \in Lengths
      BY <2>1 DEF Lengths
    <3>2. /\ n.w \in Int /\ n.h \in Int /\ n.w <= width /\ n.h * s.w <= s.h * width
          /\ n.w * s.h - n.h * s.w \in -(s.h + s.w)..(s.h + s.w)
          /\ width < s.w => n.w < s.w /\ n.h < s.h
          /\ width >= s.w => n.w >= s.w /\ n.h >= s.h
          /\ n.w <= 0 \/ n.h <= 0 => s.w * width <= s.h \/ s.h * width <= s.w
      BY <1>0, <2>1, <3>1, ScaledPicture
    <3>3. ASSUME height > 0 PROVE n.h <= height
      <4>1. s.h * width = width * s.h /\ n.h * s.w <= height * s.w
        BY <1>0, <2>1, <3>2, <3>3
      <4> QED
        BY <1>0, <3>2, <4>1, Product
    <3>4. n.w <= 0 \/ n.h <= 0 => Sliver(s, width) /\ width \in {width, height} \ {0}
      BY <2>1, <3>2 DEF Sliver
    <3>5. (n.w >= s.w /\ n.h >= s.h) \/ (n.w < s.w /\ n.h < s.h)
      <4>1. width < s.w \/ width >= s.w
        BY <1>0
      <4> QED
        BY <3>2, <4>1
    <3> QED
      BY <2>1, <3>2, <3>3, <3>4, <3>5
  <2>2. CASE Upon /\ (width > 0 => ~(width * s.h <= height * s.w))
    <3>1. height \in Lengths
      BY <2>2 DEF Lengths
    <3>2. /\ n.w \in Int /\ n.h \in Int /\ n.h <= height /\ n.w * s.h <= s.w * height
          /\ n.h * s.w - n.w * s.h \in -(s.w + s.h)..(s.w + s.h)
          /\ height < s.h => n.h < s.h /\ n.w < s.w
          /\ height >= s.h => n.h >= s.h /\ n.w >= s.w
          /\ n.h <= 0 \/ n.w <= 0 => s.h * height <= s.w \/ s.w * height <= s.h
      BY <1>0, <2>2, <3>1, ScaledPicture
    <3>3. ASSUME width > 0 PROVE n.w <= width
      <4>1. s.w * height = height * s.w /\ n.w * s.h < width * s.h
        BY <1>0, <2>2, <3>2, <3>3
      <4> QED
        BY <1>0, <3>2, <4>1, Product
    <3>4. n.w * s.h - n.h * s.w \in -(s.h + s.w)..(s.h + s.w)
      <4>1. n.w * s.h \in Int /\ n.h * s.w \in Int
        BY <1>0, <3>2
      <4> QED
        BY <1>0, <3>2, <4>1
    <3>5. n.w <= 0 \/ n.h <= 0 => Sliver(s, height) /\ height \in {width, height} \ {0}
      BY <2>2, <3>2 DEF Sliver
    <3>6. (n.w >= s.w /\ n.h >= s.h) \/ (n.w < s.w /\ n.h < s.h)
      <4>1. height < s.h \/ height >= s.h
        BY <1>0
      <4> QED
        BY <3>2, <4>1
    <3> QED
      BY <2>2, <3>2, <3>3, <3>4, <3>5, <3>6
  <2> QED
    BY <1>2, <2>1, <2>2
<1>4. CASE r = s
  <2>1. s.w * s.h - s.h * s.w = 0
    BY <1>0
  <2>2. n.w >= s.w /\ n.h >= s.h
    BY <1>0, <1>1, <1>3, <1>4
  <2> QED
    BY <1>0, <1>3, <1>4, <2>1, <2>2 DEF Fits, Positive, Size
<1>5. CASE r = n /\ n.w < s.w /\ n.h < s.h
  BY <1>0, <1>3, <1>5 DEF Fits, Positive, Size
<1> QED
  BY <1>0, <1>1, <1>3, <1>4, <1>5

\* A picture that is resized as its config asks.
LEMMA ResizedPicture ==
    ASSUME NEW s \in [w : Lengths, h : Lengths], NEW c \in Configs, NEW r \in Resize(s, c)
    PROVE  /\ r \in [w : Int, h : Int]
           /\ c.width > 0 /\ c.height > 0 => r.w <= c.width /\ r.h <= c.height
           /\ c.width > 0 \/ c.height > 0 \/ c.preset = "gallery" => Fits(s, r)
           /\ Positive(r) \/ \E a \in Boxes \cup {Limit} : Sliver(s, a)
<1>a. Limit \in Lengths /\ Limit \in Int /\ Limit > 0 /\ Boxes \subseteq Nat
  BY LengthsAssumption DEF Lengths
<1>d. c.width \in Boxes \cup {0} /\ c.height \in Boxes \cup {0}
  BY DEF Configs
<1>b. /\ s.w \in Lengths /\ s.h \in Lengths /\ s = Size(s.w, s.h)
      /\ s.w \in Int /\ s.w > 0 /\ s.h \in Int /\ s.h > 0
  BY DEF Lengths, Size
<1>c. c.width \in Nat /\ c.height \in Nat
  <2>1. \A n \in Boxes \cup {0} : n \in Nat
    BY <1>a
  <2> QED
    BY <2>1, <1>d
<1>0. /\ s.w \in Lengths /\ s.h \in Lengths /\ s = Size(s.w, s.h)
      /\ s.w \in Int /\ s.w > 0 /\ s.h \in Int /\ s.h > 0
      /\ c.width \in Nat /\ c.height \in Nat
      /\ Limit \in Lengths /\ Limit \in Int /\ Limit > 0
  BY <1>a, <1>b, <1>c
<1>5. {c.width, c.height} \ {0} \subseteq Boxes
  BY <1>d
<1>1. CASE c.width > 0 \/ c.height > 0
  <2>1. r \in FitInBox(s, c.width, c.height)
    BY <1>1 DEF Resize
  <2> QED
    BY <1>0, <1>1, <1>5, <2>1, FittedPicture
<1>2. CASE ~(c.width > 0 \/ c.height > 0) /\ c.preset = "avatar"
  <2>1. r = Size(Limit, Limit)
    BY <1>2 DEF Resize
  <2> QED
    BY <1>0, <1>2, <2>1 DEF Size, Positive
<1>3. CASE ~(c.width > 0 \/ c.height > 0) /\ c.preset = "gallery" /\ s.w <= Limit
  <2>1. r = s
    BY <1>3 DEF Resize
  <2>2. s.w * s.h - s.h * s.w = 0
    BY <1>0
  <2> QED
    BY <1>0, <1>3, <2>1, <2>2 DEF Fits, Positive
<1>4. CASE ~(c.width > 0 \/ c.height > 0) /\ c.preset = "gallery" /\ ~(s.w <= Limit)
  <2> DEFINE q == (s.h * Limit) \div s.w
  <2>1. r = Size(Limit, q)
    BY <1>4 DEF Resize
  <2>2. Limit \in Scaled(s.w, Limit, s.w) /\ q \in Scaled(s.h, Limit, s.w)
    BY <1>0, ScaledOnce
  <2>3. Limit < s.w
    BY <1>0, <1>4
  <2> HIDE DEF q
  <2>4. /\ q \in Int
        /\ Limit * s.h - q * s.w \in -(s.h + s.w)..(s.h + s.w)
        /\ q < s.h
        /\ Limit <= 0 \/ q <= 0 => s.w * Limit <= s.h \/ s.h * Limit <= s.w
    BY <1>0, <2>2, <2>3, ScaledPicture
  <2>5. r.w = Limit /\ r.h = q /\ r = Size(Limit, q)
    BY <2>1 DEF Size
  <2>6. Fits(s, r)
    BY <1>0, <2>3, <2>4, <2>5 DEF Fits
  <2>7. Positive(r) \/ Sliver(s, Limit)
    BY <1>0, <2>4, <2>5 DEF Positive, Sliver
  <2> QED
    BY <1>0, <1>4, <2>4, <2>5, <2>6, <2>7 DEF Size
<1> QED
  BY <1>1, <1>2, <1>3, <1>4 DEF Configs

\* A logo is at most half as long as the shorter side.
LEMMA LogoFits ==
    ASSUME NEW s, s.w \in Nat, s.h \in Nat, NEW logo, NEW l, l = LogoSize(s, logo)
    PROVE  l.w \in Nat /\ l.h \in Nat /\ 2 * l.w <= s.w /\ 2 * l.h <= s.h
<1> DEFINE m == Smaller(s.w, s.h)
           side == m \div LogoShare
           half == side \div 2
<1>1. m \in Nat /\ m <= s.w /\ m <= s.h
  BY DEF Smaller
<1>2. LogoShare \in Nat /\ LogoShare >= 2
  BY LengthsAssumption
<1> HIDE DEF m
<1>3. /\ side \in Int /\ m = LogoShare * side + (m % LogoShare)
      /\ m % LogoShare \in 0..(LogoShare - 1)
  BY <1>1, <1>2
<1> HIDE DEF side
<1>4. side >= 0
  <2>1. ASSUME side <= -1 PROVE FALSE
    <3>1. LogoShare * side <= LogoShare * (-1)
      <4>1. LogoShare * (-1 - side) >= 0
        BY <1>2, <1>3, <2>1
      <4> QED
        BY <1>2, <1>3, <4>1
    <3> QED
      BY <1>1, <1>2, <1>3, <3>1
  <2> QED
    BY <1>3, <2>1
<1>5. 2 * side <= m
  <2>1. (LogoShare - 2) * side >= 0
    BY <1>2, <1>3, <1>4
  <2>2. LogoShare * side >= 2 * side
    BY <1>2, <1>3, <2>1
  <2> QED
    BY <1>1, <1>2, <1>3, <2>2
<1>6. half \in Int /\ 0 <= half /\ half <= side
  BY <1>3, <1>4
<1>7. l = Size(side, half) \/ l = Size(half, side)
  BY DEF LogoSize, side, m
<1> HIDE DEF half
<1> QED
  BY <1>1, <1>3, <1>4, <1>5, <1>6, <1>7 DEF Size

\* An outcome is of the picture and the config it was computed from.
PictureExplained ==
    /\ image \in Images /\ config \in Configs
    /\ \/ result = Nil("none")
       \/ ~Valid(image) /\ result = Nil("refused")
       \/ /\ Valid(image)
          /\ \E s \in Resize(Oriented(image), config) :
               \/ ~(Positive(s) /\ Stampable(s, config)) /\ result = Nil("refused")
               \/ Positive(s) /\ result = [is |-> "kept", w |-> s.w, h |-> s.h]

\* Such an outcome fits, is refused for its shape only, and takes its logo.
LEMMA ExplainedIsSound == PictureExplained => ResultFits /\ RefusalExplained /\ LogoInside
<1> SUFFICES ASSUME PictureExplained PROVE ResultFits /\ RefusalExplained /\ LogoInside
  OBVIOUS
<1> DEFINE o == Oriented(image)
<1>0. /\ image.w \in Lengths /\ image.h \in Lengths /\ config \in Configs
      /\ o = Size(image.w, image.h) \/ o = Size(image.h, image.w)
      /\ o \in [w : Lengths, h : Lengths] /\ Pad \in Nat
  BY LengthsAssumption DEF PictureExplained, Images, Oriented, Size, Lengths
<1>1. \A s \in Resize(o, config) :
        /\ s \in [w : Int, h : Int]
        /\ config.width > 0 /\ config.height > 0 => s.w <= config.width /\ s.h <= config.height
        /\ Boxed \/ config.preset = "gallery" => Fits(o, s)
        /\ Positive(s) \/ \E a \in Boxes \cup {Limit} : Sliver(o, a)
  BY <1>0, ResizedPicture DEF Boxed
<1>2. ASSUME result.is = "kept"
      PROVE  /\ result.w \in Int /\ result.h \in Int /\ Positive(result)
             /\ \E s \in Resize(o, config) : result.w = s.w /\ result.h = s.h
  BY <1>1, <1>2 DEF PictureExplained, Nil, Positive
<1>3. ResultFits
  <2> SUFFICES ASSUME result.is = "kept"
               PROVE  /\ Positive(result)
                      /\ config.width > 0 /\ config.height > 0 =>
                           result.w <= config.width /\ result.h <= config.height
                      /\ Boxed \/ config.preset = "gallery" =>
                           /\ result.w <= o.w /\ result.h <= o.h
                           /\ result.w * o.h - result.h * o.w \in -(o.h + o.w)..(o.h + o.w)
    BY DEF ResultFits
  <2> HIDE DEF o
  <2> QED
    BY <1>1, <1>2 DEF Fits
<1>4. RefusalExplained
  <2> SUFFICES ASSUME result.is = "refused", image.defect = "none", config.logo = "none"
               PROVE  \E a \in Boxes \cup {Limit} :
                        image.w * a <= image.h \/ image.h * a <= image.w
    BY DEF RefusalExplained
  <2>1. Valid(image) /\ \A s : Stampable(s, config)
    BY DEF Valid, Stampable
  <2>2. \E s \in Resize(o, config) : ~Positive(s)
    BY <2>1 DEF PictureExplained, Nil
  <2>3. PICK a \in Boxes \cup {Limit} : Sliver(o, a)
    BY <1>1, <2>2
  <2>4. image.w * a <= image.h \/ image.h * a <= image.w
    BY <1>0, <2>3 DEF Sliver, Size
  <2> QED
    BY <2>4
<1>5. LogoInside
  <2> SUFFICES ASSUME result.is = "kept", result.w >= 2 * Pad, result.h >= 2 * Pad, NEW l,
                      l = LogoSize(result, config.logo), NEW p \in Offsets(result, l)
               PROVE  p.x \in 0..(result.w - l.w) /\ p.y \in 0..(result.h - l.h)
    BY DEF LogoInside
  <2>1. result.w \in Nat /\ result.h \in Nat
    BY <1>2 DEF Positive
  <2>2. l.w \in Nat /\ l.h \in Nat /\ 2 * l.w <= result.w /\ 2 * l.h <= result.h
    BY <2>1, LogoFits
  <2>3. ASSUME NEW a \in Nat, NEW b \in Nat, 2 * b <= a, a >= 2 * Pad
        PROVE  {(a - b) \div 2, Pad, a - b - Pad} \subseteq 0..(a - b)
    BY <1>0, <2>3
  <2> QED
    BY <2>1, <2>2, <2>3 DEF Offsets
<1> QED
  BY <1>3, <1>4, <1>5

\* Every picture of the pipeline is explained by the operation that made it.
LEMMA PictureInvariant == Spec => []PictureExplained
<1> USE DEF PictureExplained
<1>1. ImageInit => PictureExplained
  BY DEF ImageInit
<1>2. PictureExplained /\ [ProcessUpload]_imageVars => PictureExplained'
  <2> SUFFICES ASSUME PictureExplained, [ProcessUpload]_imageVars PROVE PictureExplained'
    OBVIOUS
  <2>0. /\ UNCHANGED image => Valid(image)' = Valid(image) /\ Oriented(image)' = Oriented(image)
        /\ UNCHANGED config => \A s : Stampable(s, config)' = Stampable(s, config)
    BY DEF Valid, Oriented, Stampable
  <2>1. CASE ProcessUpload
    BY <2>1 DEF ProcessUpload
  <2>2. CASE UNCHANGED imageVars
    BY <2>2 DEF imageVars
  <2> QED
    BY <2>1, <2>2
<1> QED
  BY <1>1, <1>2, PartSteps, PTL DEF Spec, Init

\* The file of an avatar is lost only by a second upload; a picture that is kept fits its
\* box, its proportions and its logo, and one without a logo is refused only as a sliver.
THEOREM PicturesAreSound == Spec => []PicturesSound
<1>1. LostByReplacement /\ PictureExplained => PicturesSound
  BY ExplainedIsSound DEF PicturesSound
<1> QED
  BY <1>1, FileLostByReplacement, PictureInvariant, PTL
=============================================================================
