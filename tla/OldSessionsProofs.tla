--------------------------- MODULE OldSessionsProofs ---------------------------
(***************************************************************************)
(* Theorems about OldSessions, for any devices, any number of requests of  *)
(* each kind, any maximum, and whatever dies or is ended by the database.  *)
(***************************************************************************)
EXTENDS OldSessions, FiniteSetTheorems, TLAPS

\* A login that has looked for its device's row has a target.
Typed ==
    /\ TypeOK
    /\ \A l \in Logins : pc[l] \in {"selected", "limited"} => target[l] \in Logins
    /\ \A f \in Refreshes : pc[f] = "selected" => target[f] \in Logins

\* The types, and what a login and a refresh have loaded by each step.
LEMMA TypedAlways == Spec => []Typed
<1> USE DEF Typed, TypeOK, Stages, Ended, UnderWay, Tasks, Deleters, Goto, Unlock, Tick,
            Arrives, table, time_, requests, ghosts
<1>1. Init => Typed
  BY KindAssumption, ConstantAssumption DEF Init
<1>2. Typed /\ [Next]_vars => Typed'
  <2> SUFFICES ASSUME Typed, [Next]_vars PROVE Typed'
    OBVIOUS
  <2> USE KindAssumption, ConstantAssumption
  <2>1. ASSUME NEW l \in Logins, LoginExpired(l) PROVE Typed'
    BY <2>1 DEF LoginExpired
  <2>2. ASSUME NEW l \in Logins, LoginDevice(l) PROVE Typed'
    <3>1. OfDevice(l) # {} => (CHOOSE s \in OfDevice(l) : TRUE) \in OfDevice(l)
      OBVIOUS
    <3>2. PICK s \in Logins : target' = [target EXCEPT ![l] = s]
      BY <2>2, <3>1 DEF LoginDevice, OfDevice
    <3>3. /\ pc' = [pc EXCEPT ![l] = "selected"]
          /\ locks' \in [Tasks -> SUBSET Logins]
          /\ UNCHANGED <<asked, table, time_, time, doomed, listed, ghosts>>
      BY <2>2 DEF LoginDevice
    <3> QED
      BY <3>2, <3>3
  <2>3. ASSUME NEW l \in Logins, LoginLimit(l) PROVE Typed'
    <3>1. Over(l) \subseteq Logins
      BY <2>3 DEF LoginLimit, Over, Visible, Counted
    <3>2. CASE pc' = [pc EXCEPT ![l] = "failed"] /\ Unlock(l) /\ UNCHANGED doomed
      BY <2>3, <3>2 DEF LoginLimit
    <3>3. CASE /\ pc' = [pc EXCEPT ![l] = "limited"]
               /\ locks' = [locks EXCEPT ![l] = @ \cup {target[l]}]
               /\ doomed' = [doomed EXCEPT ![l] = @ \cup Over(l)]
      BY <2>3, <3>1, <3>3 DEF LoginLimit
    <3> QED
      BY <2>3, <3>2, <3>3 DEF LoginLimit
  <2>4. ASSUME NEW l \in Logins, LoginCommit(l) PROVE Typed'
    BY <2>4 DEF LoginCommit, Counting
  <2>5. ASSUME NEW f \in Refreshes, RefreshSelect(f) PROVE Typed'
    <3>1. clock' = clock + 1 /\ time' = [time EXCEPT ![f] = clock + 1]
      BY <2>5 DEF RefreshSelect
    <3>2. CASE \E l \in Logins : /\ target' = [target EXCEPT ![f] = target[l]]
                                 /\ target[l] \in rows
                                 /\ pc' = [pc EXCEPT ![f] = "selected"]
      BY <2>5, <3>1, <3>2 DEF RefreshSelect
    <3>3. CASE UNCHANGED target /\ pc' = [pc EXCEPT ![f] = "rejected"]
      BY <2>5, <3>1, <3>3 DEF RefreshSelect
    <3> QED
      BY <2>5, <3>2, <3>3 DEF RefreshSelect
  <2>6. ASSUME NEW f \in Refreshes, RefreshCommit(f) PROVE Typed'
    BY <2>6 DEF RefreshCommit
  <2>7. ASSUME NEW o \in Signouts, SignoutSelect(o) PROVE Typed'
    <3>1. CASE \E l \in Logins : /\ doomed' = [doomed EXCEPT ![o] = {target[l]}]
                                 /\ target[l] \in rows
                                 /\ pc' = [pc EXCEPT ![o] = "deleting"]
      BY <2>7, <3>1 DEF SignoutSelect
    <3>2. CASE UNCHANGED doomed /\ pc' = [pc EXCEPT ![o] = "rejected"]
      BY <2>7, <3>2 DEF SignoutSelect
    <3> QED
      BY <2>7, <3>1, <3>2 DEF SignoutSelect
  <2>8. ASSUME NEW a \in DeleteAlls, DeleteAllSelect(a) PROVE Typed'
    BY <2>8 DEF DeleteAllSelect
  <2>9. ASSUME NEW t \in Deleters, DeleteCommit(t) PROVE Typed'
    BY <2>9 DEF DeleteCommit
  <2>10. ASSUME NEW i \in Lists, List(i) PROVE Typed'
    BY <2>10 DEF List
  <2>11. ASSUME NEW t \in Tasks, Abort(t) \/ Die(t) PROVE Typed'
    BY <2>11 DEF Abort, Die
  <2>12. ASSUME NEW l \in Logins, TokenExpire(l) \/ RowExpire(l) PROVE Typed'
    BY <2>12 DEF TokenExpire, RowExpire
  <2>13. CASE UNCHANGED vars
    BY <2>13 DEF vars
  <2> QED
    BY <2>1, <2>2, <2>3, <2>4, <2>5, <2>6, <2>7, <2>8, <2>9, <2>10, <2>11, <2>12, <2>13
       DEF Next, Run, Login
<1> QED
  BY <1>1, <1>2, PTL DEF Spec

\* Every variable keeps its type.
THEOREM TypeCorrect == Spec => []TypeOK
<1>1. Typed => TypeOK
  BY DEF Typed
<1> QED
  BY <1>1, TypedAlways, PTL

-----------------------------------------------------------------------------
(* One row per device, and what a deletion of all leaves.                  *)

Opening == {"selected", "limited"}

\* What a request has loaded is a row that was once committed; a login that has flushed
\* holds the lock of the one row of its device, and no two such logins share a device.
RowsExplained ==
    /\ OneRowPerDevice
    /\ \A s \in rows : pc[s] \in Ended
    /\ \A l \in Logins : pc[l] \in Opening => device[target[l]] = device[l]
    /\ \A l \in Logins : pc[l] \in Opening /\ target[l] # l => pc[target[l]] \in Ended
    /\ \A t \in Tasks : \A s \in doomed[t] : s = t \/ pc[s] \in Ended
    /\ \A l \in Logins : pc[l] = "limited" => target[l] \in locks[l]
    /\ \A l \in Logins : pc[l] = "limited" /\ target[l] # l => target[l] \in rows
    /\ \A l \in Logins : pc[l] = "limited" /\ target[l] = l =>
         \A s \in rows \ doomed[l] : device[s] # device[l]
    /\ \A l \in Logins : pc[l] \in Opening =>
         \A s \in doomed[l] \cap rows : device[s] = device[l] => s \in locks[l]
    /\ \A l, m \in Logins : pc[l] = "limited" /\ pc[m] = "limited" /\ l # m =>
         device[l] # device[m]

\* A deletion of all takes every row that was there, and none of them comes back.
DeletionsExplained ==
    /\ PasswordEndsSessions
    /\ \A a \in DeleteAlls : pc[a] = "deleting" => earlier[a] \subseteq doomed[a]
    /\ \A a \in DeleteAlls : \A s \in earlier[a] : pc[s] \in Ended

Explained == RowsExplained /\ DeletionsExplained

\* The types that the argument needs.
Shaped ==
    /\ rows \in SUBSET Logins
    /\ device \in [Logins -> Devices \cup {Nothing}]
    /\ pc \in [Tasks -> Stages]
    /\ target \in [Tasks -> Logins \cup {Nothing}]
    /\ doomed \in [Tasks -> SUBSET Logins]
    /\ locks \in [Tasks -> SUBSET Logins]
    /\ earlier \in [DeleteAlls -> SUBSET Logins]
    /\ \A l \in Logins : pc[l] \in {"selected", "limited"} => target[l] \in Logins

\* The rows and the locks are explained by the logins under way.
LEMMA RowsInvariant == Spec => []Explained
<1> USE DEF Shaped, Stages, Ended, UnderWay, Tasks, Deleters, Goto, Unlock, Tick,
            Arrives, table, time_, requests, ghosts, Opening, Explained, RowsExplained,
            DeletionsExplained, OneRowPerDevice, PasswordEndsSessions
<1>1. Init => Explained
  BY KindAssumption, ConstantAssumption DEF Init
<1>2. Typed => Shaped
  BY DEF Typed, TypeOK
<1>3. Shaped /\ Explained /\ [Next]_vars => Explained'
  <2> SUFFICES ASSUME Shaped, Explained, [Next]_vars PROVE Explained'
    OBVIOUS
  <2> USE KindAssumption
  <2>1. ASSUME NEW l \in Logins, LoginExpired(l) PROVE Explained'
    BY <2>1 DEF LoginExpired
  <2>2. ASSUME NEW l \in Logins, LoginDevice(l) PROVE Explained'
    <3>1. OfDevice(l) # {} => (CHOOSE s \in OfDevice(l) : TRUE) \in OfDevice(l)
      OBVIOUS
    <3>2. /\ pc[l] = "swept"
          /\ pc' = [pc EXCEPT ![l] = "selected"]
          /\ locks' = [locks EXCEPT ![l] = doomed[l] \cap rows]
          /\ UNCHANGED <<rows, device, doomed, earlier>>
      BY <2>2 DEF LoginDevice
    <3>3. PICK s \in Logins : /\ target' = [target EXCEPT ![l] = s]
                              /\ s = l \/ (s \in rows /\ device[s] = device[l])
      BY <2>2, <3>1 DEF LoginDevice, OfDevice
    <3>4. RowsExplained'
      BY <3>2, <3>3
    <3>5. DeletionsExplained'
      BY <3>2, <3>3
    <3> QED
      BY <3>4, <3>5
  <2>3. ASSUME NEW l \in Logins, LoginLimit(l) PROVE Explained'
    <3>1. pc[l] = "selected" /\ UNCHANGED <<rows, device, target, earlier>>
      BY <2>3 DEF LoginLimit
    <3>2. CASE pc' = [pc EXCEPT ![l] = "failed"] /\ Unlock(l) /\ UNCHANGED doomed
      BY <3>1, <3>2
    <3>3. CASE /\ pc' = [pc EXCEPT ![l] = "limited"]
               /\ locks' = [locks EXCEPT ![l] = @ \cup {target[l]}]
               /\ doomed' = [doomed EXCEPT ![l] = @ \cup Over(l)]
               /\ IF target[l] = l THEN OfDevice(l) = {} ELSE target[l] \in rows
      <4>1. Over(l) \subseteq rows \cup {target[l]}
        BY DEF Over, Visible, Counted
      <4>2. \A m \in Logins : pc[m] = "limited" => device[m] # device[l]
        <5>1. SUFFICES ASSUME NEW m \in Logins, pc[m] = "limited", device[m] = device[l]
                       PROVE  FALSE
          OBVIOUS
        <5>2. m # l /\ Wants(l) \cap locks[m] = {}
          BY <2>3, <3>1, <5>1 DEF LoginLimit, Free, Waits
        <5>3. target[l] # l
          <6>1. SUFFICES ASSUME target[l] = l PROVE FALSE
            OBVIOUS
          <6>2. Wants(l) = {s \in Logins : device[s] = device[l]}
            BY <3>1, <6>1 DEF Wants
          <6> QED
            BY <5>1, <5>2, <6>2
        <5>4. Wants(l) = {target[l]}
          BY <3>1, <5>3 DEF Wants
        <5>5. target[l] \in rows /\ target[l] \notin locks[m]
          BY <3>3, <5>2, <5>3, <5>4
        <5>6. CASE target[m] = m
          BY <3>1, <5>1, <5>5, <5>6
        <5>7. CASE target[m] # m
          BY <3>1, <5>1, <5>5, <5>7
        <5> QED
          BY <5>6, <5>7
      <4> QED
        BY <3>1, <3>3, <4>1, <4>2 DEF OfDevice
    <3> QED
      BY <2>3, <3>2, <3>3 DEF LoginLimit
  <2>4. ASSUME NEW l \in Logins, LoginCommit(l) PROVE Explained'
    <3>1. \A m \in Tasks \ {l} : doomed[l] \cap locks[m] = {}
      BY <2>4 DEF LoginCommit, Free, Waits, Wants
    <3>2. \E stage \in {"done", "failed"} : pc' = [pc EXCEPT ![l] = stage]
      BY <2>4 DEF LoginCommit
    <3>3. rows' = (rows \cup {target[l]}) \ doomed[l]
      BY <2>4 DEF LoginCommit
    <3> QED
      BY <2>4, <3>1, <3>2, <3>3 DEF LoginCommit
  <2>5. ASSUME NEW f \in Refreshes, RefreshSelect(f) PROVE Explained'
    BY <2>5 DEF RefreshSelect
  <2>6. ASSUME NEW f \in Refreshes, RefreshCommit(f) PROVE Explained'
    BY <2>6 DEF RefreshCommit
  <2>7. ASSUME NEW o \in Signouts, SignoutSelect(o) PROVE Explained'
    BY <2>7 DEF SignoutSelect
  <2>8. ASSUME NEW a \in DeleteAlls, DeleteAllSelect(a) PROVE Explained'
    BY <2>8 DEF DeleteAllSelect
  <2>9. ASSUME NEW t \in Deleters, DeleteCommit(t) PROVE Explained'
    <3>1. \A m \in Tasks \ {t} : doomed[t] \cap locks[m] = {}
      BY <2>9 DEF DeleteCommit, Free, Waits, Wants
    <3> QED
      BY <2>9, <3>1 DEF DeleteCommit
  <2>10. ASSUME NEW i \in Lists, List(i) PROVE Explained'
    BY <2>10 DEF List
  <2>11. ASSUME NEW t \in Tasks, Abort(t) \/ Die(t) PROVE Explained'
    BY <2>11 DEF Abort, Die, Blocked
  <2>12. ASSUME NEW l \in Logins, TokenExpire(l) \/ RowExpire(l) PROVE Explained'
    BY <2>12 DEF TokenExpire, RowExpire
  <2>13. CASE UNCHANGED vars
    BY <2>13 DEF vars
  <2> QED
    BY <2>1, <2>2, <2>3, <2>4, <2>5, <2>6, <2>7, <2>8, <2>9, <2>10, <2>11, <2>12, <2>13
       DEF Next, Run, Login
<1> QED
  BY <1>1, <1>2, <1>3, TypedAlways, PTL DEF Spec

\* A device has one row at most, for any number of logins, sweeps and sign-outs.
THEOREM OneRowEach == Spec => []OneRowPerDevice
<1>1. Explained => OneRowPerDevice
  BY DEF Explained, RowsExplained
<1> QED
  BY <1>1, RowsInvariant, PTL

\* No session that a deletion of all has read is there after it.
THEOREM DeletionsHold == Spec => []PasswordEndsSessions
<1>1. Explained => PasswordEndsSessions
  BY DEF Explained, DeletionsExplained
<1> QED
  BY <1>1, RowsInvariant, PTL

-----------------------------------------------------------------------------
(* The maximum.                                                            *)

\* Of a set whose members have different ranks, the members with fewer than n others
\* above them are n at most.
LEMMA HighestRanks ==
    ASSUME NEW V, IsFiniteSet(V), NEW rank, \A s \in V : rank[s] \in Nat,
           \A s, r \in V : rank[s] = rank[r] => s = r,
           NEW above, \A s \in V : above[s] = {r \in V : rank[r] > rank[s]},
           NEW n \in Nat, NEW high \in SUBSET V,
           \A s \in high : ~(Cardinality(above[s]) >= n)
    PROVE  IsFiniteSet(high) /\ Cardinality(high) <= n
<1> DEFINE place == [s \in high |-> Cardinality(above[s])]
<1>1. \A s \in V : IsFiniteSet(above[s]) /\ Cardinality(above[s]) \in Nat
  <2>1. \A s \in V : IsFiniteSet(above[s])
    BY FS_Subset
  <2> QED
    BY <2>1, FS_CardinalityType
<1>2. place \in [high -> 0..(n - 1)]
  <2>1. \A s \in high : Cardinality(above[s]) \in Nat /\ ~(Cardinality(above[s]) >= n)
    BY <1>1
  <2>2. \A s \in high : Cardinality(above[s]) \in 0..(n - 1)
    BY <2>1
  <2> QED
    BY <2>2
<1>3. ASSUME NEW s \in V, NEW r \in V, rank[s] < rank[r]
      PROVE  Cardinality(above[r]) < Cardinality(above[s])
  <2>1. above[r] \subseteq above[s] /\ r \in above[s] /\ r \notin above[r]
    BY <1>3
  <2>2. /\ Cardinality(above[r]) <= Cardinality(above[s])
        /\ Cardinality(above[s]) = Cardinality(above[r]) => above[s] = above[r]
    BY <1>1, <2>1, FS_Subset
  <2> QED
    BY <1>1, <2>1, <2>2
<1>4. ASSUME NEW s \in high, NEW r \in high, place[s] = place[r] PROVE s = r
  <2>1. Cardinality(above[s]) = Cardinality(above[r]) /\ s \in V /\ r \in V
    BY <1>4
  <2>2. ~(rank[s] < rank[r]) /\ ~(rank[r] < rank[s])
    BY <1>1, <1>3, <2>1
  <2>3. rank[s] = rank[r]
    BY <2>1, <2>2
  <2> QED
    BY <2>1, <2>3
<1>5. place \in Injection(high, 0..(n - 1))
  <2> HIDE DEF place
  <2> QED
    BY <1>2, <1>4 DEF Injection, IsInjective
<1>6. IsFiniteSet(0..(n - 1)) /\ Cardinality(0..(n - 1)) = n
  BY FS_Interval
<1>7. IsFiniteSet(high) /\ Cardinality(high) <= n
  <2> HIDE DEF place
  <2> QED
    BY <1>5, <1>6, FS_Injection
<1> QED
  BY <1>7

\* Every request that stamps a row has a moment of its own.
Stamping == {"swept", "selected", "limited"}
TimesApart ==
    /\ IsFiniteSet(rows)
    /\ \A s, r \in rows : seen[s] = seen[r] => s = r
    /\ \A t \in Logins \cup Refreshes : pc[t] \in Stamping =>
         \A s \in rows : seen[s] # time[t]
    /\ \A t, u \in Logins \cup Refreshes :
         pc[t] \in Stamping /\ pc[u] \in Stamping /\ time[t] = time[u] => t = u

\* What the argument needs of the types.
Clocked ==
    /\ rows \in SUBSET Logins /\ expired \in SUBSET Logins /\ crossed \in SUBSET Logins
    /\ touched \in SUBSET Logins /\ clock \in Nat
    /\ token \in [Logins -> Logins] /\ seen \in [Logins -> 0..clock]
    /\ pc \in [Tasks -> Stages] /\ time \in [Logins \cup Refreshes -> 0..clock]
    /\ target \in [Tasks -> Logins \cup {Nothing}]
    /\ doomed \in [Tasks -> SUBSET Logins]
    /\ \A l \in Logins : pc[l] \in {"selected", "limited"} => target[l] \in Logins
    /\ \A f \in Refreshes : pc[f] = "selected" => target[f] \in Logins

\* Times are integers.
LEMMA ClockedAlways == Typed => Clocked
BY DEF Typed, TypeOK, Clocked

\* No two requests have the same time.
LEMMA TimesInvariant == Spec => []TimesApart
<1> USE DEF Clocked, TimesApart, Stamping, Stages, Ended, UnderWay, Tasks, Deleters, Goto,
            Unlock, Tick, Arrives, table, time_, requests, ghosts
<1>1. Init => TimesApart
  BY FS_EmptySet, KindAssumption DEF Init
<1>2. Clocked /\ TimesApart /\ [Next]_vars => TimesApart'
  <2> SUFFICES ASSUME Clocked, TimesApart, [Next]_vars PROVE TimesApart'
    OBVIOUS
  <2> USE KindAssumption
  <2>1. ASSUME NEW l \in Logins, LoginExpired(l) PROVE TimesApart'
    BY <2>1 DEF LoginExpired
  <2>2. ASSUME NEW l \in Logins, LoginDevice(l) \/ LoginLimit(l) PROVE TimesApart'
    <3>1. \E stage : /\ pc' = [pc EXCEPT ![l] = stage]
                     /\ pc[l] \in Stamping /\ UNCHANGED <<rows, seen, time>>
      BY <2>2 DEF LoginDevice, LoginLimit
    <3> QED
      BY <3>1
  <2>4. ASSUME NEW l \in Logins, LoginCommit(l) PROVE TimesApart'
    <3>1. /\ rows' = (rows \cup {target[l]}) \ doomed[l] /\ target[l] \in Logins
          /\ seen' = [seen EXCEPT ![target[l]] = time[l]] /\ UNCHANGED time
          /\ pc[l] = "limited" /\ pc'[l] \notin Stamping
          /\ \A t \in Tasks \ {l} : pc'[t] = pc[t]
      BY <2>4 DEF LoginCommit
    <3>2. IsFiniteSet(rows')
      <4>1. rows' = (rows \cup {target[l]}) \ doomed[l]
        BY <3>1
      <4>2. IsFiniteSet(rows \cup {target[l]})
        BY FS_AddElement
      <4> QED
        BY <4>1, <4>2, FS_Subset
    <3> QED
      BY <3>1, <3>2
  <2>5. ASSUME NEW f \in Refreshes, RefreshSelect(f) PROVE TimesApart'
    <3>1. /\ clock' = clock + 1 /\ time' = [time EXCEPT ![f] = clock + 1]
          /\ UNCHANGED <<rows, seen>> /\ \A t \in Tasks \ {f} : pc'[t] = pc[t]
      BY <2>5 DEF RefreshSelect
    <3> QED
      BY <3>1
  <2>6. ASSUME NEW f \in Refreshes, RefreshCommit(f) PROVE TimesApart'
    <3>1. /\ seen' = seen \/ seen' = [seen EXCEPT ![target[f]] = time[f]]
          /\ UNCHANGED <<rows, time>> /\ target[f] \in Logins
          /\ pc[f] = "selected" /\ pc'[f] \notin Stamping
          /\ \A t \in Tasks \ {f} : pc'[t] = pc[t]
      BY <2>6 DEF RefreshCommit
    <3> QED
      BY <3>1
  <2>7. ASSUME NEW t \in Tasks,
               \/ t \in Signouts /\ SignoutSelect(t)
               \/ t \in DeleteAlls /\ DeleteAllSelect(t)
               \/ t \in Deleters /\ DeleteCommit(t)
               \/ t \in Lists /\ List(t)
               \/ Abort(t) \/ Die(t)
        PROVE  TimesApart'
    <3>1. /\ UNCHANGED <<seen, time>> /\ rows' \subseteq rows
          /\ \A u \in Logins \cup Refreshes : pc'[u] \in Stamping => pc[u] \in Stamping
      BY <2>7 DEF SignoutSelect, DeleteAllSelect, DeleteCommit, List, Abort, Die
    <3>2. IsFiniteSet(rows')
      BY <3>1, FS_Subset
    <3> QED
      BY <3>1, <3>2
  <2>12. ASSUME NEW l \in Logins, TokenExpire(l) \/ RowExpire(l) PROVE TimesApart'
    BY <2>12 DEF TokenExpire, RowExpire
  <2>13. CASE UNCHANGED vars
    BY <2>13 DEF vars
  <2> QED
    BY <2>1, <2>2, <2>4, <2>5, <2>6, <2>7, <2>12, <2>13 DEF Next, Run, Login
<1> QED
  BY <1>1, <1>2, ClockedAlways, TypedAlways, PTL DEF Spec

\* The sessions that count, without those of a login that another one has crossed.
Uncrossed == {s \in rows \ expired : token[s] \notin crossed}

\* A login that no other has crossed leaves MaxSessions of the sessions that count.
MaximumExplained ==
    /\ Cardinality(Uncrossed) <= MaxSessions
    /\ \A l \in Logins : pc[l] = "limited" /\ l \notin crossed =>
         Cardinality(Visible(l)) <= MaxSessions

\* What a login leaves when it has picked the sessions to evict.
LEMMA LimitLeaves ==
    ASSUME Clocked, TimesApart, NEW l \in Logins, pc[l] = "selected"
    PROVE  /\ IsFiniteSet(Visible(l) \ Over(l))
           /\ Cardinality(Visible(l) \ Over(l)) <= MaxSessions
           /\ \A s \in Over(l), r \in Visible(l) \ Over(l) : Rank(l, s) < Rank(l, r)
<1> DEFINE V == Visible(l)
           rank == [s \in V |-> Rank(l, s)]
           above == [s \in V |-> {r \in V : rank[r] > rank[s]}]
<1>1. V \subseteq rows \cup {target[l]} /\ IsFiniteSet(V)
  <2>1. V \subseteq rows \cup {target[l]}
    BY DEF Visible, Counted
  <2>2. IsFiniteSet(rows \cup {target[l]})
    BY FS_AddElement DEF TimesApart
  <2> QED
    BY <2>1, <2>2, FS_Subset
<1>2. \A s \in V : rank[s] \in Nat
  BY <1>1 DEF Rank, Clocked
<1>3. \A s, r \in V : rank[s] = rank[r] => s = r
  BY <1>1 DEF Rank, TimesApart, Stamping
<1>4. /\ Over(l) = {s \in V : Cardinality(above[s]) >= MaxSessions}
      /\ V \ Over(l) = {s \in V : ~(Cardinality(above[s]) >= MaxSessions)}
  BY DEF Over
<1>7. \A s \in V : above[s] = {r \in V : rank[r] > rank[s]}
  OBVIOUS
<1>5. IsFiniteSet(V \ Over(l)) /\ Cardinality(V \ Over(l)) <= MaxSessions
  <2> HIDE DEF V, rank, above
  <2> QED
    BY <1>1, <1>2, <1>3, <1>4, <1>7, ConstantAssumption, HighestRanks
<1>6. ASSUME NEW s \in Over(l), NEW r \in V \ Over(l) PROVE rank[s] < rank[r]
  <2>1. ASSUME rank[r] <= rank[s] PROVE FALSE
    <3>1. above[s] \subseteq above[r]
      BY <1>2, <1>4, <1>6, <2>1
    <3>2. IsFiniteSet(above[r])
      BY <1>1, FS_Subset
    <3>3. IsFiniteSet(above[s]) /\ Cardinality(above[s]) <= Cardinality(above[r])
      BY <3>1, <3>2, FS_Subset
    <3>4. Cardinality(above[s]) \in Nat /\ Cardinality(above[r]) \in Nat
      BY <3>2, <3>3, FS_CardinalityType
    <3>5. Cardinality(above[s]) >= MaxSessions /\ ~(Cardinality(above[r]) >= MaxSessions)
      BY <1>4, <1>6
    <3> HIDE DEF above
    <3> QED
      BY <3>3, <3>4, <3>5, ConstantAssumption
  <2> QED
    BY <1>2, <1>4, <1>6, <2>1
<1> QED
  BY <1>4, <1>5, <1>6

\* Rows of logins that nothing crossed are at most the maximum.
LEMMA MaximumInvariant == Spec => []MaximumExplained
<1> USE DEF Clocked, MaximumExplained, Stages, Ended, UnderWay, Tasks, Deleters, Goto,
            Unlock, Tick, Arrives, table, time_, requests, ghosts
<1>1. Init => MaximumExplained
  <2> SUFFICES ASSUME Init PROVE MaximumExplained
    OBVIOUS
  <2>1. Uncrossed = {}
    BY DEF Init, Uncrossed
  <2> QED
    BY <2>1, FS_EmptySet, ConstantAssumption DEF Init
<1>2. Clocked /\ TimesApart /\ MaximumExplained /\ [Next]_vars => MaximumExplained'
  <2> SUFFICES ASSUME Clocked, TimesApart, MaximumExplained, [Next]_vars
               PROVE  MaximumExplained'
    OBVIOUS
  <2> USE KindAssumption
  <2>a. ASSUME NEW S, NEW T \in SUBSET S, IsFiniteSet(S), Cardinality(S) <= MaxSessions
        PROVE  Cardinality(T) <= MaxSessions
    <3>1. IsFiniteSet(T) /\ Cardinality(T) <= Cardinality(S)
      BY <2>a, FS_Subset
    <3>2. Cardinality(T) \in Nat /\ Cardinality(S) \in Nat
      BY <2>a, <3>1, FS_CardinalityType
    <3> QED
      BY <2>a, <3>1, <3>2, ConstantAssumption
  <2>b. IsFiniteSet(Uncrossed) /\ \A l : IsFiniteSet(Visible(l))
    <3>1. Uncrossed \in SUBSET rows
      BY DEF Uncrossed
    <3>2. \A l : IsFiniteSet(rows \cup {target[l]})
      BY FS_AddElement DEF TimesApart
    <3>3. \A l : Visible(l) \in SUBSET (rows \cup {target[l]})
      BY DEF Visible, Counted
    <3> QED
      BY <3>1, <3>2, <3>3, FS_Subset DEF TimesApart
  <2>c. ASSUME rows' \subseteq rows, expired \subseteq expired',
               UNCHANGED <<token, crossed, target>>,
               \A l \in Logins : pc'[l] = "limited" => pc[l] = "limited" /\ doomed'[l] = doomed[l]
        PROVE  MaximumExplained'
    <3>1. Uncrossed' \in SUBSET Uncrossed
      BY <2>c DEF Uncrossed
    <3>2. ASSUME NEW l \in Logins, pc'[l] = "limited", l \notin crossed'
          PROVE  Cardinality(Visible(l)') <= MaxSessions
      <4>1. Visible(l)' \in SUBSET Visible(l)
        BY <2>c, <3>2 DEF Visible, Counted
      <4> QED
        BY <2>a, <2>b, <2>c, <3>2, <4>1
    <3> QED
      BY <2>a, <2>b, <3>1, <3>2
  <2>1. ASSUME NEW l \in Logins, LoginExpired(l) \/ LoginDevice(l) PROVE MaximumExplained'
    <3>1. /\ UNCHANGED <<rows, expired, token, crossed>>
          /\ pc'[l] # "limited" /\ pc[l] # "limited"
          /\ \A m \in Logins \ {l} : /\ pc'[m] = pc[m] /\ doomed'[m] = doomed[m]
                                     /\ target'[m] = target[m]
      BY <2>1 DEF LoginExpired, LoginDevice
    <3>2. Uncrossed' = Uncrossed
      BY <3>1 DEF Uncrossed
    <3>3. \A m \in Logins \ {l} : Visible(m)' = Visible(m)
      BY <3>1 DEF Visible, Counted
    <3> QED
      BY <3>1, <3>2, <3>3
  <2>3. ASSUME NEW l \in Logins, LoginLimit(l) PROVE MaximumExplained'
    <3>1. CASE pc' = [pc EXCEPT ![l] = "failed"] /\ UNCHANGED doomed
      BY <2>3, <2>c, <3>1 DEF LoginLimit
    <3>2. CASE /\ pc' = [pc EXCEPT ![l] = "limited"]
               /\ doomed' = [doomed EXCEPT ![l] = @ \cup Over(l)]
      <4>1. pc[l] = "selected" /\ UNCHANGED <<rows, expired, token, crossed, target>>
        BY <2>3 DEF LoginLimit
      <4>2. Visible(l)' = Visible(l) \ Over(l)
        BY <3>2, <4>1 DEF Visible, Counted
      <4>3. \A m \in Logins \ {l} : Visible(m)' = Visible(m) /\ pc'[m] = pc[m]
        BY <3>2, <4>1 DEF Visible, Counted
      <4>4. Uncrossed' = Uncrossed
        BY <4>1 DEF Uncrossed
      <4>5. Cardinality(Visible(l)') <= MaxSessions
        BY <4>1, <4>2, LimitLeaves
      <4> QED
        BY <4>1, <4>3, <4>4, <4>5
    <3> QED
      BY <2>3, <3>1, <3>2 DEF LoginLimit
  <2>4. ASSUME NEW l \in Logins, LoginCommit(l) PROVE MaximumExplained'
    <3>1. /\ pc[l] = "limited" /\ pc'[l] # "limited" /\ target[l] \in Logins
          /\ rows' = (rows \cup {target[l]}) \ doomed[l]
          /\ token' = [token EXCEPT ![target[l]] = l]
          /\ expired' = expired \ {target[l]}
          /\ crossed' = crossed \cup (Counting \ {l})
      BY <2>4 DEF LoginCommit
    <3>2. \A m \in Logins : pc'[m] = "limited" => m \in crossed'
      BY <2>4, <3>1 DEF LoginCommit, Counting
    <3>3. CASE l \in crossed
      <4>1. Uncrossed' \in SUBSET Uncrossed
        BY <3>1, <3>3 DEF Uncrossed
      <4> QED
        BY <2>a, <2>b, <3>2, <4>1
    <3>4. CASE l \notin crossed
      <4>1. Uncrossed' \in SUBSET Visible(l)
        BY <3>1 DEF Uncrossed, Visible, Counted
      <4> QED
        BY <2>a, <2>b, <3>1, <3>2, <3>4, <4>1
    <3> QED
      BY <3>3, <3>4
  <2>5. ASSUME NEW f \in Refreshes, RefreshSelect(f) \/ RefreshCommit(f)
        PROVE  MaximumExplained'
    <3>1. /\ UNCHANGED <<rows, expired, token, crossed, doomed>>
          /\ \A l \in Logins : pc'[l] = pc[l] /\ target'[l] = target[l]
      BY <2>5 DEF RefreshSelect, RefreshCommit
    <3>2. Uncrossed' = Uncrossed /\ \A l \in Logins : Visible(l)' = Visible(l)
      BY <3>1 DEF Uncrossed, Visible, Counted
    <3> QED
      BY <3>1, <3>2
  <2>7. ASSUME NEW t \in Tasks,
               \/ t \in Signouts /\ SignoutSelect(t)
               \/ t \in DeleteAlls /\ DeleteAllSelect(t)
               \/ t \in Deleters /\ DeleteCommit(t)
               \/ t \in Lists /\ List(t)
               \/ Abort(t) \/ Die(t)
        PROVE  MaximumExplained'
    <3>1. /\ rows' \subseteq rows /\ UNCHANGED <<expired, token, crossed, target>>
          /\ \A l \in Logins : pc'[l] = "limited" => pc[l] = "limited" /\ doomed'[l] = doomed[l]
      BY <2>7 DEF SignoutSelect, DeleteAllSelect, DeleteCommit, List, Abort, Die
    <3> QED
      BY <2>c, <3>1
  <2>12. ASSUME NEW l \in Logins, TokenExpire(l) \/ RowExpire(l) PROVE MaximumExplained'
    BY <2>12, <2>c DEF TokenExpire, RowExpire
  <2>13. CASE UNCHANGED vars
    BY <2>13, <2>c DEF vars
  <2> QED
    BY <2>1, <2>3, <2>4, <2>5, <2>7, <2>12, <2>13 DEF Next, Run, Login
<1> QED
  BY <1>1, <1>2, ClockedAlways, TypedAlways, TimesInvariant, PTL DEF Spec

\* For any maximum and any number of logins, a user has more sessions than the maximum
\* only by as many logins as another one has crossed.
THEOREM MaximumHolds == Spec => []WithinMaximum
<1>1. Clocked /\ TimesApart /\ MaximumExplained => WithinMaximum
  <2> SUFFICES ASSUME Clocked, TimesApart, MaximumExplained PROVE WithinMaximum
    OBVIOUS
  <2> DEFINE over == {s \in rows : token[s] \in crossed}
  <2>1. rows \ expired \in SUBSET (Uncrossed \cup over)
    BY DEF Uncrossed
  <2>2. Uncrossed \in SUBSET rows /\ over \in SUBSET rows /\ IsFiniteSet(rows)
    BY DEF Uncrossed, TimesApart
  <2>3. IsFiniteSet(Uncrossed) /\ IsFiniteSet(over)
    BY <2>2, FS_Subset
  <2> HIDE DEF over
  <2>4. /\ IsFiniteSet(Uncrossed \cup over)
        /\ Cardinality(Uncrossed \cup over)
             = Cardinality(Uncrossed) + Cardinality(over) - Cardinality(Uncrossed \cap over)
    BY <2>3, FS_Union
  <2>5. IsFiniteSet(Uncrossed \cap over)
    BY <2>3, FS_Intersection
  <2>6. /\ IsFiniteSet(rows \ expired)
        /\ Cardinality(rows \ expired) <= Cardinality(Uncrossed \cup over)
    BY <2>1, <2>4, FS_Subset
  <2>7. /\ Cardinality(Uncrossed) \in Nat /\ Cardinality(over) \in Nat
        /\ Cardinality(Uncrossed \cap over) \in Nat /\ Cardinality(rows \ expired) \in Nat
    BY <2>3, <2>5, <2>6, FS_CardinalityType
  <2>8. Cardinality(Uncrossed) <= MaxSessions
    BY DEF MaximumExplained
  <2>9. Cardinality(rows \ expired) <= MaxSessions + Cardinality(over)
    BY <2>4, <2>6, <2>7, <2>8, ConstantAssumption
  <2> QED
    BY <2>9 DEF WithinMaximum, over
<1> QED
  BY <1>1, ClockedAlways, TypedAlways, TimesInvariant, MaximumInvariant, PTL

-----------------------------------------------------------------------------
(* Evictions.                                                              *)

\* A login has swept what was expired, and has picked the least recent of the others;
\* whatever it no longer sees as it did then was touched.
SweepExplained(l) ==
    pc[l] \in Stamping =>
        /\ pc[l] # "limited" =>
             /\ l \notin doomed[l] /\ (pc[l] = "selected" => target[l] \notin doomed[l])
             /\ \A s \in doomed[l] \cap (rows \ expired) : s \in touched
        /\ pc[l] = "limited" =>
             \A s \in Counted(l) \cap doomed[l], r \in Counted(l) \ doomed[l] :
                 Rank(l, s) < Rank(l, r) \/ s \in touched \/ r \in touched

EvictionsExplained == \A l \in Logins : SweepExplained(l)

\* What a login is about to evict is older than what it spares.
LEMMA EvictionsInvariant == Spec => []EvictionsExplained
<1> USE DEF Clocked, EvictionsExplained, Stamping, Stages, Ended, UnderWay, Tasks, Deleters,
            Goto, Unlock, Tick, Arrives, table, time_, requests, ghosts
<1>1. Init => EvictionsExplained
  BY KindAssumption DEF Init, SweepExplained
<1>2. Clocked /\ Clocked' /\ TimesApart /\ RowsExplained /\ EvictionsExplained /\ [Next]_vars
        => EvictionsExplained'
  <2> SUFFICES ASSUME Clocked, rows' \in SUBSET Logins, TimesApart, RowsExplained,
                      EvictionsExplained, [Next]_vars
               PROVE  EvictionsExplained'
    OBVIOUS
  <2> USE KindAssumption
  \* A step of another request, which touches what it stamps.
  <2>a. ASSUME NEW l \in Logins, pc'[l] \in Stamping => pc'[l] = pc[l],
               pc[l] \in Stamping =>
                 /\ target'[l] = target[l] /\ doomed'[l] = doomed[l] /\ time'[l] = time[l]
                 /\ touched \subseteq touched'
                 /\ \A s \in Logins \ touched' :
                      seen'[s] = seen[s] /\ (s \in rows' \ expired' => s \in rows \ expired)
        PROVE  SweepExplained(l)'
    <3> SUFFICES ASSUME pc'[l] \in Stamping PROVE SweepExplained(l)'
      BY DEF SweepExplained
    <3>1. /\ pc'[l] = pc[l] /\ target'[l] = target[l] /\ doomed'[l] = doomed[l]
          /\ time'[l] = time[l] /\ touched \subseteq touched'
          /\ \A s \in Logins \ touched' :
               seen'[s] = seen[s] /\ (s \in rows' \ expired' => s \in rows \ expired)
      BY <2>a
    <3>2. CASE pc[l] # "limited"
      <4>1. \A s \in doomed[l] : s \in Logins
        OBVIOUS
      <4> QED
        BY <3>1, <3>2, <4>1 DEF SweepExplained
    <3>3. CASE pc[l] = "limited"
      <4>1. target[l] \in Logins /\ doomed[l] \subseteq Logins
        BY <3>3
      <4>2. ASSUME NEW s \in Logins \ touched' PROVE Rank(l, s)' = Rank(l, s)
        BY <3>1, <4>2 DEF Rank
      <4>3. ASSUME NEW s \in Counted(l)', s \notin touched'
            PROVE  s \in Counted(l) /\ s \in Logins \ touched' /\ s \notin touched
        <5>1. s = target[l] \/ s \in rows' \ expired'
          BY <3>1, <4>3 DEF Counted
        <5>2. CASE s = target[l]
          BY <3>1, <4>1, <4>3, <5>2 DEF Counted
        <5>3. CASE s \in rows' \ expired'
          BY <3>1, <4>3, <5>3 DEF Counted
        <5> QED
          BY <5>1, <5>2, <5>3
      <4>4. ASSUME NEW s \in Counted(l)' \cap doomed'[l], NEW r \in Counted(l)' \ doomed'[l],
                   s \notin touched', r \notin touched'
            PROVE  Rank(l, s)' < Rank(l, r)'
        <5>1. /\ s \in Counted(l) \cap doomed[l] /\ r \in Counted(l) \ doomed[l]
              /\ s \notin touched /\ r \notin touched
          BY <3>1, <4>3, <4>4
        <5>2. Rank(l, s) < Rank(l, r)
          BY <3>3, <5>1 DEF SweepExplained
        <5> QED
          BY <4>2, <4>3, <4>4, <5>2
      <4> QED
        BY <3>1, <3>3, <4>4 DEF SweepExplained
    <3> QED
      BY <3>2, <3>3
  <2>1. ASSUME NEW l \in Logins, LoginExpired(l) PROVE EvictionsExplained'
    <3>1. /\ pc[l] = "idle" /\ pc'[l] = "swept" /\ doomed'[l] = rows \cap expired
          /\ UNCHANGED <<rows, expired, seen, touched, target>>
          /\ \A m \in Logins \ {l} : /\ pc'[m] = pc[m] /\ doomed'[m] = doomed[m]
                                     /\ time'[m] = time[m]
      BY <2>1 DEF LoginExpired
    <3>2. l \notin rows
      BY <3>1 DEF RowsExplained
    <3>3. SweepExplained(l)'
      BY <3>1, <3>2 DEF SweepExplained
    <3>4. ASSUME NEW m \in Logins \ {l} PROVE SweepExplained(m)'
      BY <2>a, <3>1
    <3> QED
      BY <3>3, <3>4
  <2>2. ASSUME NEW l \in Logins, LoginDevice(l) PROVE EvictionsExplained'
    <3>1. /\ pc[l] = "swept" /\ pc' = [pc EXCEPT ![l] = "selected"]
          /\ UNCHANGED <<rows, expired, seen, touched, time, doomed>>
          /\ \A m \in Logins \ {l} : target'[m] = target[m]
      BY <2>2 DEF LoginDevice
    <3>2. target'[l] \notin doomed[l]
      <4>1. OfDevice(l) # {} => (CHOOSE s \in OfDevice(l) : TRUE) \in OfDevice(l)
        OBVIOUS
      <4>2. l \notin doomed[l]
        BY <3>1 DEF SweepExplained
      <4>3. target'[l] = IF OfDevice(l) = {} THEN l ELSE CHOOSE s \in OfDevice(l) : TRUE
        BY <2>2 DEF LoginDevice
      <4> QED
        BY <4>1, <4>2, <4>3 DEF OfDevice
    <3>3. SweepExplained(l)'
      BY <3>1, <3>2 DEF SweepExplained
    <3>4. ASSUME NEW m \in Logins \ {l} PROVE SweepExplained(m)'
      BY <2>a, <3>1
    <3> QED
      BY <3>3, <3>4
  <2>3. ASSUME NEW l \in Logins, LoginLimit(l) PROVE EvictionsExplained'
    <3>1. /\ pc[l] = "selected" /\ pc'[l] \in {"failed", "limited"}
          /\ UNCHANGED <<rows, expired, seen, touched, time, target>>
          /\ \A m \in Logins \ {l} : pc'[m] = pc[m] /\ doomed'[m] = doomed[m]
      BY <2>3 DEF LoginLimit
    <3>2. CASE pc'[l] = "failed"
      <4>1. SweepExplained(l)'
        BY <3>2 DEF SweepExplained
      <4>2. ASSUME NEW m \in Logins \ {l} PROVE SweepExplained(m)'
        BY <2>a, <3>1
      <4> QED
        BY <4>1, <4>2
    <3>3. CASE pc'[l] = "limited"
      <4>1. doomed'[l] = doomed[l] \cup Over(l)
        BY <2>3, <3>3 DEF LoginLimit
      <4>2. Counted(l)' = Counted(l) /\ \A s : Rank(l, s)' = Rank(l, s)
        BY <3>1 DEF Counted, Rank
      <4>3. \A s \in Counted(l) \cap doomed[l] : s \in touched
        BY <3>1 DEF SweepExplained, Counted
      <4>4. ASSUME NEW s \in Over(l), NEW r \in Counted(l) \ (doomed[l] \cup Over(l))
            PROVE  Rank(l, s) < Rank(l, r)
        <5>1. r \in Visible(l) \ Over(l)
          BY DEF Visible
        <5> QED
          BY <3>1, <5>1, LimitLeaves
      <4>5. SweepExplained(l)'
        BY <3>1, <3>3, <4>1, <4>2, <4>3, <4>4 DEF SweepExplained
      <4>6. ASSUME NEW m \in Logins \ {l} PROVE SweepExplained(m)'
        BY <2>a, <3>1
      <4> QED
        BY <4>5, <4>6
    <3> QED
      BY <3>1, <3>2, <3>3
  <2>4. ASSUME NEW l \in Logins, LoginCommit(l) PROVE EvictionsExplained'
    <3>1. /\ pc[l] = "limited" /\ pc'[l] \notin Stamping
          /\ \A m \in Logins \ {l} : pc'[m] = pc[m]
          /\ rows' \subseteq rows \cup {target[l]} /\ expired' = expired \ {target[l]}
          /\ \A s \in Logins \ {target[l]} : seen'[s] = seen[s]
          /\ UNCHANGED <<target, doomed, time>> /\ touched \subseteq touched'
      BY <2>4 DEF LoginCommit
    <3>2. ASSUME NEW m \in Logins \ {l}, pc[m] \in Stamping PROVE target[l] \in touched'
      <4>1. m \in Sweeping(l)
        BY <3>2 DEF Sweeping
      <4> QED
        BY <2>4, <4>1 DEF LoginCommit
    <3>3. ASSUME NEW m \in Logins \ {l} PROVE SweepExplained(m)'
      BY <2>a, <3>1, <3>2
    <3>4. SweepExplained(l)'
      BY <3>1 DEF SweepExplained
    <3> QED
      BY <3>3, <3>4
  <2>5. ASSUME NEW f \in Refreshes, RefreshSelect(f) PROVE EvictionsExplained'
    <3>1. /\ UNCHANGED <<rows, expired, seen, touched, doomed>>
          /\ \A m \in Logins : pc'[m] = pc[m] /\ target'[m] = target[m] /\ time'[m] = time[m]
      BY <2>5 DEF RefreshSelect
    <3> QED
      BY <2>a, <3>1
  <2>6. ASSUME NEW f \in Refreshes, RefreshCommit(f) PROVE EvictionsExplained'
    <3>1. /\ UNCHANGED <<rows, expired, target, doomed, time>> /\ touched \subseteq touched'
          /\ \A m \in Logins : pc'[m] = pc[m]
          /\ \A s \in Logins \ {target[f]} : seen'[s] = seen[s]
      BY <2>6 DEF RefreshCommit
    <3>2. ASSUME NEW m \in Logins, pc[m] \in Stamping
          PROVE  target[f] \in touched' \/ seen' = seen
      <4>1. m \in Sweeping(f)
        BY <3>2 DEF Sweeping
      <4> QED
        BY <2>6, <4>1 DEF RefreshCommit
    <3> QED
      BY <2>a, <3>1, <3>2
  <2>7. ASSUME NEW t \in Tasks,
               \/ t \in Signouts /\ SignoutSelect(t)
               \/ t \in DeleteAlls /\ DeleteAllSelect(t)
               \/ t \in Deleters /\ DeleteCommit(t)
               \/ t \in Lists /\ List(t)
               \/ Abort(t) \/ Die(t)
        PROVE  EvictionsExplained'
    <3>1. /\ rows' \subseteq rows /\ UNCHANGED <<expired, seen, touched, target, time>>
          /\ \A m \in Logins : /\ pc'[m] \in Stamping => pc'[m] = pc[m]
                               /\ doomed'[m] = doomed[m]
      BY <2>7 DEF SignoutSelect, DeleteAllSelect, DeleteCommit, List, Abort, Die
    <3> QED
      BY <2>a, <3>1
  <2>12. ASSUME NEW l \in Logins, TokenExpire(l) \/ RowExpire(l) PROVE EvictionsExplained'
    <3>1. /\ expired \subseteq expired'
          /\ UNCHANGED <<rows, seen, touched, target, time, pc, doomed>>
      BY <2>12 DEF TokenExpire, RowExpire
    <3> QED
      BY <2>a, <3>1
  <2>13. CASE UNCHANGED vars
    BY <2>13, <2>a DEF vars
  <2> QED
    BY <2>1, <2>2, <2>3, <2>4, <2>5, <2>6, <2>7, <2>12, <2>13 DEF Next, Run, Login
<1>3. Explained => RowsExplained
  BY DEF Explained
<1> QED
  BY <1>1, <1>2, <1>3, ClockedAlways, TypedAlways, TimesInvariant, RowsInvariant, PTL DEF Spec

\* For any maximum, a login that commits evicts what was seen least recently, as far as
\* nothing changed meanwhile.
THEOREM EvictionsAreOfTheOldest == Spec => EvictsLeastRecent
<1>1. Clocked /\ EvictionsExplained /\ [Next]_vars =>
        [\A l \in Logins : LoginCommit(l) =>
           \A s \in Counted(l) \ rows', r \in Counted(l) \cap rows' :
             Rank(l, s) < Rank(l, r) \/ s \in touched' \/ r \in touched']_vars
  <2> SUFFICES ASSUME EvictionsExplained, NEW l \in Logins, LoginCommit(l),
                      NEW s \in Counted(l) \ rows', NEW r \in Counted(l) \cap rows'
               PROVE  Rank(l, s) < Rank(l, r) \/ s \in touched' \/ r \in touched'
    OBVIOUS
  <2>1. /\ pc[l] = "limited" /\ rows' = (rows \cup {target[l]}) \ doomed[l]
        /\ touched \subseteq touched'
    BY DEF LoginCommit
  <2>2. s \in Counted(l) \cap doomed[l] /\ r \in Counted(l) \ doomed[l]
    BY <2>1 DEF Counted
  <2> QED
    BY <2>1, <2>2 DEF EvictionsExplained, SweepExplained, Stamping
<1> QED
  BY <1>1, ClockedAlways, TypedAlways, EvictionsInvariant, PTL DEF Spec, EvictsLeastRecent
=============================================================================
