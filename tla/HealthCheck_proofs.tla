------------------------ MODULE HealthCheck_proofs ------------------------
(***************************************************************************)
(* Theorems of HealthCheck for every number of groups, every rise, fall    *)
(* and length of the history: a thread never outlives its manager, and the *)
(* history ring lists exactly the last results.                            *)
(***************************************************************************)
EXTENDS HealthCheck, TLAPS

IInv == HealthTypeOK /\ NoThreadLeft /\ HistoryIsRecent

\* The place of the i-th of n results in a ring whose index is at x.
PlaceInRing(x, n, i) == (x - n + i - 1 + Capacity) % Capacity

\* The remainder of a number of less than two laps.
LEMMA Remainder ==
    ASSUME NEW c \in Nat \ {0}, NEW v \in 0 .. 2 * c - 1
    PROVE  v % c = IF v < c THEN v ELSE v - c
OBVIOUS

\* The place of a result, without the remainder.
LEMMA PlaceIs ==
    ASSUME NEW x \in Places, NEW n \in 0 .. Capacity, NEW i \in 1 .. n
    PROVE  /\ PlaceInRing(x, n, i) \in Places
           /\ PlaceInRing(x, n, i) = IF x - n + i - 1 < 0 THEN x - n + i - 1 + Capacity
                                     ELSE x - n + i - 1
<1>1. Capacity \in Nat \ {0} /\ x \in Int /\ n \in Int /\ i \in Int
  BY HealthAssumption DEF Places
<1> DEFINE v == x - n + i - 1 + Capacity
<1>2. v \in 0 .. 2 * Capacity - 1
  BY <1>1 DEF Places
<1>3. v % Capacity = IF v < Capacity THEN v ELSE v - Capacity
  <2> HIDE DEF v
  <2>1. QED
    BY <1>1, <1>2, Remainder
<1>4. QED
  BY <1>1, <1>2, <1>3 DEF Places, PlaceInRing

\* The next index of the ring.
LEMMA NextIs ==
    ASSUME NEW x \in Places
    PROVE  (x + 1) % Capacity = IF x + 1 = Capacity THEN 0 ELSE x + 1
<1> DEFINE v == x + 1
<1>1. Capacity \in Nat \ {0} /\ v \in 0 .. 2 * Capacity - 1
  BY HealthAssumption DEF Places
<1>2. v % Capacity = IF v < Capacity THEN v ELSE v - Capacity
  <2> HIDE DEF v
  <2>1. QED
    BY <1>1, Remainder
<1>3. QED
  BY <1>1, <1>2 DEF Places

\* At first there are no managers and no results.
LEMMA InitInv == HealthInit => IInv
<1> SUFFICES ASSUME HealthInit PROVE IInv
  OBVIOUS
<1> USE HealthAssumption
<1>1. HealthTypeOK
  BY DEF HealthInit, HealthTypeOK, Places, Results, Idle
<1>2. NoThreadLeft /\ HistoryIsRecent
  BY DEF HealthInit, NoThreadLeft, HistoryIsRecent
<1>3. QED
  BY <1>1, <1>2 DEF IInv

\* The caller's group is a group.
LEMMA CallerGroup ==
    ASSUME HealthTypeOK, caller.op \in {"create", "stop", "join"}
    PROVE  caller.group \in Groups
BY DEF HealthTypeOK, Idle

\* The last Capacity results are results.
LEMMA LastOfType ==
    ASSUME NEW s \in Seq(Results), NEW r \in Results
    PROVE  LastOf(Append(s, r)) \in Seq(Results)
<1>1. Append(s, r) \in Seq(Results) /\ Append(s, r) # <<>>
  <2>1. Append(s, r) \in Seq(Results) /\ Len(Append(s, r)) = Len(s) + 1 /\ Len(s) \in Nat
    OBVIOUS
  <2>2. QED
    BY <2>1
<1>2. Tail(Append(s, r)) \in Seq(Results)
  BY <1>1
<1>3. QED
  BY <1>1, <1>2 DEF LastOf

\* Every step keeps the types.
LEMMA TypeStep == HealthTypeOK /\ [HealthNext]_healthVars => HealthTypeOK'
<1> SUFFICES ASSUME HealthTypeOK, [HealthNext]_healthVars PROVE HealthTypeOK'
  OBVIOUS
<1> USE HealthAssumption DEF HealthTypeOK, historyVars, staticVars, managerVars, checkVars, callVars
<1>1. ASSUME NEW g \in Groups, Start(g) PROVE HealthTypeOK'
  BY <1>1 DEF Start, Idle
<1>2. ASSUME NEW g \in Groups, Stop(g) PROVE HealthTypeOK'
  BY <1>2 DEF Stop, Idle
<1>3. CASE CreateFirst
  BY <1>3, CallerGroup DEF CreateFirst, Create, Results, Places, Idle
<1>4. CASE CreateFails
  BY <1>4 DEF CreateFails, Idle
<1>5. CASE TellToStop
  <2>1. caller \in [op : {"stop", "join"}, group : Groups, again : BOOLEAN]
    BY <1>5 DEF TellToStop, Idle
  <2>2. QED
    BY <1>5, <2>1 DEF TellToStop
<1>6. CASE Joined
  <2>1. caller \in [op : {"stop", "join"}, group : Groups, again : BOOLEAN]
    BY <1>6 DEF Joined, Idle
  <2>2. QED
    BY <1>6, <2>1 DEF Joined
<1>7. ASSUME NEW g \in Groups, Look(g) PROVE HealthTypeOK'
  BY <1>7 DEF Look
<1>8. ASSUME NEW g \in Groups, NotYet(g) PROVE HealthTypeOK'
  BY <1>8 DEF NotYet
<1>9. ASSUME NEW g \in Groups, Checks(g) PROVE HealthTypeOK'
  BY <1>9 DEF Checks, CheckServer, Results
<1>10. ASSUME NEW g \in Groups, CountSuccess(g) PROVE HealthTypeOK'
  <2>1. ups' \in 0 .. Rise - 1 /\ downs' \in 0 .. Fall - 1
    BY <1>10 DEF CountSuccess
  <2>2. serverStatus' \in [Groups -> {"UP", "DOWN", "UNKNOWN"}]
    BY <1>10 DEF CountSuccess
  <2>3. QED
    BY <1>10, <2>1, <2>2 DEF CountSuccess
<1>11. ASSUME NEW g \in Groups, CountFailure(g) PROVE HealthTypeOK'
  <2>1. ups' \in 0 .. Rise - 1 /\ downs' \in 0 .. Fall - 1
    BY <1>11 DEF CountFailure
  <2>2. serverStatus' \in [Groups -> {"UP", "DOWN", "UNKNOWN"}]
    BY <1>11 DEF CountFailure
  <2>3. QED
    BY <1>11, <2>1, <2>2 DEF CountFailure
<1>12. ASSUME NEW g \in Groups, Add(g) PROVE HealthTypeOK'
  <2>1. NextIndex(g) \in Places
    BY NextIs DEF NextIndex, Places
  <2>2. LastOf(Append(past[g], result[g])) \in Seq(Results)
    BY LastOfType
  <2>3. QED
    BY <1>12, <2>1, <2>2 DEF Add, Places
<1>13. CASE UNCHANGED healthVars
  BY <1>13 DEF healthVars
<1>14. QED
  BY <1>1, <1>2, <1>3, <1>4, <1>5, <1>6, <1>7, <1>8, <1>9, <1>10, <1>11, <1>12, <1>13
     DEF HealthNext, ThreadStep, CallerStep

\* A thread exists only where there is a manager; a manager is given up only
\* after its thread was joined.
LEMMA ThreadsStep == HealthTypeOK /\ NoThreadLeft /\ [HealthNext]_healthVars => NoThreadLeft'
<1> SUFFICES ASSUME HealthTypeOK, NoThreadLeft, [HealthNext]_healthVars PROVE NoThreadLeft'
  OBVIOUS
<1> USE DEF HealthTypeOK, NoThreadLeft
<1>1. CASE UNCHANGED <<thread, manager>>
  BY <1>1
<1>2. CASE CreateFirst
  BY <1>2, CallerGroup DEF CreateFirst, Create
<1>3. CASE Joined
  BY <1>3, CallerGroup DEF Joined
<1>4. CASE CreateFails \/ TellToStop \/ UNCHANGED healthVars \/ \E g \in Groups : Start(g) \/ Stop(g)
  BY <1>1, <1>4 DEF CreateFails, TellToStop, Start, Stop, healthVars, managerVars, checkVars
<1>5. ASSUME NEW g \in Groups, ThreadStep(g) PROVE NoThreadLeft'
  BY <1>5 DEF ThreadStep, Look, NotYet, Checks, CheckServer, CountSuccess, CountFailure, Add,
     managerVars
<1>6. QED
  BY <1>2, <1>3, <1>4, <1>5 DEF HealthNext, CallerStep

\* What HistoryIsRecent says of one group.
Recent(g) == past[g] = [i \in 1 .. count[g] |-> ring[g][PlaceInRing(index[g], count[g], i)]]

\* The length of a history that is right.
LEMMA HistoryLength ==
    ASSUME HealthTypeOK, NEW g \in Groups, Recent(g)
    PROVE  Len(past[g]) = count[g]
<1>1. past[g] \in Seq(Results) /\ count[g] \in Nat
  BY HealthAssumption DEF HealthTypeOK
<1>2. DOMAIN past[g] = 1 .. count[g]
  BY DEF Recent
<1>3. DOMAIN past[g] = 1 .. Len(past[g]) /\ Len(past[g]) \in Nat
  BY <1>1
<1>4. QED
  BY <1>1, <1>2, <1>3

\* What Add does to the ring of its group.
LEMMA AddDoes ==
    ASSUME HealthTypeOK, NEW g \in Groups, Add(g)
    PROVE  /\ \A p \in Places : ring'[g][p] = IF p = index[g] THEN result[g] ELSE ring[g][p]
           /\ index[g] \in Places /\ index'[g] \in Places
           /\ index'[g] = IF index[g] + 1 = Capacity THEN 0 ELSE index[g] + 1
           /\ count[g] \in 0 .. Capacity
           /\ count'[g] = IF count[g] < Capacity THEN count[g] + 1 ELSE count[g]
           /\ past'[g] = LastOf(Append(past[g], result[g]))
<1>1. index[g] \in Places
  BY DEF HealthTypeOK
<1>2. index'[g] = IF index[g] + 1 = Capacity THEN 0 ELSE index[g] + 1
  BY <1>1, NextIs DEF Add, NextIndex, HealthTypeOK
<1>3. index'[g] \in Places
  BY <1>1, <1>2, HealthAssumption DEF Places
<1>4. QED
  BY <1>1, <1>2, <1>3 DEF Add, HealthTypeOK

\* One more result in a ring that is not full: the others keep their places.
LEMMA AddToPart ==
    ASSUME HealthTypeOK, NEW g \in Groups, Recent(g), Add(g), count[g] < Capacity
    PROVE  Recent(g)'
<1> DEFINE n == count[g]
           x == index[g]
           y == index'[g]
<1>1. /\ n \in 0 .. Capacity - 1 /\ x \in Places /\ y \in Places
      /\ Capacity \in Nat \ {0} /\ count'[g] = n + 1
      /\ y = IF x + 1 = Capacity THEN 0 ELSE x + 1
  BY AddDoes, HealthAssumption
<1>2. past[g] \in Seq(Results) /\ Len(past[g]) = n
  BY HistoryLength DEF HealthTypeOK
<1>3. past'[g] = Append(past[g], result[g])
  <2>1. Len(Append(past[g], result[g])) = n + 1 /\ n + 1 <= Capacity
    BY <1>1, <1>2
  <2>2. LastOf(Append(past[g], result[g])) = Append(past[g], result[g])
    BY <2>1 DEF LastOf
  <2>3. QED
    BY <2>2, AddDoes
<1>4. ASSUME NEW i \in 1 .. n + 1
      PROVE  past'[g][i] = ring'[g][PlaceInRing(y, n + 1, i)]
  <2>1. PlaceInRing(y, n + 1, i) \in Places
        /\ PlaceInRing(y, n + 1, i) = IF y - (n + 1) + i - 1 < 0 THEN y - (n + 1) + i - 1 + Capacity
                                      ELSE y - (n + 1) + i - 1
    <3>1. n + 1 \in 0 .. Capacity
      BY <1>1
    <3> DEFINE m == n + 1
    <3>2. y \in Places /\ m \in 0 .. Capacity /\ i \in 1 .. m
      BY <1>1, <3>1
    <3> HIDE DEF m, y
    <3>3. PlaceInRing(y, m, i) \in Places
          /\ PlaceInRing(y, m, i) = IF y - m + i - 1 < 0 THEN y - m + i - 1 + Capacity
                                    ELSE y - m + i - 1
      BY <3>2, PlaceIs
    <3>4. QED
      BY <3>3 DEF m
  <2>2. CASE i = n + 1
    <3>1. PlaceInRing(y, n + 1, i) = x
      <4> DEFINE p == PlaceInRing(y, n + 1, i)
      <4>1. p = IF y - 1 < 0 THEN y - 1 + Capacity ELSE y - 1
        <5>1. y - (n + 1) + i - 1 = y - 1
          BY <1>1, <2>2 DEF Places
        <5>2. QED
          BY <2>1, <5>1
      <4> HIDE DEF p, n, x, y
      <4>2. QED
        <5>1. p = x
          BY <1>1, <4>1 DEF Places
        <5>2. QED
          BY <5>1 DEF p
    <3>2. past'[g][i] = result[g]
      BY <1>2, <1>3, <2>2
    <3>3. QED
      BY <1>1, <3>1, <3>2, AddDoes
  <2>3. CASE i \in 1 .. n
    <3>1. PlaceInRing(x, n, i) \in Places
          /\ PlaceInRing(x, n, i) = IF x - n + i - 1 < 0 THEN x - n + i - 1 + Capacity
                                    ELSE x - n + i - 1
      <4> HIDE DEF n, x
      <4>1. QED
        BY <1>1, <2>3, PlaceIs
    <3>2. PlaceInRing(y, n + 1, i) = PlaceInRing(x, n, i) /\ PlaceInRing(x, n, i) # x
      BY <1>1, <2>1, <2>3, <3>1 DEF Places
    <3>3. past'[g][i] = past[g][i]
      BY <1>2, <1>3, <2>3
    <3>4. past[g][i] = ring[g][PlaceInRing(x, n, i)]
      BY <2>3 DEF Recent
    <3>5. QED
      BY <2>1, <3>2, <3>3, <3>4, AddDoes
  <2>4. QED
    BY <1>1, <2>2, <2>3
<1>5. past'[g] \in Seq(Results) /\ Len(past'[g]) = n + 1
  <2>1. result[g] \in Results
    BY DEF HealthTypeOK
  <2>2. QED
    BY <1>2, <1>3, <2>1
<1>6. past'[g] = [i \in 1 .. n + 1 |-> ring'[g][PlaceInRing(y, n + 1, i)]]
  <2> HIDE DEF n, y
  <2>1. QED
    BY <1>4, <1>5
<1>7. QED
  BY <1>1, <1>6 DEF Recent, PlaceInRing

\* One more result in a ring that is full: the oldest makes room.
LEMMA AddToFull ==
    ASSUME HealthTypeOK, NEW g \in Groups, Recent(g), Add(g), count[g] = Capacity
    PROVE  Recent(g)'
<1> DEFINE x == index[g]
           y == index'[g]
<1>1. /\ x \in Places /\ y \in Places
      /\ Capacity \in Nat \ {0} /\ count'[g] = Capacity
      /\ y = IF x + 1 = Capacity THEN 0 ELSE x + 1
  BY AddDoes, HealthAssumption
<1>2. past[g] \in Seq(Results) /\ Len(past[g]) = Capacity
  BY HistoryLength DEF HealthTypeOK
<1> DEFINE longer == Append(past[g], result[g])
<1>3. longer \in Seq(Results) /\ Len(longer) = Capacity + 1
      /\ longer[Capacity + 1] = result[g]
      /\ \A i \in 1 .. Capacity : longer[i] = past[g][i]
  <2>1. result[g] \in Results
    BY DEF HealthTypeOK
  <2>2. QED
    BY <1>1, <1>2, <2>1
<1>4. past'[g] = Tail(longer)
  <2>1. ~(Len(longer) <= Capacity)
    BY <1>1, <1>3
  <2>2. LastOf(longer) = Tail(longer)
    BY <2>1 DEF LastOf
  <2>3. QED
    BY <2>2, AddDoes
<1>5. past'[g] \in Seq(Results) /\ Len(past'[g]) = Capacity
      /\ \A i \in 1 .. Capacity : past'[g][i] = longer[i + 1]
  <2> HIDE DEF longer
  <2>1. longer # <<>>
    BY <1>1, <1>3
  <2>2. QED
    BY <1>1, <1>3, <1>4, <2>1
<1>6. ASSUME NEW i \in 1 .. Capacity
      PROVE  past'[g][i] = ring'[g][PlaceInRing(y, Capacity, i)]
  <2>1. PlaceInRing(y, Capacity, i) \in Places
        /\ PlaceInRing(y, Capacity, i) = IF y - Capacity + i - 1 < 0 THEN y + i - 1
                                         ELSE y - Capacity + i - 1
    <3> HIDE DEF y
    <3>1. Capacity \in 0 .. Capacity
      BY <1>1
    <3>2. PlaceInRing(y, Capacity, i) \in Places
          /\ PlaceInRing(y, Capacity, i) = IF y - Capacity + i - 1 < 0
                                           THEN y - Capacity + i - 1 + Capacity
                                           ELSE y - Capacity + i - 1
      BY <1>1, <3>1, PlaceIs
    <3>3. QED
      BY <1>1, <3>2 DEF Places
  <2>2. CASE i = Capacity
    <3>1. PlaceInRing(y, Capacity, i) = x
      BY <1>1, <2>1, <2>2 DEF Places
    <3>2. past'[g][i] = result[g]
      BY <1>3, <1>5, <2>2
    <3>3. QED
      BY <1>1, <3>1, <3>2, AddDoes
  <2>3. CASE i < Capacity
    <3>1. i + 1 \in 1 .. Capacity
      BY <1>1, <2>3
    <3>2. PlaceInRing(x, Capacity, i + 1) = IF x - Capacity + i < 0 THEN x + i
                                            ELSE x - Capacity + i
      <4> DEFINE j == i + 1
      <4>1. x \in Places /\ Capacity \in 0 .. Capacity /\ j \in 1 .. Capacity
        BY <1>1, <3>1
      <4> HIDE DEF x, j
      <4>2. PlaceInRing(x, Capacity, j) = IF x - Capacity + j - 1 < 0
                                          THEN x - Capacity + j - 1 + Capacity
                                          ELSE x - Capacity + j - 1
        BY <4>1, PlaceIs
      <4>3. QED
        BY <1>1, <4>1, <4>2 DEF j, Places
    <3>3. PlaceInRing(y, Capacity, i) = PlaceInRing(x, Capacity, i + 1)
          /\ PlaceInRing(y, Capacity, i) # x
      BY <1>1, <2>1, <2>3, <3>2 DEF Places
    <3>4. past'[g][i] = past[g][i + 1]
      BY <1>3, <1>5, <3>1
    <3>5. past[g][i + 1] = ring[g][PlaceInRing(x, Capacity, i + 1)]
      BY <3>1 DEF Recent
    <3>6. QED
      BY <2>1, <3>3, <3>4, <3>5, AddDoes
  <2>4. QED
    BY <1>1, <2>2, <2>3
<1>7. past'[g] = [i \in 1 .. Capacity |-> ring'[g][PlaceInRing(y, Capacity, i)]]
  <2> HIDE DEF y
  <2>1. QED
    BY <1>5, <1>6
<1>8. QED
  BY <1>1, <1>7 DEF Recent, PlaceInRing

\* Every step keeps the history right.
LEMMA HistoryStep == HealthTypeOK /\ HistoryIsRecent /\ [HealthNext]_healthVars => HistoryIsRecent'
<1> SUFFICES ASSUME HealthTypeOK, HistoryIsRecent, [HealthNext]_healthVars PROVE HistoryIsRecent'
  OBVIOUS
<1>1. \A g \in Groups : Recent(g)
  BY DEF HistoryIsRecent, Recent, PlaceInRing
<1>2. SUFFICES \A g \in Groups : Recent(g)'
  BY DEF HistoryIsRecent, Recent, PlaceInRing
<1>3. CASE UNCHANGED historyVars
  BY <1>1, <1>3 DEF historyVars, Recent
<1>4. CASE CreateFirst
  <2>1. caller.group \in Groups
    BY <1>4, CallerGroup DEF CreateFirst
  <2>2. ASSUME NEW g \in Groups, g = caller.group PROVE Recent(g)'
    <3>1. past'[g] = <<>> /\ count'[g] = 0
      BY <1>4, <2>2 DEF CreateFirst, Create, HealthTypeOK
    <3>2. QED
      BY <3>1 DEF Recent
  <2>3. ASSUME NEW g \in Groups, g # caller.group PROVE Recent(g)'
    <3>1. UNCHANGED <<past[g], count[g], ring[g], index[g]>>
      BY <1>4, <2>1, <2>3 DEF CreateFirst, Create, HealthTypeOK
    <3>2. QED
      BY <1>1, <3>1 DEF Recent
  <2>4. QED
    BY <2>2, <2>3
<1>5. ASSUME NEW g \in Groups, Add(g) PROVE \A h \in Groups : Recent(h)'
  <2>1. Recent(g)'
    <3>1. count[g] < Capacity \/ count[g] = Capacity
      BY HealthAssumption DEF HealthTypeOK
    <3>2. QED
      BY <1>1, <1>5, <3>1, AddToPart, AddToFull
  <2>2. ASSUME NEW h \in Groups, h # g PROVE Recent(h)'
    <3>1. UNCHANGED <<past[h], count[h], ring[h], index[h]>>
      BY <1>5, <2>2 DEF Add, HealthTypeOK
    <3>2. QED
      BY <1>1, <3>1 DEF Recent
  <2>3. QED
    BY <2>1, <2>2
<1>6. ASSUME NEW g \in Groups, ThreadStep(g), ~Add(g) PROVE UNCHANGED historyVars
  BY <1>6 DEF ThreadStep, Look, NotYet, Checks, CheckServer, CountSuccess, CountFailure
<1>7. CASE CreateFails \/ TellToStop \/ Joined \/ UNCHANGED healthVars
           \/ \E g \in Groups : Start(g) \/ Stop(g)
  BY <1>3, <1>7 DEF CreateFails, TellToStop, Joined, Start, Stop, healthVars
<1>8. QED
  BY <1>3, <1>4, <1>5, <1>6, <1>7 DEF HealthNext, CallerStep

\* The inductive invariant holds in every reachable state.
THEOREM Invariance == HealthSpec => []IInv
<1>1. IInv /\ [HealthNext]_healthVars => IInv'
  BY TypeStep, ThreadsStep, HistoryStep DEF IInv
<1>2. QED
  BY InitInv, <1>1, PTL DEF HealthSpec

\* For every rise and fall the shared counters stay below them, although the
\* threads of all groups load and store them without a lock.
THEOREM TypeCorrect == HealthSpec => []HealthTypeOK
BY Invariance, PTL DEF IInv

\* For any number of groups and any order of starts and stops: where there is a
\* thread there is the manager it uses.
THEOREM ThreadsHaveManagers == HealthSpec => []NoThreadLeft
BY Invariance, PTL DEF IInv

\* For every capacity and any number of laps the ring, read from its index and
\* count, lists exactly the last results, oldest first.
THEOREM RingListsLastResults == HealthSpec => []HistoryIsRecent
BY Invariance, PTL DEF IInv
=============================================================================
