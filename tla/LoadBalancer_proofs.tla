------------------------ MODULE LoadBalancer_proofs ------------------------
(***************************************************************************)
(* Theorems of LoadBalancer, for every number of servers and threads and   *)
(* every strategy.                                                         *)
(***************************************************************************)
EXTENDS LoadBalancer, FiniteSetTheorems, TLAPS

\* A walk round the list: on the first lap current_index is the place of the
\* server; from the end of the list on it runs one ahead.
WalkInv ==
    Circular /\ mutex # None =>
        /\ start[1] = start[2]
        /\ \/ idx = pos /\ start[1] <= pos
           \/ pos = N /\ idx = 0
           \/ pos < N /\ idx = (pos + 1) % N

IInv == TypeOK /\ ServerChosen /\ LockInv /\ WalkInv

\* The next index of the circular walk stays among the servers.
LEMMA NextIndex ==
    ASSUME NEW x \in 0 .. N - 1
    PROVE  (x + 1) % N = IF x + 1 = N THEN 0 ELSE x + 1
<1>1. N \in Nat \ {0}
  BY LBAssumption
<1>2. CASE x + 1 = N
  BY <1>1, <1>2
<1>3. CASE x + 1 < N
  BY <1>1, <1>3
<1>4. QED
  BY <1>1, <1>2, <1>3

\* What the walks compute with places and indices stays in range.
LEMMA Places ==
    /\ N \in Nat /\ 0 \in Pos /\ Pos \subseteq Nat
    /\ \A p \in 0 .. N : p # NULL => p \in Pos
    /\ \A p \in Pos : p \in 0 .. N /\ p + 1 \in 0 .. N /\ (p + 1) % N \in Pos
<1>1. \A p \in Pos : (p + 1) % N \in Pos
  <2> SUFFICES ASSUME NEW p \in Pos PROVE (p + 1) % N \in Pos
    OBVIOUS
  <2>1. (p + 1) % N = IF p + 1 = N THEN 0 ELSE p + 1
    BY NextIndex DEF Pos
  <2>2. QED
    BY <2>1, LBAssumption DEF Pos
<1>2. QED
  BY <1>1, LBAssumption DEF Pos, NULL

\* The initial states satisfy the inductive invariant.
LEMMA InitInv == Init => IInv
<1> SUFFICES ASSUME Init PROVE IInv
  OBVIOUS
<1>1. TypeOK
  <2>1. GroupTypeOK
    <3>1. status \in [Pos -> {"UP", "DOWN", "UNKNOWN"}]
      <4>1. \A s \in Pos : status[s] \in {"UP", "DOWN", "UNKNOWN"}
        BY LBAssumption DEF Init
      <4>2. QED
        BY <4>1 DEF Init
    <3>2. since \in [Pos -> 0 .. FailTimeout]
      <4>1. FailTimeout \in 0 .. FailTimeout
        BY LBAssumption
      <4>2. QED
        BY <4>1 DEF Init
    <3>3. QED
      BY <3>1, <3>2, Places DEF Init, GroupTypeOK
  <2>2. WalkTypeOK
    BY Places, LBAssumption DEF Init, WalkTypeOK
  <2>3. ThreadTypeOK
    BY Places, LBAssumption DEF Init, ThreadTypeOK
  <2>4. QED
    BY <2>1, <2>2, <2>3 DEF TypeOK
<1>2. ServerChosen /\ LockInv /\ WalkInv
  BY LBAssumption DEF Init, ServerChosen, LockInv, WalkInv, Walking
<1>3. QED
  BY <1>1, <1>2 DEF IInv

\* Every step keeps the types of the group's own fields.
LEMMA GroupStep == TypeOK /\ ServerChosen /\ [Next]_vars => GroupTypeOK'
<1> SUFFICES ASSUME TypeOK /\ ServerChosen, [Next]_vars PROVE GroupTypeOK'
  OBVIOUS
<1> USE Places, LBAssumption DEF TypeOK, GroupTypeOK, ThreadTypeOK, WalkTypeOK, ServerChosen, Forgive, groupVars, Goto
<1>1. ASSUME NEW t \in Threads, Request(t) PROVE GroupTypeOK'
  BY <1>1 DEF Request
<1>2. ASSUME NEW t \in Threads, Lock(t) PROVE GroupTypeOK'
  BY <1>2 DEF Lock
<1>3. ASSUME NEW t \in Threads, CircularTakes(t) PROVE GroupTypeOK'
  <2>1. pos \in Pos /\ csi' \in Pos
    BY <1>3 DEF CircularTakes
  <2>2. fails' \in [Pos -> Nat]
    BY <2>1, <1>3 DEF CircularTakes
  <2>3. QED
    BY <2>1, <2>2, <1>3 DEF CircularTakes
<1>4. ASSUME NEW t \in Threads, CircularMoves(t) PROVE GroupTypeOK'
  BY <1>4 DEF CircularMoves
<1>5. ASSUME NEW t \in Threads, LeastLooks(t) PROVE GroupTypeOK'
  BY <1>5 DEF LeastLooks
<1>6. ASSUME NEW t \in Threads, LeastReturns(t) PROVE GroupTypeOK'
  BY <1>6 DEF LeastReturns
<1>7. ASSUME NEW t \in Threads, RandomCounts(t) PROVE GroupTypeOK'
  BY <1>7 DEF RandomCounts
<1>8. ASSUME NEW t \in Threads, RandomDraws(t) PROVE GroupTypeOK'
  BY <1>8 DEF RandomDraws
<1>9. ASSUME NEW t \in Threads, RandomSkips(t) PROVE GroupTypeOK'
  BY <1>9 DEF RandomSkips
<1>10. ASSUME NEW t \in Threads, RandomTakes(t) PROVE GroupTypeOK'
  <2>1. fails' \in [Pos -> Nat]
    BY <1>10 DEF RandomTakes
  <2>2. QED
    BY <2>1, <1>10 DEF RandomTakes
<1>11. ASSUME NEW t \in Threads, Check(t) PROVE GroupTypeOK'
  BY <1>11 DEF Check
<1>12. ASSUME NEW t \in Threads, ConnectFails(t) PROVE GroupTypeOK'
  BY <1>12 DEF ConnectFails
<1>13. ASSUME NEW t \in Threads, ConnectSucceeds(t) PROVE GroupTypeOK'
  BY <1>13 DEF ConnectSucceeds
<1>14. ASSUME NEW t \in Threads, CountUp(t) PROVE GroupTypeOK'
  <2>1. srv[t] \in Pos /\ (reg[t] + 1) \in Nat
    BY <1>14 DEF CountUp
  <2>2. conns' \in [Pos -> Nat]
    BY <2>1, <1>14 DEF CountUp
  <2>3. QED
    BY <2>2, <1>14 DEF CountUp
<1>15. ASSUME NEW t \in Threads, SendFails(t) PROVE GroupTypeOK'
  BY <1>15 DEF SendFails
<1>16. ASSUME NEW t \in Threads, SendSucceeds(t) PROVE GroupTypeOK'
  BY <1>16 DEF SendSucceeds
<1>17. ASSUME NEW t \in Threads, ForwardSucceeds(t) PROVE GroupTypeOK'
  BY <1>17 DEF ForwardSucceeds
<1>18. ASSUME NEW t \in Threads, ForwardFails(t) PROVE GroupTypeOK'
  BY <1>18 DEF ForwardFails
<1>19. ASSUME NEW t \in Threads, Blame(t) PROVE GroupTypeOK'
  <2>1. srv[t] \in Pos /\ (reg[t] + 1) \in Nat
    BY <1>19 DEF Blame
  <2>2. fails' \in [Pos -> Nat]
    BY <2>1, <1>19 DEF Blame
  <2>3. QED
    BY <2>2, <2>1, <1>19 DEF Blame
<1>20. ASSUME NEW t \in Threads, Close(t) PROVE GroupTypeOK'
  BY <1>20 DEF Close
<1>21. ASSUME NEW t \in Threads, CountDown(t) PROVE GroupTypeOK'
  <2>1. srv[t] \in Pos /\ (IF reg[t] > 0 THEN reg[t] - 1 ELSE 0) \in Nat
    BY <1>21 DEF CountDown, End
  <2>2. conns' \in [Pos -> Nat]
    BY <2>1, <1>21 DEF CountDown, End
  <2>3. QED
    BY <2>2, <1>21 DEF CountDown, End
<1>22. CASE Tick
  <2>1. \A s \in Pos : since[s] < FailTimeout => since[s] + 1 \in 0 .. FailTimeout
    BY LBAssumption
  <2>2. since' \in [Pos -> 0 .. FailTimeout]
    BY <2>1, <1>22 DEF Tick
  <2>3. QED
    BY <2>2, <1>22 DEF Tick
<1>23. ASSUME NEW s \in Pos, SetStatus(s) PROVE GroupTypeOK'
  BY <1>23 DEF SetStatus
<1>24. CASE UNCHANGED vars
  BY <1>24 DEF vars, setup
<1> HIDE DEF TypeOK, GroupTypeOK, ThreadTypeOK, WalkTypeOK, ServerChosen, Forgive, groupVars, Goto
<1>25. QED
  BY <1>1, <1>2, <1>3, <1>4, <1>5, <1>6, <1>7, <1>8, <1>9, <1>10, <1>11, <1>12, <1>13, <1>14, <1>15, <1>16, <1>17, <1>18, <1>19, <1>20, <1>21, <1>22, <1>23, <1>24 DEF Next, Select, Proxy

\* Every step keeps the types of the walk's locals.
LEMMA WalkStep == TypeOK /\ [Next]_vars => WalkTypeOK'
<1> SUFFICES ASSUME TypeOK, [Next]_vars PROVE WalkTypeOK'
  OBVIOUS
<1> USE Places, LBAssumption DEF TypeOK, GroupTypeOK, WalkTypeOK, walkVars, Return, EndWalk
<1>1. ASSUME NEW t \in Threads, Request(t) PROVE WalkTypeOK'
  BY <1>1 DEF Request
<1>2. ASSUME NEW t \in Threads, Lock(t) PROVE WalkTypeOK'
  <2>1. PICK at \in Pos : pos' = at /\ idx' = at /\ start' = <<at, at>>
    BY <1>2 DEF Lock
  <2>2. QED
    BY <2>1, <1>2 DEF Lock
<1>3. ASSUME NEW t \in Threads, CircularTakes(t) PROVE WalkTypeOK'
  BY <1>3 DEF CircularTakes
<1>4. ASSUME NEW t \in Threads, CircularMoves(t) PROVE WalkTypeOK'
  <2>1. NextPos \in 0 .. N
    BY DEF NextPos
  <2>2. NextIdx \in Pos
    BY DEF NextIdx
  <2>3. QED
    BY <2>1, <2>2, <1>4 DEF CircularMoves
<1>5. ASSUME NEW t \in Threads, LeastLooks(t) PROVE WalkTypeOK'
  <2>1. pos \in Pos /\ conns[pos] \in Nat
    BY <1>5 DEF LeastLooks
  <2>2. QED
    BY <2>1, <1>5 DEF LeastLooks
<1>6. ASSUME NEW t \in Threads, LeastReturns(t) PROVE WalkTypeOK'
  BY <1>6 DEF LeastReturns
<1>7. ASSUME NEW t \in Threads, RandomCounts(t) PROVE WalkTypeOK'
  BY <1>7 DEF RandomCounts
<1>8. ASSUME NEW t \in Threads, RandomDraws(t) PROVE WalkTypeOK'
  <2>1. CASE acc = 0
    BY <2>1, <1>8 DEF RandomDraws
  <2>2. CASE acc # 0
    <3>1. \A a \in 0 .. acc - 1 : a \in Nat
      OBVIOUS
    <3>2. QED
      BY <3>1, <2>2, <1>8 DEF RandomDraws
  <2>3. QED
    BY <2>1, <2>2
<1>9. ASSUME NEW t \in Threads, RandomSkips(t) PROVE WalkTypeOK'
  BY <1>9 DEF RandomSkips
<1>10. ASSUME NEW t \in Threads, RandomTakes(t) PROVE WalkTypeOK'
  BY <1>10 DEF RandomTakes
<1>11. ASSUME NEW t \in Threads, Check(t) PROVE WalkTypeOK'
  BY <1>11 DEF Check
<1>12. ASSUME NEW t \in Threads, ConnectFails(t) PROVE WalkTypeOK'
  BY <1>12 DEF ConnectFails
<1>13. ASSUME NEW t \in Threads, ConnectSucceeds(t) PROVE WalkTypeOK'
  BY <1>13 DEF ConnectSucceeds
<1>14. ASSUME NEW t \in Threads, CountUp(t) PROVE WalkTypeOK'
  BY <1>14 DEF CountUp
<1>15. ASSUME NEW t \in Threads, SendFails(t) PROVE WalkTypeOK'
  BY <1>15 DEF SendFails
<1>16. ASSUME NEW t \in Threads, SendSucceeds(t) PROVE WalkTypeOK'
  BY <1>16 DEF SendSucceeds
<1>17. ASSUME NEW t \in Threads, ForwardSucceeds(t) PROVE WalkTypeOK'
  BY <1>17 DEF ForwardSucceeds
<1>18. ASSUME NEW t \in Threads, ForwardFails(t) PROVE WalkTypeOK'
  BY <1>18 DEF ForwardFails
<1>19. ASSUME NEW t \in Threads, Blame(t) PROVE WalkTypeOK'
  BY <1>19 DEF Blame
<1>20. ASSUME NEW t \in Threads, Close(t) PROVE WalkTypeOK'
  BY <1>20 DEF Close
<1>21. ASSUME NEW t \in Threads, CountDown(t) PROVE WalkTypeOK'
  BY <1>21 DEF CountDown
<1>22. CASE Tick
  BY <1>22 DEF Tick
<1>23. ASSUME NEW s \in Pos, SetStatus(s) PROVE WalkTypeOK'
  BY <1>23 DEF SetStatus
<1>24. CASE UNCHANGED vars
  BY <1>24 DEF vars, setup
<1> HIDE DEF TypeOK, GroupTypeOK, WalkTypeOK, walkVars, Return, EndWalk
<1>25. QED
  BY <1>1, <1>2, <1>3, <1>4, <1>5, <1>6, <1>7, <1>8, <1>9, <1>10, <1>11, <1>12, <1>13, <1>14, <1>15, <1>16, <1>17, <1>18, <1>19, <1>20, <1>21, <1>22, <1>23, <1>24 DEF Next, Select, Proxy

\* The strategy and the health checks are configuration: no step changes them.
LEMMA StrategyKept == [Next]_vars => strategy' = strategy /\ checked' = checked
BY DEF Next, Request, Lock, Select, Proxy, Tick, SetStatus, vars, setup

\* Every step keeps the types of the mutex and the threads.
LEMMA ThreadStep == TypeOK /\ ServerChosen /\ [Next]_vars => ThreadTypeOK'
<1> SUFFICES ASSUME TypeOK /\ ServerChosen, [Next]_vars PROVE ThreadTypeOK'
  OBVIOUS
<1> USE Places, LBAssumption DEF TypeOK, GroupTypeOK, WalkTypeOK, ThreadTypeOK, ServerChosen, Counted, threadVars, Goto, End, Return
<1>0. strategy' = strategy
  BY StrategyKept
<1> USE <1>0
<1>1. ASSUME NEW t \in Threads, Request(t) PROVE ThreadTypeOK'
  BY <1>1 DEF Request
<1>2. ASSUME NEW t \in Threads, Lock(t) PROVE ThreadTypeOK'
  BY <1>2 DEF Lock
<1>3. ASSUME NEW t \in Threads, CircularTakes(t) PROVE ThreadTypeOK'
  BY <1>3 DEF CircularTakes
<1>4. ASSUME NEW t \in Threads, CircularMoves(t) PROVE ThreadTypeOK'
  BY <1>4 DEF CircularMoves
<1>5. ASSUME NEW t \in Threads, LeastLooks(t) PROVE ThreadTypeOK'
  BY <1>5 DEF LeastLooks
<1>6. ASSUME NEW t \in Threads, LeastReturns(t) PROVE ThreadTypeOK'
  BY <1>6 DEF LeastReturns
<1>7. ASSUME NEW t \in Threads, RandomCounts(t) PROVE ThreadTypeOK'
  BY <1>7 DEF RandomCounts
<1>8. ASSUME NEW t \in Threads, RandomDraws(t) PROVE ThreadTypeOK'
  BY <1>8 DEF RandomDraws
<1>9. ASSUME NEW t \in Threads, RandomSkips(t) PROVE ThreadTypeOK'
  BY <1>9 DEF RandomSkips
<1>10. ASSUME NEW t \in Threads, RandomTakes(t) PROVE ThreadTypeOK'
  BY <1>10 DEF RandomTakes
<1>11. ASSUME NEW t \in Threads, Check(t) PROVE ThreadTypeOK'
  BY <1>11 DEF Check
<1>12. ASSUME NEW t \in Threads, ConnectFails(t) PROVE ThreadTypeOK'
  BY <1>12 DEF ConnectFails
<1>13. ASSUME NEW t \in Threads, ConnectSucceeds(t) PROVE ThreadTypeOK'
  BY <1>13 DEF ConnectSucceeds
<1>14. ASSUME NEW t \in Threads, CountUp(t) PROVE ThreadTypeOK'
  BY <1>14 DEF CountUp
<1>15. ASSUME NEW t \in Threads, SendFails(t) PROVE ThreadTypeOK'
  BY <1>15 DEF SendFails
<1>16. ASSUME NEW t \in Threads, SendSucceeds(t) PROVE ThreadTypeOK'
  BY <1>16 DEF SendSucceeds
<1>17. ASSUME NEW t \in Threads, ForwardSucceeds(t) PROVE ThreadTypeOK'
  BY <1>17 DEF ForwardSucceeds
<1>18. ASSUME NEW t \in Threads, ForwardFails(t) PROVE ThreadTypeOK'
  BY <1>18 DEF ForwardFails
<1>19. ASSUME NEW t \in Threads, Blame(t) PROVE ThreadTypeOK'
  BY <1>19 DEF Blame
<1>20. ASSUME NEW t \in Threads, Close(t) PROVE ThreadTypeOK'
  BY <1>20 DEF Close
<1>21. ASSUME NEW t \in Threads, CountDown(t) PROVE ThreadTypeOK'
  BY <1>21 DEF CountDown
<1>22. CASE Tick
  BY <1>22 DEF Tick
<1>23. ASSUME NEW s \in Pos, SetStatus(s) PROVE ThreadTypeOK'
  BY <1>23 DEF SetStatus
<1>24. CASE UNCHANGED vars
  BY <1>24 DEF vars, setup
<1> HIDE DEF TypeOK, GroupTypeOK, WalkTypeOK, ThreadTypeOK, ServerChosen, Counted, threadVars, Goto, End, Return
<1>25. QED
  BY <1>1, <1>2, <1>3, <1>4, <1>5, <1>6, <1>7, <1>8, <1>9, <1>10, <1>11, <1>12, <1>13, <1>14, <1>15, <1>16, <1>17, <1>18, <1>19, <1>20, <1>21, <1>22, <1>23, <1>24 DEF Next, Select, Proxy

\* Every step leaves each thread past its selection with a server.
LEMMA ChosenStep == TypeOK /\ ServerChosen /\ [Next]_vars => ServerChosen'
<1> SUFFICES ASSUME TypeOK /\ ServerChosen, [Next]_vars PROVE ServerChosen'
  OBVIOUS
<1> USE Places, LBAssumption DEF TypeOK, WalkTypeOK, ThreadTypeOK, ServerChosen, Counted, threadVars, Goto, End, Return
<1>1. ASSUME NEW t \in Threads, Request(t) PROVE ServerChosen'
  BY <1>1 DEF Request
<1>2. ASSUME NEW t \in Threads, Lock(t) PROVE ServerChosen'
  BY <1>2 DEF Lock
<1>3. ASSUME NEW t \in Threads, CircularTakes(t) PROVE ServerChosen'
  BY <1>3 DEF CircularTakes
<1>4. ASSUME NEW t \in Threads, CircularMoves(t) PROVE ServerChosen'
  BY <1>4 DEF CircularMoves
<1>5. ASSUME NEW t \in Threads, LeastLooks(t) PROVE ServerChosen'
  BY <1>5 DEF LeastLooks
<1>6. ASSUME NEW t \in Threads, LeastReturns(t) PROVE ServerChosen'
  BY <1>6 DEF LeastReturns
<1>7. ASSUME NEW t \in Threads, RandomCounts(t) PROVE ServerChosen'
  BY <1>7 DEF RandomCounts
<1>8. ASSUME NEW t \in Threads, RandomDraws(t) PROVE ServerChosen'
  BY <1>8 DEF RandomDraws
<1>9. ASSUME NEW t \in Threads, RandomSkips(t) PROVE ServerChosen'
  BY <1>9 DEF RandomSkips
<1>10. ASSUME NEW t \in Threads, RandomTakes(t) PROVE ServerChosen'
  BY <1>10 DEF RandomTakes
<1>11. ASSUME NEW t \in Threads, Check(t) PROVE ServerChosen'
  BY <1>11 DEF Check
<1>12. ASSUME NEW t \in Threads, ConnectFails(t) PROVE ServerChosen'
  BY <1>12 DEF ConnectFails
<1>13. ASSUME NEW t \in Threads, ConnectSucceeds(t) PROVE ServerChosen'
  BY <1>13 DEF ConnectSucceeds
<1>14. ASSUME NEW t \in Threads, CountUp(t) PROVE ServerChosen'
  BY <1>14 DEF CountUp
<1>15. ASSUME NEW t \in Threads, SendFails(t) PROVE ServerChosen'
  BY <1>15 DEF SendFails
<1>16. ASSUME NEW t \in Threads, SendSucceeds(t) PROVE ServerChosen'
  BY <1>16 DEF SendSucceeds
<1>17. ASSUME NEW t \in Threads, ForwardSucceeds(t) PROVE ServerChosen'
  BY <1>17 DEF ForwardSucceeds
<1>18. ASSUME NEW t \in Threads, ForwardFails(t) PROVE ServerChosen'
  BY <1>18 DEF ForwardFails
<1>19. ASSUME NEW t \in Threads, Blame(t) PROVE ServerChosen'
  BY <1>19 DEF Blame
<1>20. ASSUME NEW t \in Threads, Close(t) PROVE ServerChosen'
  BY <1>20 DEF Close
<1>21. ASSUME NEW t \in Threads, CountDown(t) PROVE ServerChosen'
  BY <1>21 DEF CountDown
<1>22. CASE Tick
  BY <1>22 DEF Tick
<1>23. ASSUME NEW s \in Pos, SetStatus(s) PROVE ServerChosen'
  BY <1>23 DEF SetStatus
<1>24. CASE UNCHANGED vars
  BY <1>24 DEF vars, setup
<1> HIDE DEF TypeOK, WalkTypeOK, ThreadTypeOK, ServerChosen, Counted, threadVars, Goto, End, Return
<1>25. QED
  BY <1>1, <1>2, <1>3, <1>4, <1>5, <1>6, <1>7, <1>8, <1>9, <1>10, <1>11, <1>12, <1>13, <1>14, <1>15, <1>16, <1>17, <1>18, <1>19, <1>20, <1>21, <1>22, <1>23, <1>24 DEF Next, Select, Proxy

\* Every step keeps the mutex with the thread that walks.
LEMMA LockStep == TypeOK /\ LockInv /\ [Next]_vars => LockInv'
<1> SUFFICES ASSUME TypeOK /\ LockInv, [Next]_vars PROVE LockInv'
  OBVIOUS
<1> USE LBAssumption DEF TypeOK, ThreadTypeOK, LockInv, Counted, threadVars, Goto, End, Return, Walking
<1>1. ASSUME NEW t \in Threads, Request(t) PROVE LockInv'
  BY <1>1 DEF Request
<1>2. ASSUME NEW t \in Threads, Lock(t) PROVE LockInv'
  BY <1>2 DEF Lock
<1>3. ASSUME NEW t \in Threads, CircularTakes(t) PROVE LockInv'
  BY <1>3 DEF CircularTakes
<1>4. ASSUME NEW t \in Threads, CircularMoves(t) PROVE LockInv'
  BY <1>4 DEF CircularMoves
<1>5. ASSUME NEW t \in Threads, LeastLooks(t) PROVE LockInv'
  BY <1>5 DEF LeastLooks
<1>6. ASSUME NEW t \in Threads, LeastReturns(t) PROVE LockInv'
  BY <1>6 DEF LeastReturns
<1>7. ASSUME NEW t \in Threads, RandomCounts(t) PROVE LockInv'
  BY <1>7 DEF RandomCounts
<1>8. ASSUME NEW t \in Threads, RandomDraws(t) PROVE LockInv'
  BY <1>8 DEF RandomDraws
<1>9. ASSUME NEW t \in Threads, RandomSkips(t) PROVE LockInv'
  BY <1>9 DEF RandomSkips
<1>10. ASSUME NEW t \in Threads, RandomTakes(t) PROVE LockInv'
  BY <1>10 DEF RandomTakes
<1>11. ASSUME NEW t \in Threads, Check(t) PROVE LockInv'
  BY <1>11 DEF Check
<1>12. ASSUME NEW t \in Threads, ConnectFails(t) PROVE LockInv'
  BY <1>12 DEF ConnectFails
<1>13. ASSUME NEW t \in Threads, ConnectSucceeds(t) PROVE LockInv'
  BY <1>13 DEF ConnectSucceeds
<1>14. ASSUME NEW t \in Threads, CountUp(t) PROVE LockInv'
  BY <1>14 DEF CountUp
<1>15. ASSUME NEW t \in Threads, SendFails(t) PROVE LockInv'
  BY <1>15 DEF SendFails
<1>16. ASSUME NEW t \in Threads, SendSucceeds(t) PROVE LockInv'
  BY <1>16 DEF SendSucceeds
<1>17. ASSUME NEW t \in Threads, ForwardSucceeds(t) PROVE LockInv'
  BY <1>17 DEF ForwardSucceeds
<1>18. ASSUME NEW t \in Threads, ForwardFails(t) PROVE LockInv'
  BY <1>18 DEF ForwardFails
<1>19. ASSUME NEW t \in Threads, Blame(t) PROVE LockInv'
  BY <1>19 DEF Blame
<1>20. ASSUME NEW t \in Threads, Close(t) PROVE LockInv'
  BY <1>20 DEF Close
<1>21. ASSUME NEW t \in Threads, CountDown(t) PROVE LockInv'
  BY <1>21 DEF CountDown
<1>22. CASE Tick
  BY <1>22 DEF Tick
<1>23. ASSUME NEW s \in Pos, SetStatus(s) PROVE LockInv'
  BY <1>23 DEF SetStatus
<1>24. CASE UNCHANGED vars
  BY <1>24 DEF vars, setup
<1> HIDE DEF TypeOK, ThreadTypeOK, LockInv, Counted, threadVars, Goto, End, Return, Walking
<1>25. QED
  BY <1>1, <1>2, <1>3, <1>4, <1>5, <1>6, <1>7, <1>8, <1>9, <1>10, <1>11, <1>12, <1>13, <1>14, <1>15, <1>16, <1>17, <1>18, <1>19, <1>20, <1>21, <1>22, <1>23, <1>24 DEF Next, Select, Proxy

\* Every step keeps the index of a circular walk ahead of its server.
LEMMA LapStep == TypeOK /\ LockInv /\ WalkInv /\ [Next]_vars => WalkInv'
<1> SUFFICES ASSUME TypeOK, LockInv, WalkInv, [Next]_vars PROVE WalkInv'
  OBVIOUS
<1>0. strategy' = strategy
  BY StrategyKept
<1>1. CASE UNCHANGED <<mutex, walkVars>>
  BY <1>0, <1>1 DEF WalkInv, walkVars, Circular
<1>2. CASE mutex' = None
  BY <1>2 DEF WalkInv
<1>3. CASE ~Circular
  BY <1>0, <1>3 DEF WalkInv, Circular
<1>4. ASSUME NEW t \in Threads, Lock(t) PROVE WalkInv'
  BY <1>4, Places DEF Lock, WalkInv, Circular
<1>5. ASSUME NEW t \in Threads, CircularMoves(t), mutex' # None PROVE WalkInv'
  <2>1. mutex = t /\ mutex # None /\ Circular
    BY <1>5, LBAssumption DEF CircularMoves, LockInv, Walking
  <2>2. pos' = NextPos /\ idx' = NextIdx /\ start' = start
    BY <1>5 DEF CircularMoves, Return
  <2>3. start[1] \in Pos /\ pos \in 0 .. N /\ idx \in Pos
    BY DEF TypeOK, WalkTypeOK
  <2>4. CASE pos = N
    BY <2>2, <2>4, LBAssumption, <2>1, <2>3 DEF NextPos, NextIdx, WalkInv, NULL, Pos
  <2>5. CASE pos # N /\ pos + 1 = N
    BY <2>1, <2>2, <2>3, <2>5, LBAssumption DEF NextPos, NextIdx, WalkInv, NULL, Pos
  <2>6. CASE pos # N /\ pos + 1 # N
    <3>1. pos + 1 \in Pos /\ (pos + 1) % N = pos + 1
      BY <2>3, <2>6, NextIndex, Places DEF Pos
    <3>2. NextPos = pos + 1 /\ NextIdx = (idx + 1) % N
      BY <2>3, <2>6, LBAssumption DEF NextPos, NextIdx, NULL
    <3>3. QED
      BY <2>1, <2>2, <2>3, <2>6, <3>1, <3>2, LBAssumption DEF WalkInv, Pos
  <2>7. QED
    BY <2>4, <2>5, <2>6
<1>6. QED
  <2>1. ASSUME NEW t \in Threads, Request(t) \/ Proxy(t) PROVE WalkInv'
    BY <1>1, <2>1 DEF Request, Proxy, Check, ConnectFails, ConnectSucceeds, CountUp, SendFails,
       SendSucceeds, ForwardSucceeds, ForwardFails, Blame, Close, CountDown
  <2>2. ASSUME NEW t \in Threads, Select(t), ~CircularMoves(t) PROVE WalkInv'
    BY <1>2, <1>3, <2>2 DEF Select, CircularTakes, LeastLooks, LeastReturns, RandomCounts,
       RandomDraws, RandomSkips, RandomTakes, Circular, Return, WalkInv
  <2>3. QED
    BY <1>1, <1>2, <1>4, <1>5, <2>1, <2>2 DEF Next, Tick, SetStatus, vars, setup, Select

\* The inductive invariant is preserved by every step.
LEMMA InvStep == IInv /\ [Next]_vars => IInv'
BY GroupStep, WalkStep, ThreadStep, ChosenStep, LockStep, LapStep DEF IInv, TypeOK

\* The inductive invariant holds in every reachable state.
THEOREM Invariance == Spec => []IInv
<1>1. Init => IInv
  BY InitInv
<1>2. IInv /\ [Next]_vars => IInv'
  BY InvStep
<1>3. QED
  BY <1>1, <1>2, PTL DEF Spec

\* Every variable keeps its type, whatever the threads interleave.
THEOREM TypeCorrect == Spec => []TypeOK
BY Invariance, PTL DEF IInv

\* The mutex of the group is held by exactly the thread that walks its list,
\* for any number of threads and each of the four strategies.
THEOREM MutexHeldByWalker == Spec => []LockInv
BY Invariance, PTL DEF IInv

\* With two servers or more, a walk of lb_round_robin or lb_ip_hash returns a
\* server or goes on: it never answers NULL.
NeverGivesUp ==
    [][Circular /\ N > 1 =>
        \A t \in Threads : pc[t] = "walk" => pc'[t] \in {"walk", "check"}]_vars

\* The give-up of a round-robin or hash selection, which the code has written
\* down (its last "return NULL"), is dead code for any number of servers (two or
\* more), threads and failures: past the end of the list current_index runs one
\* ahead of the server (WalkInv), which keeps the exit test of the loop false.
THEOREM SelectionNeverGivesUp == Spec => NeverGivesUp
<1> DEFINE Keeps == Circular /\ N > 1 =>
        \A t \in Threads : pc[t] = "walk" => pc'[t] \in {"walk", "check"}
<1>1. IInv /\ [Next]_vars => [Keeps]_vars
  <2> SUFFICES ASSUME IInv, Next, Circular, N > 1, NEW t \in Threads, pc[t] = "walk"
               PROVE  pc'[t] \in {"walk", "check"}
    BY DEF vars, setup
  <2> USE DEF IInv, TypeOK, ThreadTypeOK
  <2>1. mutex = t /\ mutex # None
    BY LBAssumption DEF LockInv, Walking
  <2>2. ASSUME NEW u \in Threads, u # t, Request(u) \/ Lock(u) \/ Select(u) \/ Proxy(u)
        PROVE  pc'[t] = pc[t]
    BY <2>2 DEF Request, Lock, Select, Proxy, CircularTakes, CircularMoves, LeastLooks,
       LeastReturns, RandomCounts, RandomDraws, RandomSkips, RandomTakes, Check,
       ConnectFails, ConnectSucceeds, CountUp, SendFails, SendSucceeds, ForwardSucceeds,
       ForwardFails, Blame, Close, CountDown, Goto, End, Return, threadVars
  <2>3. CASE CircularTakes(t)
    BY <2>3, Places, LBAssumption DEF CircularTakes, Return, WalkTypeOK
  <2>4. CASE CircularMoves(t)
    <3>1. start[1] \in Pos /\ pos \in 0 .. N /\ idx \in Pos /\ start \in Pos \X Pos
      BY DEF WalkTypeOK
    <3>2. <<NextPos, NextIdx>> # start
      <4>1. CASE pos = N
        <5>1. NextPos = 0 /\ NextIdx = 1
          BY <2>1, <3>1, <4>1, NextIndex, LBAssumption DEF WalkInv, NextPos, NextIdx, NULL, Pos
        <5>2. QED
          BY <5>1, <2>1 DEF WalkInv
      <4>2. CASE pos # N /\ pos + 1 = N
        BY <3>1, <4>2, LBAssumption DEF NextPos, NULL, Pos
      <4>3. CASE pos # N /\ pos + 1 # N
        <5>1. pos + 1 \in Pos /\ NextPos = pos + 1 /\ NextIdx = (idx + 1) % N
          BY <3>1, <4>3, LBAssumption DEF NextPos, NextIdx, NULL, Pos
        <5>2. CASE idx = pos /\ start[1] <= pos
          BY <3>1, <5>1, <5>2, LBAssumption DEF Pos
        <5>3. CASE idx = (pos + 1) % N
          <6>1. idx = pos + 1
            BY <3>1, <4>3, <5>3, NextIndex, LBAssumption DEF Pos
          <6>2. NextIdx # pos + 1
            BY <5>1, <6>1, NextIndex, LBAssumption DEF Pos
          <6>3. QED
            BY <5>1, <6>2, <2>1 DEF WalkInv
        <5>4. QED
          BY <2>1, <4>3, <5>2, <5>3 DEF WalkInv
      <4>4. QED
        BY <4>1, <4>2, <4>3
    <3>3. QED
      BY <2>4, <3>2 DEF CircularMoves
  <2>5. QED
    BY <2>2, <2>3, <2>4 DEF Next, Select, Proxy, Request, Lock, LeastLooks, LeastReturns,
       RandomCounts, RandomDraws, RandomSkips, RandomTakes, Check, ConnectFails,
       ConnectSucceeds, CountUp, SendFails, SendSucceeds, ForwardSucceeds, ForwardFails,
       Blame, Close, CountDown, Goto, End, Circular, Tick, SetStatus, threadVars
<1>2. QED
  BY Invariance, <1>1, PTL DEF Spec, NeverGivesUp

------------------------------------------------------------------------------
(* The program as it ships: a process handles its requests on one thread.  *)

OneThread == \E u : Threads = {u}

\* The connection counters, and the register between their load and store.
ConnInv ==
    \A t \in Threads :
        /\ \A s \in Pos : conns[s] = IF pc[t] \in Counted /\ srv[t] = s THEN 1 ELSE 0
        /\ pc[t] = "counting" => reg[t] = 0
        /\ pc[t] = "uncounting" => reg[t] = 1

\* A thread is the only one.
LEMMA Alone == ASSUME OneThread, NEW t \in Threads, NEW u \in Threads PROVE u = t
BY DEF OneThread

\* A step that leaves the counters alone and does not load one keeps ConnInv
\* when its thread stays on the same side of the counting.
LEMMA ConnsKept ==
    ASSUME OneThread, ConnInv, NEW t \in Threads, conns' = conns,
           pc'[t] \notin {"counting", "uncounting"},
           \/ pc[t] \notin Counted /\ pc'[t] \notin Counted
           \/ pc[t] \in Counted /\ pc'[t] \in Counted /\ srv'[t] = srv[t]
    PROVE  ConnInv'
<1>1. ASSUME NEW u \in Threads PROVE u = t
  BY Alone
<1>2. ASSUME NEW s \in Pos
      PROVE  conns'[s] = IF pc'[t] \in Counted /\ srv'[t] = s THEN 1 ELSE 0
  BY DEF ConnInv
<1>3. QED
  BY <1>1, <1>2 DEF ConnInv, Counted

\* Every step keeps the counters equal to the connections.
LEMMA ConnStep ==
    ASSUME OneThread, TypeOK, ServerChosen, ConnInv, [Next]_vars PROVE ConnInv'
<1> USE DEF TypeOK, GroupTypeOK, ThreadTypeOK
<1>1. CASE UNCHANGED <<conns, pc, srv, reg>>
  BY <1>1 DEF ConnInv
<1>2. ASSUME NEW t \in Threads, Request(t) \/ Lock(t) PROVE ConnInv'
  <2>1. pc[t] \notin Counted /\ pc'[t] \in {"want", "walk"} /\ conns' = conns
    BY <1>2 DEF Request, Lock, Goto, Counted, groupVars
  <2>2. QED
    BY <2>1, ConnsKept DEF Counted
<1>3. ASSUME NEW t \in Threads, Select(t), ~UNCHANGED <<conns, pc, srv, reg>> PROVE ConnInv'
  <2>1. pc[t] \in Walking /\ pc'[t] \in {"pick", "idle", "check"} /\ conns' = conns
    BY <1>3 DEF Select, CircularTakes, CircularMoves, LeastLooks, LeastReturns, RandomCounts,
       RandomDraws, RandomSkips, RandomTakes, Return, groupVars, threadVars, Walking
  <2>2. QED
    BY <2>1, ConnsKept DEF Counted, Walking
<1>4. ASSUME NEW t \in Threads, Check(t) \/ ConnectFails(t) PROVE ConnInv'
  <2>1. /\ pc[t] \in {"check", "connect"} /\ pc'[t] \in {"connect", "idle"}
        /\ conns' = conns
    BY <1>4 DEF Check, ConnectFails, End, Goto, groupVars
  <2>2. QED
    BY <2>1, ConnsKept DEF Counted
<1>5. ASSUME NEW t \in Threads, ConnectSucceeds(t) PROVE ConnInv'
  <2>1. /\ pc[t] = "connect" /\ pc'[t] = "counting" /\ conns' = conns
        /\ srv[t] \in Pos /\ reg'[t] = conns[srv[t]]
    BY <1>5 DEF ConnectSucceeds, Goto, groupVars, ServerChosen
  <2>2. \A s \in Pos : conns[s] = 0
    BY <2>1 DEF ConnInv, Counted
  <2>3. QED
    BY <2>1, <2>2, Alone DEF ConnInv, Counted
<1>6. ASSUME NEW t \in Threads, CountUp(t) PROVE ConnInv'
  <2>1. /\ pc[t] = "counting" /\ pc'[t] = "send" /\ srv'[t] = srv[t] /\ reg[t] = 0
        /\ srv[t] \in Pos /\ conns' = [conns EXCEPT ![srv[t]] = reg[t] + 1]
    BY <1>6 DEF CountUp, Goto, ServerChosen, ConnInv
  <2>2. \A s \in Pos : conns[s] = 0
    BY <2>1 DEF ConnInv, Counted
  <2>3. \A s \in Pos : conns'[s] = IF srv'[t] = s THEN 1 ELSE 0
    BY <2>1, <2>2
  <2>4. QED
    BY <2>1, <2>3, Alone DEF ConnInv, Counted
<1>7. ASSUME NEW t \in Threads, SendFails(t) \/ SendSucceeds(t) \/ ForwardSucceeds(t)
                                \/ ForwardFails(t) \/ Blame(t)
      PROVE  ConnInv'
  <2>1. /\ pc[t] \in Counted /\ pc'[t] \in {"close", "forward", "blame"}
        /\ srv' = srv /\ conns' = conns
    BY <1>7 DEF SendFails, SendSucceeds, ForwardSucceeds, ForwardFails, Blame, Goto, groupVars,
       Counted
  <2>2. QED
    BY <2>1, ConnsKept DEF Counted
<1>8. ASSUME NEW t \in Threads, Close(t) PROVE ConnInv'
  <2>1. /\ pc[t] = "close" /\ pc'[t] = "uncounting" /\ conns' = conns /\ srv' = srv
        /\ srv[t] \in Pos /\ reg'[t] = conns[srv[t]]
    BY <1>8 DEF Close, Goto, groupVars, ServerChosen
  <2>2. reg'[t] = 1
    BY <2>1 DEF ConnInv, Counted
  <2>3. \A s \in Pos : conns'[s] = IF srv'[t] = s THEN 1 ELSE 0
    BY <2>1 DEF ConnInv, Counted
  <2>4. QED
    BY <2>1, <2>2, <2>3, Alone DEF ConnInv, Counted
<1>9. ASSUME NEW t \in Threads, CountDown(t) PROVE ConnInv'
  <2>1. /\ pc[t] = "uncounting" /\ pc'[t] = "idle" /\ reg[t] = 1 /\ srv[t] \in Pos
        /\ conns' = [conns EXCEPT ![srv[t]] = IF reg[t] > 0 THEN reg[t] - 1 ELSE 0]
    BY <1>9 DEF CountDown, End, Goto, ServerChosen, ConnInv
  <2>2. \A s \in Pos : conns[s] = IF srv[t] = s THEN 1 ELSE 0
    BY <2>1 DEF ConnInv, Counted
  <2>3. \A s \in Pos : conns'[s] = 0
    BY <2>1, <2>2
  <2>4. QED
    BY <2>1, <2>3, Alone DEF ConnInv, Counted
<1>10. QED
  BY <1>1, <1>2, <1>3, <1>4, <1>5, <1>6, <1>7, <1>8, <1>9 DEF Next, Proxy, Tick, SetStatus,
     vars, setup, groupVars, threadVars

\* One process, one thread: current_connections of every server is the number
\* of connections open to it, on every path through handle_lb_proxy_request and
\* between any two of its steps.
THEOREM ConnectionsCounted == ASSUME OneThread PROVE Spec => []ConnsExact
<1>1. Init => ConnInv
  BY DEF Init, ConnInv, Counted
<1>2. IInv /\ ConnInv /\ [Next]_vars => ConnInv'
  BY ConnStep DEF IInv
<1>3. ConnInv => ConnsExact
  <2> SUFFICES ASSUME ConnInv, NEW s \in Pos
               PROVE  conns[s] = Cardinality({t \in Threads : srv[t] = s /\ pc[t] \in Counted})
    BY DEF ConnsExact
  <2>1. PICK u : Threads = {u}
    BY DEF OneThread
  <2>2. CASE srv[u] = s /\ pc[u] \in Counted
    <3>1. {t \in Threads : srv[t] = s /\ pc[t] \in Counted} = {u}
      BY <2>1, <2>2
    <3>2. QED
      BY <2>1, <2>2, <3>1, FS_Singleton DEF ConnInv
  <2>3. CASE ~(srv[u] = s /\ pc[u] \in Counted)
    <3>1. {t \in Threads : srv[t] = s /\ pc[t] \in Counted} = {}
      BY <2>1, <2>3
    <3>2. QED
      BY <2>1, <2>3, <3>1, FS_EmptySet DEF ConnInv
  <2>4. QED
    BY <2>2, <2>3
<1>4. QED
  BY <1>1, <1>2, <1>3, Invariance, PTL DEF Spec

\* Every step of the only thread leaves a server in use with failures to spare.
LEMMA BudgetStep ==
    ASSUME OneThread, TypeOK, ServerChosen, FreshBudget, [Next]_vars PROVE FreshBudget'
<1> DEFINE Using == {"connect", "counting", "send", "forward", "blame"}
<1> SUFFICES ASSUME MaxFails > 0, NEW t \in Threads, pc'[t] \in Using
             PROVE  fails'[srv'[t]] < MaxFails
  BY DEF FreshBudget
<1> USE DEF TypeOK, GroupTypeOK, ThreadTypeOK
<1>1. ASSUME pc[t] \in Using, srv'[t] = srv[t], fails' = fails
      PROVE  fails'[srv'[t]] < MaxFails
  BY <1>1 DEF FreshBudget
<1>2. CASE Check(t)
  <2>1. srv'[t] = srv[t] /\ srv[t] \in Pos /\ Available(srv[t])
    BY <1>2, LBAssumption DEF Check, End, Goto, ServerChosen
  <2>2. fails' = IF fails[srv[t]] >= MaxFails THEN [fails EXCEPT ![srv[t]] = 0] ELSE fails
    BY <1>2, <2>1 DEF Check, Forgive
  <2>3. fails[srv[t]] \in Nat /\ MaxFails \in Nat
    BY <2>1, LBAssumption
  <2>4. QED
    BY <2>1, <2>2, <2>3
<1>3. ASSUME Request(t) \/ Lock(t) \/ Select(t) PROVE FALSE
  BY <1>3 DEF Request, Lock, Select, CircularTakes, CircularMoves, LeastLooks, LeastReturns,
     RandomCounts, RandomDraws, RandomSkips, RandomTakes, Return, Goto, threadVars
<1>4. ASSUME Proxy(t), ~Check(t) PROVE pc[t] \in Using /\ srv'[t] = srv[t] /\ fails' = fails
  BY <1>4 DEF Proxy, ConnectFails, ConnectSucceeds, CountUp, SendFails, SendSucceeds,
     ForwardSucceeds, ForwardFails, Blame, Close, CountDown, End, Goto, groupVars
<1>5. CASE Tick \/ (\E s \in Pos : SetStatus(s)) \/ UNCHANGED vars
  BY <1>1, <1>5 DEF Tick, SetStatus, vars, setup, threadVars, groupVars
<1>6. QED
  <2>1. \A u \in Threads : u = t
    BY Alone
  <2>2. QED
    BY <2>1, <1>1, <1>2, <1>3, <1>4, <1>5 DEF Next

\* One process, one thread: from the connect to the last failure recorded, the
\* server of a request has failures left; a spent count is reset on the way.
THEOREM BudgetFresh == ASSUME OneThread PROVE Spec => []FreshBudget
<1>1. Init => FreshBudget
  BY DEF Init, FreshBudget
<1>2. IInv /\ FreshBudget /\ [Next]_vars => FreshBudget'
  BY BudgetStep DEF IInv
<1>3. QED
  BY <1>1, <1>2, Invariance, PTL DEF Spec

\* The servers of S a selection would count
AvailableIn(S) == {s \in S : Available(s)}

\* The walks that look at every server: lb_least_connections has passed over
\* nothing it would have taken, lb_random has counted no more servers than
\* there are before it and draws one that is still ahead.
LookInv ==
    \A t \in Threads :
        /\ strategy = "least_conn" /\ pc[t] = "walk" =>
            \/ best = None /\ \A s \in Pos : s < pos /\ Available(s) => fails[s] >= MaxFails
            \/ /\ best \in Pos /\ best < pos /\ acc = 0
               /\ \A s \in Pos : s < best /\ Available(s) => fails[s] >= MaxFails
        /\ strategy = "random" /\ pc[t] = "walk" => acc <= Cardinality(AvailableIn(0 .. pos - 1))
        /\ pc[t] = "pick" => acc < Cardinality(AvailableIn(pos .. N - 1))

LEMMA AvailableFinite ==
    ASSUME NEW a \in Int, NEW b \in Int
    PROVE  IsFiniteSet(AvailableIn(a .. b)) /\ Cardinality(AvailableIn(a .. b)) \in Nat
<1>1. IsFiniteSet(a .. b) /\ AvailableIn(a .. b) \in SUBSET (a .. b)
  BY FS_Interval DEF AvailableIn
<1>2. QED
  BY <1>1, FS_Subset, FS_CardinalityType

\* Resetting a spent failure count makes no server available and none
\* unavailable.
LEMMA ForgiveKeeps ==
    ASSUME TypeOK, NEW s \in Pos, Forgive(s), UNCHANGED <<status, conns, since>>, NEW q \in Pos
    PROVE  Available(q)' <=> Available(q)
<1>1. fails[q] \in Nat /\ MaxFails \in Nat
  BY LBAssumption DEF TypeOK, GroupTypeOK
<1>2. CASE Available(s) /\ fails[s] >= MaxFails /\ q = s
  <2>1. fails'[q] = 0
    BY <1>2 DEF Forgive, TypeOK, GroupTypeOK
  <2>2. CASE MaxFails = 0
    BY <1>1, <1>2, <2>1, <2>2 DEF Available
  <2>3. CASE MaxFails > 0
    BY <1>1, <1>2, <2>1, <2>3 DEF Available
  <2>4. QED
    BY <1>1, <2>2, <2>3
<1>3. CASE ~(Available(s) /\ fails[s] >= MaxFails /\ q = s)
  <2>1. fails'[q] = fails[q]
    BY <1>3 DEF Forgive, TypeOK, GroupTypeOK
  <2>2. QED
    BY <2>1 DEF Available
<1>4. QED
  BY <1>2, <1>3

\* ... and a server that is passed over for its failures stays so.
LEMMA ForgiveOther ==
    ASSUME TypeOK, NEW s \in Pos, Forgive(s), NEW q \in Pos, q # s
    PROVE  fails'[q] = fails[q]
BY DEF Forgive, TypeOK, GroupTypeOK

\* Time only makes servers available, those whose failures kept them out.
LEMMA TickKeeps ==
    ASSUME TypeOK, Tick, NEW q \in Pos
    PROVE  /\ Available(q) => Available(q)'
           /\ Available(q)' /\ ~Available(q) => fails'[q] >= MaxFails
           /\ fails'[q] = fails[q]
<1>1. fails' = fails /\ status' = status /\ conns' = conns
  BY DEF Tick
<1>2. since[q] \in Nat /\ FailTimeout \in Nat /\ since'[q] >= since[q]
  BY LBAssumption DEF Tick, TypeOK, GroupTypeOK
<1>3. since'[q] \in Nat
  BY <1>2, LBAssumption DEF Tick, TypeOK, GroupTypeOK
<1>4. QED
  BY <1>1, <1>2, <1>3 DEF Available

\* One more server at either end of an interval, as the two walks pass it
LEMMA OneMore ==
    ASSUME NEW p \in Pos
    PROVE  /\ Available(p) =>
                /\ AvailableIn(0 .. p) = AvailableIn(0 .. p - 1) \cup {p}
                /\ AvailableIn(p .. N - 1) = AvailableIn(p + 1 .. N - 1) \cup {p}
           /\ ~Available(p) =>
                /\ AvailableIn(0 .. p) = AvailableIn(0 .. p - 1)
                /\ AvailableIn(p .. N - 1) = AvailableIn(p + 1 .. N - 1)
<1>1. p \in Nat /\ N \in Nat /\ p <= N - 1
  BY LBAssumption DEF Pos
<1>2. 0 .. p = (0 .. p - 1) \cup {p} /\ p .. N - 1 = (p + 1 .. N - 1) \cup {p}
  BY <1>1
<1>3. QED
  BY <1>2 DEF AvailableIn

LEMMA OneMoreCounted ==
    ASSUME NEW p \in Pos
    PROVE  /\ Available(p) =>
                /\ Cardinality(AvailableIn(0 .. p)) = Cardinality(AvailableIn(0 .. p - 1)) + 1
                /\ Cardinality(AvailableIn(p .. N - 1))
                     = Cardinality(AvailableIn(p + 1 .. N - 1)) + 1
           /\ ~Available(p) =>
                /\ AvailableIn(0 .. p) = AvailableIn(0 .. p - 1)
                /\ AvailableIn(p .. N - 1) = AvailableIn(p + 1 .. N - 1)
           /\ Cardinality(AvailableIn(0 .. p - 1)) \in Nat
           /\ Cardinality(AvailableIn(p + 1 .. N - 1)) \in Nat
<1>1. p \in Int /\ p - 1 \in Int /\ p + 1 \in Int /\ N - 1 \in Int
  BY LBAssumption DEF Pos
<1>2. /\ IsFiniteSet(AvailableIn(0 .. p - 1)) /\ p \notin AvailableIn(0 .. p - 1)
      /\ Cardinality(AvailableIn(0 .. p - 1)) \in Nat
  BY <1>1, AvailableFinite DEF AvailableIn
<1>3. /\ IsFiniteSet(AvailableIn(p + 1 .. N - 1)) /\ p \notin AvailableIn(p + 1 .. N - 1)
      /\ Cardinality(AvailableIn(p + 1 .. N - 1)) \in Nat
  BY <1>1, AvailableFinite DEF AvailableIn
<1>4. ASSUME Available(p)
      PROVE  /\ Cardinality(AvailableIn(0 .. p)) = Cardinality(AvailableIn(0 .. p - 1)) + 1
             /\ Cardinality(AvailableIn(p .. N - 1))
                  = Cardinality(AvailableIn(p + 1 .. N - 1)) + 1
  <2>1. Cardinality(AvailableIn(0 .. p - 1) \cup {p}) = Cardinality(AvailableIn(0 .. p - 1)) + 1
    BY <1>2, FS_AddElement
  <2>2. Cardinality(AvailableIn(p + 1 .. N - 1) \cup {p})
          = Cardinality(AvailableIn(p + 1 .. N - 1)) + 1
    BY <1>3, FS_AddElement
  <2>3. /\ AvailableIn(0 .. p) = AvailableIn(0 .. p - 1) \cup {p}
        /\ AvailableIn(p .. N - 1) = AvailableIn(p + 1 .. N - 1) \cup {p}
    BY <1>4, OneMore
  <2>4. QED
    BY <2>1, <2>2, <2>3, Zenon
<1>5. QED
  BY <1>2, <1>3, <1>4, OneMore, Zenon

\* A pass over a server leaves every set of available servers as it is.
LEMMA SameAvailable ==
    ASSUME TypeOK, NEW s \in Pos, Forgive(s), UNCHANGED <<status, conns, since>>,
           NEW S \in SUBSET Pos
    PROVE  {q \in S : Available(q)'} = AvailableIn(S)
BY ForgiveKeeps DEF AvailableIn

\* Time does not take a server from those counted ...
LEMMA TickCounts ==
    ASSUME TypeOK, Tick, NEW a \in Int, NEW b \in Int, a .. b \in SUBSET Pos
    PROVE  /\ Cardinality(AvailableIn(a .. b)) \in Nat
           /\ Cardinality({q \in a .. b : Available(q)'}) \in Nat
           /\ Cardinality(AvailableIn(a .. b)) <= Cardinality({q \in a .. b : Available(q)'})
<1> DEFINE T == {q \in a .. b : Available(q)'}
<1>1. IsFiniteSet(a .. b) /\ T \in SUBSET (a .. b)
  BY FS_Interval
<1>2. IsFiniteSet(T)
  BY <1>1, FS_Subset
<1>3. AvailableIn(a .. b) \in SUBSET T
  <2>1. ASSUME NEW q \in a .. b, Available(q) PROVE Available(q)'
    <3>1. q \in Pos
      OBVIOUS
    <3>2. QED
      BY <2>1, <3>1, TickKeeps
  <2>2. QED
    BY <2>1 DEF AvailableIn
<1> HIDE DEF T
<1>4. Cardinality(AvailableIn(a .. b)) <= Cardinality(T)
  BY <1>2, <1>3, FS_Subset
<1>5. QED
  BY <1>2, <1>4, AvailableFinite, FS_CardinalityType DEF T

\* ... and offers lb_least_connections none that it would have taken.
LEMMA TickLook == ASSUME TypeOK, LookInv, Tick PROVE LookInv'
<1>1. UNCHANGED <<strategy, pos, best, acc, pc>>
  BY DEF Tick, setup, threadVars, walkVars
<1>2. 0 \in Int /\ pos \in Int /\ pos - 1 \in Int /\ N - 1 \in Int /\ acc \in Int
  BY LBAssumption DEF TypeOK, WalkTypeOK
<1>3. 0 .. pos - 1 \in SUBSET Pos /\ pos .. N - 1 \in SUBSET Pos
  BY LBAssumption DEF TypeOK, WalkTypeOK, Pos
<1>4. /\ AvailableIn(0 .. pos - 1)' = {q \in 0 .. pos - 1 : Available(q)'}
      /\ AvailableIn(pos .. N - 1)' = {q \in pos .. N - 1 : Available(q)'}
  BY <1>1 DEF AvailableIn
<1>5. /\ Cardinality(AvailableIn(0 .. pos - 1)) \in Nat
      /\ Cardinality(AvailableIn(0 .. pos - 1)') \in Nat
      /\ Cardinality(AvailableIn(0 .. pos - 1)) <= Cardinality(AvailableIn(0 .. pos - 1)')
  BY <1>2, <1>3, <1>4, TickCounts
<1>6. /\ Cardinality(AvailableIn(pos .. N - 1)) \in Nat
      /\ Cardinality(AvailableIn(pos .. N - 1)') \in Nat
      /\ Cardinality(AvailableIn(pos .. N - 1)) <= Cardinality(AvailableIn(pos .. N - 1)')
  BY <1>2, <1>3, <1>4, TickCounts
<1>7. ASSUME NEW p, \A s \in Pos : s < p /\ Available(s) => fails[s] >= MaxFails
      PROVE  \A s \in Pos : s < p /\ Available(s)' => fails'[s] >= MaxFails
  <2> SUFFICES ASSUME NEW s \in Pos, s < p, Available(s)' PROVE fails'[s] >= MaxFails
    OBVIOUS
  <2>1. CASE Available(s)
    <3>1. fails[s] >= MaxFails /\ fails'[s] = fails[s]
      BY <1>7, <2>1, TickKeeps
    <3>2. QED
      BY <3>1
  <2>2. CASE ~Available(s)
    BY <2>2, TickKeeps
  <2>3. QED
    BY <2>1, <2>2
<1>8. ASSUME NEW t \in Threads, strategy = "least_conn", pc[t] = "walk"
      PROVE  \/ best = None /\ \A s \in Pos : s < pos /\ Available(s)' => fails'[s] >= MaxFails
             \/ /\ best \in Pos /\ best < pos /\ acc = 0
                /\ \A s \in Pos : s < best /\ Available(s)' => fails'[s] >= MaxFails
  BY <1>7, <1>8 DEF LookInv
<1>9. ASSUME NEW t \in Threads, strategy = "random", pc[t] = "walk"
      PROVE  acc <= Cardinality(AvailableIn(0 .. pos - 1)')
  <2>1. acc <= Cardinality(AvailableIn(0 .. pos - 1))
    BY <1>9 DEF LookInv
  <2>2. QED
    BY <1>2, <1>5, <2>1
<1>10. ASSUME NEW t \in Threads, pc[t] = "pick"
       PROVE  acc < Cardinality(AvailableIn(pos .. N - 1)')
  <2>1. acc < Cardinality(AvailableIn(pos .. N - 1))
    BY <1>10 DEF LookInv
  <2>2. QED
    BY <1>2, <1>6, <2>1
<1>11. QED
  BY <1>1, <1>8, <1>9, <1>10 DEF LookInv

\* Every step of the only thread keeps LookInv, in a process in which no
\* health check changes a status.
LEMMA LookStep ==
    ASSUME OneThread, checked = {}, TypeOK, ConnInv, LookInv, [Next]_vars PROVE LookInv'
<1> USE DEF TypeOK, GroupTypeOK, WalkTypeOK, ThreadTypeOK
<1>0. strategy' = strategy
  BY StrategyKept
<1>1. ASSUME NEW t \in Threads, pc'[t] \notin Walking PROVE LookInv'
  BY <1>1, Alone DEF LookInv, Walking
<1>2. CASE UNCHANGED <<groupVars, walkVars, pc>>
  BY <1>0, <1>2 DEF LookInv, groupVars, walkVars, AvailableIn, Available
<1>3. ASSUME NEW t \in Threads, Lock(t) PROVE LookInv'
  <2>1. /\ pc'[t] = "walk" /\ best' = None /\ acc' = 0 /\ UNCHANGED groupVars
        /\ strategy = "least_conn" \/ strategy = "random" => pos' = 0
    BY <1>3 DEF Lock, Goto, Circular
  <2>2. pos' = 0 => Cardinality(AvailableIn(0 .. pos - 1)') \in Nat
    <3> SUFFICES ASSUME pos' = 0 PROVE Cardinality(AvailableIn(0 .. pos - 1)') \in Nat
      OBVIOUS
    <3>1. AvailableIn(0 .. pos - 1)' = AvailableIn(0 .. 0 - 1)
      BY <2>1 DEF AvailableIn, Available, groupVars
    <3>2. QED
      BY <3>1, AvailableFinite
  <2>3. strategy = "random" => acc' <= Cardinality(AvailableIn(0 .. pos - 1)')
    BY <2>1, <2>2
  <2>4. strategy = "least_conn" => \A s \in Pos : ~(s < pos')
    BY <2>1, Places
  <2>5. QED
    BY <1>0, <2>1, <2>3, <2>4, Alone DEF LookInv
<1>4. ASSUME NEW t \in Threads, CircularTakes(t) \/ CircularMoves(t) PROVE LookInv'
  BY <1>0, <1>4, Alone DEF CircularTakes, CircularMoves, Return, Circular, LookInv, threadVars
<1>5. ASSUME NEW t \in Threads, LeastLooks(t) PROVE LookInv'
  <2>1. /\ pc[t] = "walk" /\ pc' = pc /\ strategy = "least_conn" /\ pos \in Pos
        /\ Forgive(pos) /\ pos' = pos + 1 /\ UNCHANGED <<status, conns, since>>
    BY <1>5, Places DEF LeastLooks, threadVars
  <2>2. conns[pos] = 0
    BY <2>1 DEF ConnInv, Counted
  <2>3. \A q \in Pos : (Available(q)' <=> Available(q)) /\ (q # pos => fails'[q] = fails[q])
    BY <2>1, ForgiveKeeps, ForgiveOther
  <2>4. CASE best = None /\ Available(pos)
    <3>1. best' = pos /\ acc' = 0
      BY <1>5, <2>2, <2>4 DEF LeastLooks
    <3>2. \A s \in Pos : s < pos /\ Available(s) => fails[s] >= MaxFails
      BY <2>1, <2>4, LBAssumption DEF LookInv
    <3>3. \A s \in Pos : s < best' /\ Available(s)' => fails'[s] >= MaxFails
      BY <2>3, <3>1, <3>2, Places
    <3>4. best' < pos'
      BY <2>1, <3>1, Places
    <3>5. QED
      BY <1>0, <2>1, <3>1, <3>3, <3>4, Alone DEF LookInv
  <2>5. CASE best = None /\ ~Available(pos)
    <3>1. best' = None
      BY <1>5, <2>5 DEF LeastLooks
    <3>2. \A s \in Pos : s < pos /\ Available(s) => fails[s] >= MaxFails
      BY <2>1, <2>5, LBAssumption DEF LookInv
    <3>3. \A s \in Pos : s < pos + 1 => s < pos \/ s = pos
      BY <2>1, Places
    <3>4. \A s \in Pos : s < pos' /\ Available(s)' => fails'[s] >= MaxFails
      BY <2>1, <2>3, <2>5, <3>2, <3>3, Places
    <3>5. QED
      BY <1>0, <2>1, <3>1, <3>4, Alone DEF LookInv
  <2>6. CASE best # None
    <3>1. /\ best \in Pos /\ best < pos /\ acc = 0
          /\ \A s \in Pos : s < best /\ Available(s) => fails[s] >= MaxFails
      BY <2>1, <2>6 DEF LookInv
    <3>2. best' = best /\ acc' = acc
      BY <1>5, <2>2, <2>6, <3>1 DEF LeastLooks
    <3>3. \A s \in Pos : s < best' /\ Available(s)' => fails'[s] >= MaxFails
      BY <2>1, <2>3, <3>1, <3>2, Places
    <3>4. best' \in Pos /\ best' < pos'
      BY <2>1, <3>1, <3>2, Places
    <3>5. QED
      BY <1>0, <2>1, <3>1, <3>2, <3>3, <3>4, Alone DEF LookInv
  <2>7. QED
    BY <2>4, <2>5, <2>6
<1>6. ASSUME NEW t \in Threads, RandomCounts(t) PROVE LookInv'
  <2>1. /\ pc[t] = "walk" /\ pc' = pc /\ strategy = "random" /\ pos \in Pos
        /\ Forgive(pos) /\ pos' = pos + 1 /\ UNCHANGED <<status, conns, since>>
        /\ acc' = IF Available(pos) THEN acc + 1 ELSE acc
    BY <1>6, Places DEF RandomCounts, threadVars
  <2>2. acc <= Cardinality(AvailableIn(0 .. pos - 1))
    BY <2>1 DEF LookInv
  <2>3. AvailableIn(0 .. pos - 1)' = AvailableIn(0 .. pos)
    <3>1. pos' - 1 = pos /\ 0 .. pos \in SUBSET Pos
      BY <2>1, LBAssumption DEF Pos
    <3>2. AvailableIn(0 .. pos - 1)' = {q \in 0 .. pos : Available(q)'}
      BY <3>1 DEF AvailableIn
    <3>3. QED
      BY <2>1, <3>1, <3>2, SameAvailable
  <2>4. acc' <= Cardinality(AvailableIn(0 .. pos))
    <3>1. CASE Available(pos)
      <4>1. Cardinality(AvailableIn(0 .. pos)) = Cardinality(AvailableIn(0 .. pos - 1)) + 1
        BY <2>1, <3>1, OneMoreCounted
      <4>2. acc' = acc + 1 /\ Cardinality(AvailableIn(0 .. pos - 1)) \in Nat
        BY <2>1, <3>1, OneMoreCounted
      <4>3. QED
        BY <2>2, <4>1, <4>2
    <3>2. CASE ~Available(pos)
      BY <2>1, <2>2, <3>2, OneMoreCounted
    <3>3. QED
      BY <3>1, <3>2
  <2>5. acc' <= Cardinality(AvailableIn(0 .. pos - 1)')
    BY <2>3, <2>4
  <2>6. QED
    BY <1>0, <2>1, <2>5, Alone DEF LookInv
<1>7. ASSUME NEW t \in Threads, LeastReturns(t) PROVE LookInv'
  BY <1>1, <1>7 DEF LeastReturns, Return, Walking, ThreadTypeOK
<1>8. ASSUME NEW t \in Threads, RandomDraws(t), acc # 0 PROVE LookInv'
  <2>1. /\ pc'[t] = "pick" /\ pos' = 0 /\ acc' \in 0 .. acc - 1 /\ UNCHANGED groupVars
        /\ pc[t] = "walk" /\ strategy = "random" /\ pos = N
    BY <1>8 DEF RandomDraws, NULL
  <2>2. acc <= Cardinality(AvailableIn(0 .. N - 1))
    BY <2>1 DEF LookInv
  <2>3. AvailableIn(pos .. N - 1)' = AvailableIn(0 .. N - 1)
    BY <2>1 DEF AvailableIn, Available, groupVars
  <2>4. Cardinality(AvailableIn(0 .. N - 1)) \in Nat
    <3>1. N - 1 \in Int
      BY LBAssumption
    <3>2. QED
      BY <3>1, AvailableFinite
  <2>5. acc' < Cardinality(AvailableIn(pos .. N - 1)')
    BY <2>1, <2>2, <2>3, <2>4
  <2>6. QED
    BY <2>1, <2>5, Alone DEF LookInv
<1>9. ASSUME NEW t \in Threads, RandomSkips(t) PROVE LookInv'
  <2>1. /\ pc[t] = "pick" /\ pc' = pc /\ pos \in Pos
        /\ Forgive(pos) /\ pos' = pos + 1 /\ UNCHANGED <<status, conns, since>>
        /\ Available(pos) => acc # 0
        /\ acc' = IF Available(pos) THEN acc - 1 ELSE acc
    BY <1>9, Places DEF RandomSkips, threadVars
  <2>2. acc < Cardinality(AvailableIn(pos .. N - 1))
    BY <2>1 DEF LookInv
  <2>3. AvailableIn(pos .. N - 1)' = AvailableIn(pos + 1 .. N - 1)
    <3>1. pos + 1 .. N - 1 \in SUBSET Pos
      BY <2>1, LBAssumption DEF Pos
    <3>2. AvailableIn(pos .. N - 1)' = {q \in pos + 1 .. N - 1 : Available(q)'}
      BY <2>1 DEF AvailableIn
    <3>3. QED
      BY <2>1, <3>1, <3>2, SameAvailable
  <2>4. acc' < Cardinality(AvailableIn(pos + 1 .. N - 1))
    <3>1. CASE Available(pos)
      <4>1. Cardinality(AvailableIn(pos .. N - 1)) = Cardinality(AvailableIn(pos + 1 .. N - 1)) + 1
        BY <2>1, <3>1, OneMoreCounted
      <4>2. acc' = acc - 1 /\ Cardinality(AvailableIn(pos + 1 .. N - 1)) \in Nat
        BY <2>1, <3>1, OneMoreCounted
      <4>3. QED
        BY <2>2, <4>1, <4>2
    <3>2. CASE ~Available(pos)
      BY <2>1, <2>2, <3>2, OneMoreCounted
    <3>3. QED
      BY <3>1, <3>2
  <2>5. acc' < Cardinality(AvailableIn(pos .. N - 1)')
    BY <2>3, <2>4
  <2>6. QED
    BY <2>1, <2>5, Alone DEF LookInv
<1>10. CASE Tick
  BY <1>10, TickLook
<1>11. QED
  <2>1. ASSUME NEW t \in Threads, Request(t) \/ Proxy(t) PROVE LookInv'
    <3>1. pc'[t] \notin Walking
      BY <2>1 DEF Request, Proxy, Check, ConnectFails, ConnectSucceeds, CountUp, SendFails,
         SendSucceeds, ForwardSucceeds, ForwardFails, Blame, Close, CountDown, Goto, End, Walking
    <3>2. QED
      BY <1>1, <3>1
  <2>2. ASSUME NEW t \in Threads, RandomTakes(t) \/ (RandomDraws(t) /\ acc = 0) PROVE LookInv'
    <3>1. pc'[t] \notin Walking
      BY <2>2 DEF RandomTakes, RandomDraws, Return, Walking
    <3>2. QED
      BY <1>1, <3>1
  <2>3. ASSUME NEW t \in Threads, Select(t) PROVE LookInv'
    BY <1>4, <1>5, <1>6, <1>7, <1>8, <1>9, <2>2, <2>3 DEF Select
  <2>4. CASE UNCHANGED vars
    BY <1>2, <2>4 DEF vars, setup, threadVars
  <2>5. QED
    BY <1>3, <1>10, <2>1, <2>3, <2>4 DEF Next, SetStatus

\* One process, one thread, no health-check thread: least_conn, which compares
\* zeros, takes the first available server of its list whose failures are not
\* spent, and the server lb_random drew is found by its second walk.
THEOREM StrategiesPick == ASSUME OneThread PROVE Spec => PicksAsMeant
<1> DEFINE LookSafe == checked = {} => LookInv
           Picks == checked = {} => \A t \in Threads :
        /\ strategy = "least_conn" /\ pc[t] = "walk" /\ pc'[t] = "check" =>
            \A s \in Pos : s < srv'[t] /\ Available(s) => fails[s] >= MaxFails
        /\ pc[t] = "pick" => pc'[t] \in {"pick", "check"}
<1>1. Init => ConnInv /\ LookSafe
  BY DEF Init, ConnInv, LookInv, Counted
<1>2. IInv /\ ConnInv /\ LookSafe /\ [Next]_vars => (ConnInv /\ LookSafe)'
  BY ConnStep, LookStep, StrategyKept DEF IInv
<1>3. IInv /\ LookSafe /\ [Next]_vars => [Picks]_vars
  <2> SUFFICES ASSUME IInv, checked = {}, LookInv, Next, NEW t \in Threads
               PROVE  /\ strategy = "least_conn" /\ pc[t] = "walk" /\ pc'[t] = "check" =>
                           \A s \in Pos : s < srv'[t] /\ Available(s) => fails[s] >= MaxFails
                      /\ pc[t] = "pick" => pc'[t] \in {"pick", "check"}
    BY DEF vars, setup
  <2> USE DEF IInv, TypeOK, ThreadTypeOK
  <2>1. \A u \in Threads : u = t
    BY Alone
  <2>2. CASE strategy = "least_conn" /\ pc[t] = "walk" /\ pc'[t] = "check"
    <3>1. LeastReturns(t)
      BY <2>1, <2>2 DEF Next, Select, Proxy, Request, Lock, CircularTakes, CircularMoves,
         LeastLooks, RandomCounts, RandomDraws, RandomSkips, RandomTakes, Check, ConnectFails,
         ConnectSucceeds, CountUp, SendFails, SendSucceeds, ForwardSucceeds, ForwardFails,
         Blame, Close, CountDown, Goto, End, Circular, Tick, SetStatus, threadVars
    <3>2. srv'[t] = best /\ best # None
      BY <2>2, <3>1 DEF LeastReturns, Return
    <3>3. QED
      BY <2>2, <3>2 DEF LookInv
  <2>3. CASE pc[t] = "pick"
    <3>1. acc < Cardinality(AvailableIn(pos .. N - 1))
      BY <2>3 DEF LookInv
    <3>2. CASE pos = N
      <4>1. N .. N - 1 = {}
        BY LBAssumption
      <4>2. AvailableIn(pos .. N - 1) = {}
        BY <3>2, <4>1 DEF AvailableIn
      <4>3. Cardinality(AvailableIn(pos .. N - 1)) = 0 /\ acc \in Nat
        BY <4>2, FS_EmptySet DEF WalkTypeOK
      <4>4. QED
        BY <3>1, <4>3
    <3>3. CASE pos # N
      BY <2>1, <2>3, <3>3, Places, LBAssumption DEF Next, Select, Proxy, Request, Lock,
         CircularTakes, CircularMoves, LeastLooks, LeastReturns, RandomCounts, RandomDraws,
         RandomSkips, RandomTakes, Check, ConnectFails, ConnectSucceeds, CountUp, SendFails,
         SendSucceeds, ForwardSucceeds, ForwardFails, Blame, Close, CountDown, Goto, End,
         Tick, SetStatus, threadVars, Return, NULL, WalkTypeOK
    <3>4. QED
      BY <3>2, <3>3
  <2>4. QED
    BY <2>2, <2>3
<1>4. QED
  BY <1>1, <1>2, <1>3, Invariance, PTL DEF Spec, PicksAsMeant
=============================================================================
