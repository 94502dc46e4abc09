----------------------- MODULE AuthTransactionProofs -----------------------
(* Theorems about AuthTransaction, for every set of processes and bounds:  *)
(* first its files and locks, then the login it keeps.                     *)
EXTENDS AuthTransaction, TLAPS

-----------------------------------------------------------------------------
(* Typing. *)

LEMMA TypeInit == Init => TypeOK
<1> SUFFICES ASSUME Init PROVE TypeOK
  OBVIOUS
<1>1. files \in Files /\ Nothing \in Files
  BY BoundsAssumption, EntryAssumption DEF Init, Files, Token, Facing, Nothing
<1>2. op \in [Process -> Operation \cup {"none"}] /\ pc \in [Process -> Stage]
  BY DEF Init, Operation, Stage
<1> QED
  BY <1>1, <1>2, BoundsAssumption DEF Init, TypeOK, Token

\* Every way out of a transaction leaves the process with nothing in memory.
LEMMA FinishType ==
  ASSUME TypeOK, NEW p \in Process, Finish(p)
  PROVE  /\ op' \in [Process -> Operation \cup {"none"}] /\ pc' \in [Process -> Stage]
         /\ identity' \in [Process -> 0 .. MaxLock]
         /\ captured' \in [Process -> Token \cup {NoEntry}]
         /\ snapshot' \in [Process -> Files] /\ plan' \in [Process -> Files]
         /\ minted' \in [Process -> Token \cup {NoEntry}]
         /\ aborted' \in [Process -> BOOLEAN]
<1>1. pc' \in [Process -> Stage]
  BY DEF TypeOK, Finish, Goto, Stage
<1>2. Nothing \in Files
  BY DEF Nothing, Files
<1>3. op' \in [Process -> Operation \cup {"none"}]
  BY DEF TypeOK, Finish
<1>4. identity' \in [Process -> 0 .. MaxLock]
  BY BoundsAssumption DEF TypeOK, Finish
<1>5. snapshot' \in [Process -> Files] /\ plan' \in [Process -> Files]
  BY <1>2 DEF TypeOK, Finish
<1>6. aborted' \in [Process -> BOOLEAN]
  BY DEF TypeOK, Finish
<1>7. captured' \in [Process -> Token \cup {NoEntry}] /\ minted' \in [Process -> Token \cup {NoEntry}]
  BY DEF TypeOK, Finish
<1> QED
  BY <1>1, <1>3, <1>4, <1>5, <1>6, <1>7

LEMMA ForfeitType ==
  ASSUME TypeOK, NEW p \in Process, NEW m \in Mishap, Forfeit(p, m)
  PROVE  mishaps' \subseteq Mishap
  BY DEF TypeOK, Forfeit

\* The transforms map files of the right shape to files of the right shape.
LEMMA TransformType ==
  ASSUME NEW f \in Files, NEW o, NEW t \in Token \cup {NoEntry}
  PROVE  transform(o, f) \in Files /\ persistRefreshed(f, t) \in Files
  BY DEF Files, transform, applyShadowPlan, applyRestorePlan, dropShadow, persistRefreshed, Facing

LEMMA TypeStep == TypeOK /\ [Next]_vars => TypeOK'
<1> SUFFICES ASSUME TypeOK, [Next]_vars PROVE TypeOK'
  OBVIOUS
<1> USE BoundsAssumption
<1>1. CASE UNCHANGED vars
  BY <1>1 DEF TypeOK, vars, disk, lease, local
<1>2. ASSUME NEW p \in Process, BeginRefresh(p) PROVE TypeOK'
  <2>1. pc' \in [Process -> Stage]
    BY <1>2 DEF TypeOK, BeginRefresh, Goto, Stage
  <2>2. op' \in [Process -> Operation \cup {"none"}]
    BY <1>2 DEF TypeOK, BeginRefresh, Operation
  <2> QED
    BY <1>2, <2>1, <2>2 DEF TypeOK, BeginRefresh, disk, lease
<1>3. ASSUME NEW p \in Process, Evict(p) PROVE TypeOK'
  BY <1>3 DEF TypeOK, Evict, disk, local
<1>4. ASSUME NEW p \in Process, Acquire(p) PROVE TypeOK'
  <2>1. pc' \in [Process -> Stage]
    BY <1>4 DEF TypeOK, Acquire, Goto, Stage
  <2>2. lock' \in 0 .. MaxLock /\ created' \in 0 .. MaxLock /\ fresh' \in BOOLEAN
    BY <1>4 DEF TypeOK, Acquire, mkdirLock
  <2>3. identity' \in [Process -> 0 .. MaxLock]
    BY <1>4 DEF TypeOK, Acquire, mkdirLock
  <2> QED
    BY <1>4, <2>1, <2>2, <2>3 DEF TypeOK, Acquire, disk
<1>5. ASSUME NEW p \in Process, GiveUpWaiting(p) PROVE TypeOK'
  BY <1>5, FinishType DEF TypeOK, GiveUpWaiting, disk, lease
<1>6. ASSUME NEW p \in Process, Inspect(p) PROVE TypeOK'
  <2>1. pc' \in [Process -> Stage]
    BY <1>6 DEF TypeOK, Inspect, Goto, Stage
  <2> QED
    BY <1>6, <2>1 DEF TypeOK, Inspect, disk, lease
<1>7. ASSUME NEW p \in Process, Exchange(p) PROVE TypeOK'
  <2>1. pc' \in [Process -> Stage]
    BY <1>7 DEF TypeOK, Exchange, Goto, Stage
  <2>2. issued' \in 0 .. MaxToken /\ (issued' = issued + 1 => issued + 1 \in Token)
    BY <1>7 DEF TypeOK, Exchange, Token
  <2>5. live' \subseteq Token
    BY <1>7, <2>2 DEF TypeOK, Exchange
  <2>6. minted' \in [Process -> Token \cup {NoEntry}]
    BY <1>7, <2>2 DEF TypeOK, Exchange
  <2> QED
    BY <1>7, <2>1, <2>2, <2>5, <2>6 DEF TypeOK, Exchange, lease
<1>8. ASSUME NEW p \in Process, ExchangeFails(p) \/ AnswerLost(p) \/ Refused(p) PROVE TypeOK'
  <2>1. pc' \in [Process -> Stage]
    BY <1>8 DEF TypeOK, ExchangeFails, AnswerLost, Refused, Goto, Stage
  <2>2. mishaps' \subseteq Mishap
    BY <1>8, ForfeitType DEF TypeOK, ExchangeFails, AnswerLost, Refused, Mishap
  <2> QED
    BY <1>8, <2>1, <2>2 DEF TypeOK, ExchangeFails, AnswerLost, Refused, disk, lease
<1>9. ASSUME NEW p \in Process, Settle(p) PROVE TypeOK'
  <2>1. pc' \in [Process -> Stage]
    BY <1>9 DEF TypeOK, Settle, Goto, Stage
  <2>2. mishaps' \subseteq Mishap
    BY <1>9, ForfeitType DEF TypeOK, Settle, Mishap
  <2>3. persistRefreshed(snapshot[p], minted[p]) \in Files
    BY TransformType DEF TypeOK
  <2>4. plan' \in [Process -> Files]
    BY <1>9, <2>3 DEF TypeOK, Settle
  <2> QED
    BY <1>9, <2>1, <2>2, <2>4 DEF TypeOK, Settle, disk, lease
<1>10. ASSUME NEW p \in Process, NEW o \in SyncOperation, BeginSync(p, o) PROVE TypeOK'
  <2>1. pc' \in [Process -> Stage]
    BY <1>10 DEF TypeOK, BeginSync, Goto, Stage
  <2>2. op' \in [Process -> Operation \cup {"none"}]
    BY <1>10 DEF TypeOK, BeginSync, Operation
  <2> QED
    BY <1>10, <2>1, <2>2 DEF TypeOK, BeginSync, disk
<1>11. ASSUME NEW p \in Process, PlanSync(p) PROVE TypeOK'
  <2>1. pc' \in [Process -> Stage]
    BY <1>11 DEF TypeOK, PlanSync, Goto, Stage
  <2>2. plan' \in [Process -> Files]
    BY <1>11, TransformType DEF TypeOK, PlanSync
  <2> QED
    BY <1>11, <2>1, <2>2 DEF TypeOK, PlanSync, disk, lease
<1>12. ASSUME NEW p \in Process, Write1(p) \/ Write2(p) PROVE TypeOK'
  <2>1. pc' \in [Process -> Stage]
    BY <1>12 DEF TypeOK, Write1, Write2, Goto, Stage
  <2>2. mishaps' \subseteq Mishap
    BY <1>12, ForfeitType DEF TypeOK, Write1, Write2, Mishap
  <2>3. files' \in Files
    <3>1. plan[p] \in Files
      BY DEF TypeOK
    <3>2. \/ files' = files
          \/ files' = [files EXCEPT !.sidecar = plan[p].sidecar]
          \/ files' = [files EXCEPT !.auth = plan[p].auth]
      BY <1>12 DEF Write1, Write2, replaceAuth, replaceSidecar
    <3> QED
      BY <3>1, <3>2 DEF TypeOK, Files
  <2> QED
    BY <1>12, <2>1, <2>2, <2>3 DEF TypeOK, Write1, Write2, lease
<1>13. ASSUME NEW p \in Process, Heartbeat(p) PROVE TypeOK'
  <2>1. fresh' \in BOOLEAN /\ aborted' \in [Process -> BOOLEAN]
    BY <1>13 DEF TypeOK, Heartbeat
  <2> QED
    BY <1>13, <2>1 DEF TypeOK, Heartbeat, disk
<1>14. ASSUME NEW p \in Process, Stall(p) \/ Timeout(p) PROVE TypeOK'
  BY <1>14 DEF TypeOK, Stall, Timeout, disk, lease, local
<1>15. ASSUME NEW p \in Process, Release(p) PROVE TypeOK'
  <2>1. lock' \in 0 .. MaxLock /\ fresh' \in BOOLEAN
    BY <1>15 DEF TypeOK, Release, unlock, stillOwned
  <2> QED
    BY <1>15, <2>1, FinishType DEF TypeOK, Release, disk
<1>16. ASSUME NEW p \in Process, Crash(p) PROVE TypeOK'
  <2>1. mishaps' \subseteq Mishap
    BY <1>16, ForfeitType DEF Crash, Mishap
  <2> QED
    BY <1>16, <2>1, FinishType DEF TypeOK, Crash, disk, lease
<1>17. CASE Age
  BY <1>17 DEF TypeOK, Age, disk, local
<1>18. CASE HostLogin \/ ForeignLogin
  <2>1. issueLogin
    BY <1>18 DEF HostLogin, ForeignLogin
  <2>2. issued' \in 0 .. MaxToken /\ issued + 1 \in Token
    BY <2>1 DEF TypeOK, issueLogin, Token
  <2>3. live' \subseteq Token
    BY <2>1, <2>2 DEF TypeOK, issueLogin
  <2>4. files' \in Files
    BY <2>1, <2>2 DEF TypeOK, issueLogin, Files
  <2>5. mishaps' \subseteq Mishap
    BY <1>18 DEF HostLogin, ForeignLogin, Mishap
  <2> QED
    BY <1>18, <2>2, <2>3, <2>4, <2>5 DEF TypeOK, HostLogin, ForeignLogin, lease, local
<1>19. CASE HostRemove
  <2>1. files' \in Files
    BY <1>19 DEF TypeOK, HostRemove, Files
  <2> QED
    BY <1>19, <2>1 DEF TypeOK, HostRemove, lease, local
<1> QED
  BY <1>1, <1>2, <1>3, <1>4, <1>5, <1>6, <1>7, <1>8, <1>9, <1>10, <1>11, <1>12, <1>13, <1>14, <1>15,
     <1>16, <1>17, <1>18, <1>19 DEF Next, Step

\* The state is well typed; in particular every transaction plans files of the
\* shape the readers of both files expect.
THEOREM TypeCorrect == Spec => []TypeOK
  BY TypeInit, TypeStep, PTL DEF Spec
-----------------------------------------------------------------------------
(* The lock: who may hold it, and that a synchronous holder is never evicted. *)

LockInv == LockDiscipline /\ StageDiscipline /\ SyncHolds

LEMMA LockStep ==
  ASSUME TypeOK, LockInv, [Next]_vars
  PROVE  LockInv'
<1> LockDiscipline /\ StageDiscipline /\ SyncHolds
  BY DEF LockInv
<1> USE BoundsAssumption
<1>1. CASE UNCHANGED vars
  BY <1>1 DEF LockInv, LockDiscipline, StageDiscipline, SyncHolds, stillOwned, fenced, vars, disk, lease, local
<1>2. ASSUME NEW p \in Process, BeginRefresh(p) PROVE LockInv'
  <2>1. LockDiscipline'
    BY <1>2 DEF TypeOK, LockDiscipline, BeginRefresh, At, Goto, lease, disk
  <2>2. StageDiscipline'
    BY <1>2 DEF TypeOK, StageDiscipline, BeginRefresh, At, Goto, lease, disk
  <2>3. SyncHolds'
    BY <1>2 DEF TypeOK, LockDiscipline, StageDiscipline, SyncHolds, stillOwned, fenced, BeginRefresh, At, Goto, lease, disk
  <2> QED
    BY <2>1, <2>2, <2>3 DEF LockInv
<1>3. ASSUME NEW p \in Process, Evict(p) PROVE LockInv'
  <2>1. LockDiscipline'
    BY <1>3 DEF TypeOK, LockDiscipline, Evict, At, local, disk, evictable
  <2>2. StageDiscipline'
    BY <1>3 DEF TypeOK, StageDiscipline, Evict, At, local, disk, evictable
  <2>3. SyncHolds'
    BY <1>3 DEF TypeOK, LockDiscipline, StageDiscipline, SyncHolds, stillOwned, fenced, Evict, At, local, disk, evictable
  <2> QED
    BY <2>1, <2>2, <2>3 DEF LockInv
<1>4. ASSUME NEW p \in Process, Acquire(p) PROVE LockInv'
  <2>1. LockDiscipline'
    BY <1>4 DEF TypeOK, LockDiscipline, Acquire, At, Goto, disk, mkdirLock
  <2>2. StageDiscipline'
    BY <1>4 DEF TypeOK, StageDiscipline, Acquire, At, Goto, disk, mkdirLock
  <2>3. SyncHolds'
    BY <1>4 DEF TypeOK, LockDiscipline, StageDiscipline, SyncHolds, stillOwned, fenced, Acquire, At, Goto, disk, mkdirLock
  <2> QED
    BY <2>1, <2>2, <2>3 DEF LockInv
<1>5. ASSUME NEW p \in Process, GiveUpWaiting(p) PROVE LockInv'
  <2>1. LockDiscipline'
    BY <1>5 DEF TypeOK, LockDiscipline, GiveUpWaiting, At, Goto, disk, lease, Finish
  <2>2. StageDiscipline'
    BY <1>5 DEF TypeOK, StageDiscipline, GiveUpWaiting, At, Goto, disk, lease, Finish
  <2>3. SyncHolds'
    BY <1>5 DEF TypeOK, LockDiscipline, StageDiscipline, SyncHolds, stillOwned, fenced, GiveUpWaiting, At, Goto, disk, lease, Finish
  <2> QED
    BY <2>1, <2>2, <2>3 DEF LockInv
<1>6. ASSUME NEW p \in Process, Inspect(p) PROVE LockInv'
  <2>1. LockDiscipline'
    BY <1>6 DEF TypeOK, LockDiscipline, Inspect, At, Goto, disk, lease
  <2>2. StageDiscipline'
    BY <1>6 DEF TypeOK, StageDiscipline, Inspect, At, Goto, disk, lease
  <2>3. SyncHolds'
    BY <1>6 DEF TypeOK, LockDiscipline, StageDiscipline, SyncHolds, stillOwned, fenced, Inspect, At, Goto, disk, lease
  <2> QED
    BY <2>1, <2>2, <2>3 DEF LockInv
<1>7. ASSUME NEW p \in Process, Exchange(p) PROVE LockInv'
  <2>1. LockDiscipline'
    BY <1>7 DEF TypeOK, LockDiscipline, Exchange, At, Goto, lease
  <2>0. issued < MaxToken => issued + 1 \in Token
    BY DEF TypeOK, Token
  <2>2. StageDiscipline'
    BY <1>7, <2>0 DEF TypeOK, StageDiscipline, Exchange, At, Goto, lease
  <2>3. SyncHolds'
    BY <1>7 DEF TypeOK, LockDiscipline, StageDiscipline, SyncHolds, stillOwned, fenced, Exchange, At, Goto, lease
  <2> QED
    BY <2>1, <2>2, <2>3 DEF LockInv
<1>8. ASSUME NEW p \in Process, ExchangeFails(p) PROVE LockInv'
  <2>1. LockDiscipline'
    BY <1>8 DEF TypeOK, LockDiscipline, ExchangeFails, At, Goto, disk, lease
  <2>2. StageDiscipline'
    BY <1>8 DEF TypeOK, StageDiscipline, ExchangeFails, At, Goto, disk, lease
  <2>3. SyncHolds'
    BY <1>8 DEF TypeOK, LockDiscipline, StageDiscipline, SyncHolds, stillOwned, fenced, ExchangeFails, At, Goto, disk, lease
  <2> QED
    BY <2>1, <2>2, <2>3 DEF LockInv
<1>9. ASSUME NEW p \in Process, AnswerLost(p) PROVE LockInv'
  <2>1. LockDiscipline'
    BY <1>9 DEF TypeOK, LockDiscipline, AnswerLost, At, Goto, disk, lease
  <2>2. StageDiscipline'
    BY <1>9 DEF TypeOK, StageDiscipline, AnswerLost, At, Goto, disk, lease
  <2>3. SyncHolds'
    BY <1>9 DEF TypeOK, LockDiscipline, StageDiscipline, SyncHolds, stillOwned, fenced, AnswerLost, At, Goto, disk, lease
  <2> QED
    BY <2>1, <2>2, <2>3 DEF LockInv
<1>10. ASSUME NEW p \in Process, Settle(p) PROVE LockInv'
  <2>1. LockDiscipline'
    BY <1>10 DEF TypeOK, LockDiscipline, Settle, At, Goto, disk, lease
  <2>2. StageDiscipline'
    BY <1>10 DEF TypeOK, StageDiscipline, Settle, At, Goto, disk, lease
  <2>3. SyncHolds'
    BY <1>10 DEF TypeOK, LockDiscipline, StageDiscipline, SyncHolds, stillOwned, fenced, Settle, At, Goto, disk, lease
  <2> QED
    BY <2>1, <2>2, <2>3 DEF LockInv
<1>11. ASSUME NEW p \in Process, Refused(p) PROVE LockInv'
  <2>1. LockDiscipline'
    BY <1>11 DEF TypeOK, LockDiscipline, Refused, At, Goto, disk, lease
  <2>2. StageDiscipline'
    BY <1>11 DEF TypeOK, StageDiscipline, Refused, At, Goto, disk, lease
  <2>3. SyncHolds'
    BY <1>11 DEF TypeOK, LockDiscipline, StageDiscipline, SyncHolds, stillOwned, fenced, Refused, At, Goto, disk, lease
  <2> QED
    BY <2>1, <2>2, <2>3 DEF LockInv
<1>12. ASSUME NEW p \in Process, NEW o \in SyncOperation, BeginSync(p, o)
      PROVE LockInv'
  <2>1. LockDiscipline'
    BY <1>12 DEF TypeOK, LockDiscipline, BeginSync, At, Goto, disk, SyncOperation
  <2>2. StageDiscipline'
    BY <1>12 DEF TypeOK, StageDiscipline, BeginSync, At, Goto, disk, SyncOperation
  <2>3. SyncHolds'
    BY <1>12 DEF TypeOK, LockDiscipline, StageDiscipline, SyncHolds, stillOwned, fenced, BeginSync, At, Goto, disk, SyncOperation
  <2> QED
    BY <2>1, <2>2, <2>3 DEF LockInv
<1>13. ASSUME NEW p \in Process, PlanSync(p) PROVE LockInv'
  <2>1. LockDiscipline'
    BY <1>13 DEF TypeOK, LockDiscipline, PlanSync, At, Goto, disk, lease
  <2>2. StageDiscipline'
    BY <1>13 DEF TypeOK, StageDiscipline, PlanSync, At, Goto, disk, lease
  <2>3. SyncHolds'
    BY <1>13 DEF TypeOK, LockDiscipline, StageDiscipline, SyncHolds, stillOwned, fenced, PlanSync, At, Goto, disk, lease
  <2> QED
    BY <2>1, <2>2, <2>3 DEF LockInv
<1>14. ASSUME NEW p \in Process, Write1(p) PROVE LockInv'
  <2>1. LockDiscipline'
    BY <1>14 DEF TypeOK, LockDiscipline, Write1, At, Goto, lease
  <2>2. StageDiscipline'
    BY <1>14 DEF TypeOK, StageDiscipline, Write1, At, Goto, lease
  <2>3. SyncHolds'
    BY <1>14 DEF TypeOK, LockDiscipline, StageDiscipline, SyncHolds, stillOwned, fenced, Write1, At, Goto, lease
  <2> QED
    BY <2>1, <2>2, <2>3 DEF LockInv
<1>15. ASSUME NEW p \in Process, Write2(p) PROVE LockInv'
  <2>1. LockDiscipline'
    BY <1>15 DEF TypeOK, LockDiscipline, Write2, At, Goto, lease
  <2>2. StageDiscipline'
    BY <1>15 DEF TypeOK, StageDiscipline, Write2, At, Goto, lease
  <2>3. SyncHolds'
    BY <1>15 DEF TypeOK, LockDiscipline, StageDiscipline, SyncHolds, stillOwned, fenced, Write2, At, Goto, lease
  <2> QED
    BY <2>1, <2>2, <2>3 DEF LockInv
<1>16. ASSUME NEW p \in Process, Release(p) PROVE LockInv'
  <2>1. LockDiscipline'
    BY <1>16 DEF TypeOK, LockDiscipline, Release, At, Goto, disk, Finish, unlock, stillOwned
  <2>2. StageDiscipline'
    BY <1>16 DEF TypeOK, StageDiscipline, Release, At, Goto, disk, Finish, unlock, stillOwned
  <2>3. SyncHolds'
    BY <1>16 DEF TypeOK, LockDiscipline, StageDiscipline, SyncHolds, stillOwned, fenced, Release, At, Goto, disk, Finish, unlock
  <2> QED
    BY <2>1, <2>2, <2>3 DEF LockInv
<1>17. ASSUME NEW p \in Process, Heartbeat(p) PROVE LockInv'
  <2>1. LockDiscipline'
    BY <1>17 DEF TypeOK, LockDiscipline, Heartbeat, At, disk
  <2>2. StageDiscipline'
    BY <1>17 DEF TypeOK, StageDiscipline, Heartbeat, At, disk
  <2>3. SyncHolds'
    BY <1>17 DEF TypeOK, LockDiscipline, StageDiscipline, SyncHolds, stillOwned, fenced, Heartbeat, At, disk, Awaiting
  <2> QED
    BY <2>1, <2>2, <2>3 DEF LockInv
<1>18. ASSUME NEW p \in Process, Stall(p) PROVE LockInv'
  <2>1. LockDiscipline'
    BY <1>18 DEF TypeOK, LockDiscipline, Stall, At, disk, local
  <2>2. StageDiscipline'
    BY <1>18 DEF TypeOK, StageDiscipline, Stall, At, disk, local
  <2>3. SyncHolds'
    BY <1>18 DEF TypeOK, LockDiscipline, StageDiscipline, SyncHolds, stillOwned, fenced, Stall, At, disk, local, Awaiting
  <2> QED
    BY <2>1, <2>2, <2>3 DEF LockInv
<1>19. ASSUME NEW p \in Process, Timeout(p) PROVE LockInv'
  <2>1. LockDiscipline'
    BY <1>19 DEF TypeOK, LockDiscipline, Timeout, At, disk, lease
  <2>2. StageDiscipline'
    BY <1>19 DEF TypeOK, StageDiscipline, Timeout, At, disk, lease
  <2>3. SyncHolds'
    BY <1>19 DEF TypeOK, LockDiscipline, StageDiscipline, SyncHolds, stillOwned, fenced, Timeout, At, disk, lease, Awaiting
  <2> QED
    BY <2>1, <2>2, <2>3 DEF LockInv
<1>20. ASSUME NEW p \in Process, Crash(p) PROVE LockInv'
  <2>1. LockDiscipline'
    BY <1>20 DEF TypeOK, LockDiscipline, Crash, At, Goto, disk, lease, Finish
  <2>2. StageDiscipline'
    BY <1>20 DEF TypeOK, StageDiscipline, Crash, At, Goto, disk, lease, Finish
  <2>3. SyncHolds'
    BY <1>20 DEF TypeOK, LockDiscipline, StageDiscipline, SyncHolds, stillOwned, fenced, Crash, At, Goto, disk, lease, Finish
  <2> QED
    BY <2>1, <2>2, <2>3 DEF LockInv
<1>21. CASE Age
  BY <1>21 DEF LockInv, LockDiscipline, StageDiscipline, SyncHolds, stillOwned, fenced, Age, disk, local
<1>22. CASE HostLogin \/ ForeignLogin \/ HostRemove
  <2>1. UNCHANGED lease /\ UNCHANGED local
    BY <1>22 DEF HostLogin, ForeignLogin, HostRemove
  <2> QED
    BY <2>1 DEF LockInv, LockDiscipline, StageDiscipline, SyncHolds, stillOwned, fenced, lease, local
<1>23. ASSUME NEW p \in Process, Step(p) PROVE LockInv'
  BY <1>23, <1>2, <1>3, <1>4, <1>5, <1>6, <1>7, <1>8, <1>9, <1>10, <1>11, <1>12, <1>13, <1>14, <1>15, <1>16, <1>17, <1>18, <1>19, <1>20 DEF Step
<1> QED
  BY <1>1, <1>21, <1>22, <1>23 DEF Next
-----------------------------------------------------------------------------
(* The placeholder is backed at every step of every transaction. *)

\* A step of p that leaves the files alone and takes p to no write: what the
\* others are about to write is as it was, and nobody gains the lock.
LEMMA QuietStep ==
  ASSUME CommitBacked, PlaceholderBacked, NEW p \in Process,
         UNCHANGED files, pc'[p] \notin {"write1", "write2"},
         \A q \in Process \ {p} :
           /\ pc'[q] = pc[q] /\ op'[q] = op[q]
           /\ plan'[q] = plan[q] /\ snapshot'[q] = snapshot[q]
           /\ stillOwned(q)' => stillOwned(q)
  PROVE  CommitBacked' /\ PlaceholderBacked'
<1>1. PlaceholderBacked'
  BY DEF PlaceholderBacked
<1>2. CommitBacked'
  BY DEF CommitBacked, writesSidecarFirst
<1> QED
  BY <1>1, <1>2

\* A step that keeps every transaction where it is.
LEMMA StillStep ==
  ASSUME CommitBacked, PlaceholderBacked,
         UNCHANGED <<files, lock, identity, pc, op, plan, snapshot>>
  PROVE  CommitBacked' /\ PlaceholderBacked'
<1>1. PlaceholderBacked'
  BY DEF PlaceholderBacked
<1>2. CommitBacked'
  BY DEF CommitBacked, writesSidecarFirst, stillOwned
<1> QED
  BY <1>1, <1>2

LEMMA BackedStep ==
  ASSUME TypeOK, LockInv, CommitBacked, PlaceholderBacked, [Next]_vars
  PROVE  CommitBacked' /\ PlaceholderBacked'
<1> DEFINE Goal == CommitBacked' /\ PlaceholderBacked'
<1> LockDiscipline /\ StageDiscipline /\ SyncHolds
  BY DEF LockInv
<1> USE BoundsAssumption, EntryAssumption
<1>1. CASE UNCHANGED vars
  BY <1>1, StillStep DEF vars, disk, lease, local
<1>2. ASSUME NEW p \in Process, BeginRefresh(p) PROVE Goal
  <2>1. UNCHANGED files /\ pc'[p] \notin {"write1", "write2"}
    BY <1>2 DEF TypeOK, BeginRefresh, Goto, disk, lease
  <2>2. ASSUME NEW q \in Process \ {p}
        PROVE  /\ pc'[q] = pc[q] /\ op'[q] = op[q]
               /\ plan'[q] = plan[q] /\ snapshot'[q] = snapshot[q]
    BY <1>2 DEF TypeOK, BeginRefresh, Goto, disk, lease
  <2>3. ASSUME NEW q \in Process \ {p}, stillOwned(q)' PROVE stillOwned(q)
    BY <1>2, <2>3 DEF TypeOK, LockDiscipline, stillOwned, BeginRefresh, Goto, disk, lease
  <2> QED
    BY <2>1, <2>2, <2>3, QuietStep
<1>3. ASSUME NEW p \in Process, Acquire(p) PROVE Goal
  <2>1. UNCHANGED files /\ pc'[p] \notin {"write1", "write2"}
    BY <1>3 DEF TypeOK, Acquire, Goto, disk, mkdirLock
  <2>2. ASSUME NEW q \in Process \ {p}
        PROVE  /\ pc'[q] = pc[q] /\ op'[q] = op[q]
               /\ plan'[q] = plan[q] /\ snapshot'[q] = snapshot[q]
    BY <1>3 DEF TypeOK, Acquire, Goto, disk, mkdirLock
  <2>3. ASSUME NEW q \in Process \ {p}, stillOwned(q)' PROVE stillOwned(q)
    BY <1>3, <2>3 DEF TypeOK, LockDiscipline, stillOwned, Acquire, Goto, disk, mkdirLock
  <2> QED
    BY <2>1, <2>2, <2>3, QuietStep
<1>4. ASSUME NEW p \in Process, GiveUpWaiting(p) PROVE Goal
  <2>1. UNCHANGED files /\ pc'[p] \notin {"write1", "write2"}
    BY <1>4 DEF TypeOK, Finish, GiveUpWaiting, Goto, disk, lease
  <2>2. ASSUME NEW q \in Process \ {p}
        PROVE  /\ pc'[q] = pc[q] /\ op'[q] = op[q]
               /\ plan'[q] = plan[q] /\ snapshot'[q] = snapshot[q]
    BY <1>4 DEF TypeOK, Finish, GiveUpWaiting, Goto, disk, lease
  <2>3. ASSUME NEW q \in Process \ {p}, stillOwned(q)' PROVE stillOwned(q)
    BY <1>4, <2>3 DEF TypeOK, LockDiscipline, stillOwned, Finish, GiveUpWaiting, Goto, disk, lease
  <2> QED
    BY <2>1, <2>2, <2>3, QuietStep
<1>5. ASSUME NEW p \in Process, Inspect(p) PROVE Goal
  <2>1. UNCHANGED files /\ pc'[p] \notin {"write1", "write2"}
    BY <1>5 DEF TypeOK, Goto, Inspect, disk, lease
  <2>2. ASSUME NEW q \in Process \ {p}
        PROVE  /\ pc'[q] = pc[q] /\ op'[q] = op[q]
               /\ plan'[q] = plan[q] /\ snapshot'[q] = snapshot[q]
    BY <1>5 DEF TypeOK, Goto, Inspect, disk, lease
  <2>3. ASSUME NEW q \in Process \ {p}, stillOwned(q)' PROVE stillOwned(q)
    BY <1>5, <2>3 DEF TypeOK, LockDiscipline, stillOwned, Goto, Inspect, disk, lease
  <2> QED
    BY <2>1, <2>2, <2>3, QuietStep
<1>6. ASSUME NEW p \in Process, Exchange(p) PROVE Goal
  <2>1. UNCHANGED files /\ pc'[p] \notin {"write1", "write2"}
    BY <1>6 DEF TypeOK, Exchange, Goto, lease
  <2>2. ASSUME NEW q \in Process \ {p}
        PROVE  /\ pc'[q] = pc[q] /\ op'[q] = op[q]
               /\ plan'[q] = plan[q] /\ snapshot'[q] = snapshot[q]
    BY <1>6 DEF TypeOK, Exchange, Goto, lease
  <2>3. ASSUME NEW q \in Process \ {p}, stillOwned(q)' PROVE stillOwned(q)
    BY <1>6, <2>3 DEF TypeOK, LockDiscipline, stillOwned, Exchange, Goto, lease
  <2> QED
    BY <2>1, <2>2, <2>3, QuietStep
<1>7. ASSUME NEW p \in Process, ExchangeFails(p) PROVE Goal
  <2>1. UNCHANGED files /\ pc'[p] \notin {"write1", "write2"}
    BY <1>7 DEF TypeOK, ExchangeFails, Goto, disk, lease
  <2>2. ASSUME NEW q \in Process \ {p}
        PROVE  /\ pc'[q] = pc[q] /\ op'[q] = op[q]
               /\ plan'[q] = plan[q] /\ snapshot'[q] = snapshot[q]
    BY <1>7 DEF TypeOK, ExchangeFails, Goto, disk, lease
  <2>3. ASSUME NEW q \in Process \ {p}, stillOwned(q)' PROVE stillOwned(q)
    BY <1>7, <2>3 DEF TypeOK, LockDiscipline, stillOwned, ExchangeFails, Goto, disk, lease
  <2> QED
    BY <2>1, <2>2, <2>3, QuietStep
<1>8. ASSUME NEW p \in Process, AnswerLost(p) PROVE Goal
  <2>1. UNCHANGED files /\ pc'[p] \notin {"write1", "write2"}
    BY <1>8 DEF TypeOK, AnswerLost, Goto, disk, lease
  <2>2. ASSUME NEW q \in Process \ {p}
        PROVE  /\ pc'[q] = pc[q] /\ op'[q] = op[q]
               /\ plan'[q] = plan[q] /\ snapshot'[q] = snapshot[q]
    BY <1>8 DEF TypeOK, AnswerLost, Goto, disk, lease
  <2>3. ASSUME NEW q \in Process \ {p}, stillOwned(q)' PROVE stillOwned(q)
    BY <1>8, <2>3 DEF TypeOK, LockDiscipline, stillOwned, AnswerLost, Goto, disk, lease
  <2> QED
    BY <2>1, <2>2, <2>3, QuietStep
<1>9. ASSUME NEW p \in Process, Refused(p) PROVE Goal
  <2>1. UNCHANGED files /\ pc'[p] \notin {"write1", "write2"}
    BY <1>9 DEF TypeOK, Goto, Refused, disk, lease
  <2>2. ASSUME NEW q \in Process \ {p}
        PROVE  /\ pc'[q] = pc[q] /\ op'[q] = op[q]
               /\ plan'[q] = plan[q] /\ snapshot'[q] = snapshot[q]
    BY <1>9 DEF TypeOK, Goto, Refused, disk, lease
  <2>3. ASSUME NEW q \in Process \ {p}, stillOwned(q)' PROVE stillOwned(q)
    BY <1>9, <2>3 DEF TypeOK, LockDiscipline, stillOwned, Goto, Refused, disk, lease
  <2> QED
    BY <2>1, <2>2, <2>3, QuietStep
<1>10. ASSUME NEW p \in Process, Release(p) PROVE Goal
  <2>1. UNCHANGED files /\ pc'[p] \notin {"write1", "write2"}
    BY <1>10 DEF TypeOK, Finish, Goto, Release, disk, unlock
  <2>2. ASSUME NEW q \in Process \ {p}
        PROVE  /\ pc'[q] = pc[q] /\ op'[q] = op[q]
               /\ plan'[q] = plan[q] /\ snapshot'[q] = snapshot[q]
    BY <1>10 DEF TypeOK, Finish, Goto, Release, disk, unlock
  <2>3. ASSUME NEW q \in Process \ {p}, stillOwned(q)' PROVE stillOwned(q)
    BY <1>10, <2>3 DEF TypeOK, LockDiscipline, stillOwned, Finish, Goto, Release, disk, unlock
  <2> QED
    BY <2>1, <2>2, <2>3, QuietStep
<1>11. ASSUME NEW p \in Process, Crash(p) PROVE Goal
  <2>1. UNCHANGED files /\ pc'[p] \notin {"write1", "write2"}
    BY <1>11 DEF TypeOK, Crash, Finish, Goto, disk, lease
  <2>2. ASSUME NEW q \in Process \ {p}
        PROVE  /\ pc'[q] = pc[q] /\ op'[q] = op[q]
               /\ plan'[q] = plan[q] /\ snapshot'[q] = snapshot[q]
    BY <1>11 DEF TypeOK, Crash, Finish, Goto, disk, lease
  <2>3. ASSUME NEW q \in Process \ {p}, stillOwned(q)' PROVE stillOwned(q)
    BY <1>11, <2>3 DEF TypeOK, LockDiscipline, stillOwned, Crash, Finish, Goto, disk, lease
  <2> QED
    BY <2>1, <2>2, <2>3, QuietStep
<1>12. ASSUME NEW p \in Process, NEW o \in SyncOperation, BeginSync(p, o) PROVE Goal
  <2>1. UNCHANGED files /\ pc'[p] \notin {"write1", "write2"}
    BY <1>12 DEF TypeOK, BeginSync, Goto, disk
  <2>2. ASSUME NEW q \in Process \ {p}
        PROVE  /\ pc'[q] = pc[q] /\ op'[q] = op[q]
               /\ plan'[q] = plan[q] /\ snapshot'[q] = snapshot[q]
    BY <1>12 DEF TypeOK, BeginSync, Goto, disk
  <2>3. ASSUME NEW q \in Process \ {p}, stillOwned(q)' PROVE stillOwned(q)
    BY <1>12, <2>3 DEF TypeOK, LockDiscipline, stillOwned, BeginSync
  <2> QED
    BY <2>1, <2>2, <2>3, QuietStep
<1>13. ASSUME NEW p \in Process, Evict(p) PROVE Goal
  <2>1. PlaceholderBacked'
    BY <1>13 DEF Evict, disk, PlaceholderBacked
  <2>2. CommitBacked'
    BY <1>13 DEF Evict, disk, local, CommitBacked, writesSidecarFirst, stillOwned
  <2> QED
    BY <2>1, <2>2
<1>14. ASSUME NEW p \in Process, Heartbeat(p) \/ Stall(p) \/ Timeout(p) PROVE Goal
  BY <1>14, StillStep DEF Heartbeat, Stall, Timeout, disk, lease, local
<1>15. ASSUME NEW p \in Process, Settle(p) PROVE Goal
  <2>1. op[p] = "refresh" /\ minted[p] \in Token
    BY <1>15 DEF StageDiscipline, Settle, At
  <2>2. UNCHANGED <<files, lock, identity, op, snapshot>>
    BY <1>15 DEF Settle, disk, lease
  <2>3. \A q \in Process \ {p} : pc'[q] = pc[q] /\ plan'[q] = plan[q]
    BY <1>15 DEF TypeOK, Settle, Goto
  <2>4. pc'[p] \in {"release", "write1"}
    BY <1>15 DEF TypeOK, Settle, Goto
  <2>5. pc'[p] = "write1" => plan'[p] = persistRefreshed(snapshot[p], minted[p])
    BY <1>15 DEF TypeOK, Settle, Goto
  <2>6. pc'[p] = "write1" => (plan'[p].auth \in Facing => plan'[p].sidecar \in Token)
    BY <2>1, <2>5 DEF TypeOK, Files, persistRefreshed, Facing, Token
  <2>7. pc'[p] = "write1" => (snapshot[p].auth \in Facing => plan'[p].sidecar \in Token)
    BY <2>1, <2>5 DEF TypeOK, Files, persistRefreshed
  <2>8. PlaceholderBacked'
    BY <2>2 DEF PlaceholderBacked
  <2>9. CommitBacked'
    BY <2>1, <2>2, <2>3, <2>4, <2>6, <2>7 DEF CommitBacked, writesSidecarFirst, stillOwned
  <2> QED
    BY <2>8, <2>9
<1>16. ASSUME NEW p \in Process, PlanSync(p) PROVE Goal
  <2> DEFINE f == transform(op[p], files)
  <2>1. op[p] # "refresh"
    BY <1>16 DEF StageDiscipline, PlanSync, At
  <2>2. UNCHANGED <<files, lock, identity, op>>
    BY <1>16 DEF PlanSync, disk, lease
  <2>3. \A q \in Process \ {p} : pc'[q] = pc[q] /\ plan'[q] = plan[q] /\ snapshot'[q] = snapshot[q]
    BY <1>16 DEF TypeOK, PlanSync, Goto
  <2>4. pc'[p] \in {"release", "write1"} /\ plan'[p] = f
    BY <1>16 DEF TypeOK, PlanSync, Goto
  <2>5. pc'[p] = "write1" => f # files
    BY <1>16 DEF TypeOK, PlanSync, Goto
  <2>6. op[p] = "shadow" /\ f # files => f.sidecar \in Token
    BY DEF TypeOK, Files, transform, applyShadowPlan
  <2>7. op[p] = "restore" /\ f # files => f.auth \notin Facing
    BY DEF TypeOK, Files, transform, applyRestorePlan, Token, Facing
  <2>8. op[p] \notin {"shadow", "restore"} /\ f # files => f.auth \notin Facing
    BY DEF TypeOK, Files, transform, dropShadow
  <2> HIDE DEF f
  <2>9. PlaceholderBacked'
    BY <2>2 DEF PlaceholderBacked
  <2>10. CommitBacked'
    BY <2>1, <2>2, <2>3, <2>4, <2>5, <2>6, <2>7, <2>8 DEF CommitBacked, writesSidecarFirst, stillOwned
  <2> QED
    BY <2>9, <2>10
<1>17. ASSUME NEW p \in Process, Write1(p) PROVE Goal
  <2>1. UNCHANGED <<lock, identity, op, plan, snapshot>>
    BY <1>17 DEF Write1, lease
  <2>2. \A q \in Process \ {p} : pc'[q] = pc[q]
    BY <1>17 DEF TypeOK, Write1, Goto
  <2>3. CASE ~mayWrite1(p)
    <3>1. UNCHANGED files /\ pc'[p] = "release"
      BY <1>17, <2>3 DEF TypeOK, Write1, Goto
    <3> QED
      BY <2>1, <2>2, <3>1, QuietStep DEF stillOwned
  <2>4. CASE mayWrite1(p)
    <3>1. stillOwned(p) /\ pc[p] = "write1" /\ pc'[p] = "write2"
      BY <1>17, <2>4 DEF TypeOK, Write1, At, Goto, mayWrite1, assertOwned, SyncHolds
    <3>2. \A q \in Process \ {p} : ~stillOwned(q) /\ (pc[q] = "write2" => op[q] = "refresh")
      BY <3>1 DEF LockDiscipline, SyncHolds, stillOwned, fenced
    <3>3. CASE writesSidecarFirst(op[p])
      <4>1. files' = [files EXCEPT !.sidecar = plan[p].sidecar]
        BY <1>17, <2>4, <3>3 DEF Write1, replaceSidecar
      <4>2. files'.auth = files.auth /\ files'.sidecar = plan[p].sidecar
        BY <4>1 DEF TypeOK, Files
      <4>3. op[p] = "refresh" => files = snapshot[p]
        BY <2>4 DEF mayWrite1, fenced
      <4>4. PlaceholderBacked'
        BY <3>1, <3>3, <4>2, <4>3 DEF PlaceholderBacked, CommitBacked, writesSidecarFirst
      <4>5. CommitBacked'
        BY <2>1, <2>2, <3>1, <3>2, <3>3, <4>2 DEF CommitBacked, writesSidecarFirst, stillOwned
      <4> QED
        BY <4>4, <4>5
    <3>4. CASE ~writesSidecarFirst(op[p])
      <4>1. files' = [files EXCEPT !.auth = plan[p].auth]
        BY <1>17, <2>4, <3>4 DEF Write1, replaceAuth
      <4>2. files'.auth = plan[p].auth
        BY <4>1 DEF TypeOK, Files
      <4>3. plan[p].auth \notin Facing
        BY <3>1, <3>4 DEF CommitBacked
      <4>4. PlaceholderBacked'
        BY <4>2, <4>3 DEF PlaceholderBacked
      <4>5. CommitBacked'
        BY <2>1, <2>2, <3>1, <3>2, <3>4, <4>2, <4>3 DEF CommitBacked, writesSidecarFirst, stillOwned
      <4> QED
        BY <4>4, <4>5
    <3> QED
      BY <3>3, <3>4
  <2> QED
    BY <2>3, <2>4
<1>18. ASSUME NEW p \in Process, Write2(p) PROVE Goal
  <2>1. UNCHANGED <<lock, identity, op, plan, snapshot>>
    BY <1>18 DEF Write2, lease
  <2>2. pc'[p] = "release" /\ \A q \in Process \ {p} : pc'[q] = pc[q]
    BY <1>18 DEF TypeOK, Write2, Goto
  <2>3. CASE ~mayWrite2(p)
    <3>1. UNCHANGED files
      BY <1>18, <2>3 DEF Write2
    <3> QED
      BY <2>1, <2>2, <3>1, QuietStep DEF stillOwned
  <2>4. CASE mayWrite2(p)
    <3>1. stillOwned(p) /\ pc[p] = "write2"
      BY <1>18, <2>4 DEF Write2, At, mayWrite2, assertOwned, SyncHolds
    <3>2. \A q \in Process \ {p} : ~stillOwned(q) /\ (pc[q] = "write2" => op[q] = "refresh")
      BY <3>1 DEF LockDiscipline, SyncHolds, stillOwned, fenced
    <3>3. PlaceholderBacked'
      <4>1. CASE writesSidecarFirst(op[p])
        <5>1. files' = [files EXCEPT !.auth = plan[p].auth]
          BY <1>18, <2>4, <4>1 DEF Write2, replaceAuth
        <5>2. files'.auth = plan[p].auth /\ files'.sidecar = files.sidecar
          BY <5>1 DEF TypeOK, Files
        <5> QED
          BY <3>1, <4>1, <5>2 DEF PlaceholderBacked, CommitBacked
      <4>2. CASE ~writesSidecarFirst(op[p])
        <5>1. files' = [files EXCEPT !.sidecar = plan[p].sidecar]
          BY <1>18, <2>4, <4>2 DEF Write2, replaceSidecar
        <5>2. files'.auth = files.auth
          BY <5>1 DEF TypeOK, Files
        <5> QED
          BY <3>1, <4>2, <5>2 DEF PlaceholderBacked, CommitBacked
      <4> QED
        BY <4>1, <4>2
    <3>4. CommitBacked'
      BY <2>1, <2>2, <3>2 DEF CommitBacked, writesSidecarFirst, stillOwned
    <3> QED
      BY <3>3, <3>4
  <2> QED
    BY <2>3, <2>4
<1>19. CASE Age
  BY <1>19, StillStep DEF Age, disk, local
<1>20. CASE HostLogin \/ ForeignLogin \/ HostRemove
  <2>1. UNCHANGED <<lock, identity, pc, op, plan, snapshot>>
    BY <1>20 DEF HostLogin, ForeignLogin, HostRemove, lease, local
  <2>2. issued + 1 \in Nat
    BY DEF TypeOK
  <2>3. files'.auth \in Nat \cup {NoEntry} /\ files'.sidecar = files.sidecar
    BY <1>20, <2>2 DEF HostLogin, ForeignLogin, HostRemove, issueLogin, TypeOK, Files
  <2>4. files'.auth \notin Facing
    BY <2>3 DEF Facing
  <2>5. PlaceholderBacked'
    BY <2>4 DEF PlaceholderBacked
  <2>6. CommitBacked'
    BY <2>1, <2>3, <2>4 DEF CommitBacked, writesSidecarFirst, stillOwned
  <2> QED
    BY <2>5, <2>6
<1>21. ASSUME NEW p \in Process, Step(p) PROVE Goal
  BY <1>21, <1>2, <1>3, <1>4, <1>5, <1>6, <1>7, <1>8, <1>9, <1>10, <1>11, <1>12, <1>13, <1>14, <1>15, <1>16, <1>17, <1>18 DEF Step
<1> QED
  BY <1>1, <1>19, <1>20, <1>21 DEF Next

LEMMA BackedInit == Init => BackedInv
<1> SUFFICES ASSUME Init PROVE BackedInv
  OBVIOUS
<1>1. LockDiscipline /\ StageDiscipline /\ SyncHolds /\ CommitBacked
  BY DEF Init, LockDiscipline, StageDiscipline, SyncHolds, CommitBacked
<1>2. PlaceholderBacked
  BY BoundsAssumption, EntryAssumption DEF Init, PlaceholderBacked, Facing, Token
<1> QED
  BY <1>1, <1>2, TypeInit DEF BackedInv

\* The inductive invariant holds in every reachable state: the lock, stage and
\* commit disciplines of mutateProxyAuth and mutateProxyAuthAsync, together.
THEOREM BackedInvariant == Spec => []BackedInv
<1>1. BackedInv /\ [Next]_vars => BackedInv'
  BY TypeStep, LockStep, BackedStep DEF BackedInv, LockInv
<1> QED
  BY BackedInit, <1>1, PTL DEF Spec

\* A child-facing placeholder always has the login behind it: whatever the
\* interleaving of shadow, restore, refresh, removal, re-login and eviction, and
\* wherever a process dies.
THEOREM AlwaysBacked == Spec => []PlaceholderBacked
<1>1. BackedInv => PlaceholderBacked
  BY DEF BackedInv
<1> QED
  BY <1>1, BackedInvariant, PTL

\* Only the owner of the lock replaces a file.
THEOREM OnlyOwnerWrites == Spec => WritesByOwnerOnly
<1> DEFINE OwnerWrites ==
      \A p \in Process :
        pc[p] \in {"write1", "write2"} /\ pc'[p] # pc[p] /\ files' # files => stillOwned(p)
<1>1. ASSUME BackedInv, [Next]_vars, NEW p \in Process,
             pc[p] \in {"write1", "write2"}, pc'[p] # pc[p], files' # files
      PROVE  stillOwned(p)
  <2>1. (\E q \in Process : Write1(q) \/ Write2(q)) \/ UNCHANGED pc
    BY <1>1 DEF Next, Step, vars, local, disk, BeginRefresh, Evict, Acquire, GiveUpWaiting, Inspect,
       Exchange, ExchangeFails, AnswerLost, Settle, Refused, BeginSync, PlanSync, Release, Heartbeat,
       Stall, Timeout, Crash, Age, HostLogin, ForeignLogin, HostRemove
  <2>2. PICK q \in Process : Write1(q) \/ Write2(q)
    BY <1>1, <2>1
  <2>3. p = q
    BY <1>1, <2>2 DEF BackedInv, TypeOK, Write1, Write2, Goto
  <2>4. (mayWrite1(p) /\ pc[p] = "write1") \/ (mayWrite2(p) /\ pc[p] = "write2")
    BY <1>1, <2>2, <2>3 DEF Write1, Write2, At
  <2> QED
    BY <1>1, <2>4 DEF BackedInv, SyncHolds, mayWrite1, mayWrite2, assertOwned
<1>2. BackedInv /\ [Next]_vars => OwnerWrites
  BY <1>1
<1> QED
  BY <1>2, BackedInvariant, PTL DEF Spec, WritesByOwnerOnly

\* A contender, a finishing transaction or a crash never takes a lock that its
\* living owner keeps fresh.
THEOREM FreshLockIsKept == Spec => FreshLockKept
<1> DEFINE Kept ==
      \A p \in Process : stillOwned(p) /\ fresh /\ lock' # lock => identity'[p] = 0
<1>1. ASSUME BackedInv, [Next]_vars, NEW p \in Process, stillOwned(p), fresh, lock' # lock
      PROVE  identity'[p] = 0
  <2>1. \E q \in Process : Release(q)
    BY <1>1 DEF Next, Step, vars, lease, BeginRefresh, Evict, evictable, Acquire, mkdirLock,
       GiveUpWaiting, Inspect, Exchange, ExchangeFails, AnswerLost, Settle, Refused, BeginSync,
       PlanSync, Write1, Write2, Heartbeat, Stall, Timeout, Crash, Age, HostLogin, ForeignLogin,
       HostRemove, stillOwned
  <2>2. PICK q \in Process : Release(q)
    BY <2>1
  <2>3. p = q
    BY <1>1, <2>2 DEF BackedInv, LockDiscipline, Release, unlock, stillOwned
  <2> QED
    BY <1>1, <2>2, <2>3 DEF BackedInv, TypeOK, Release, Finish
<1>2. BackedInv /\ [Next]_vars => Kept
  BY <1>1
<1> QED
  BY <1>2, BackedInvariant, PTL DEF Spec, FreshLockKept

-----------------------------------------------------------------------------
(* The stored login: that it survives, is never replaced by an older one    *)
(* and never comes back once removed.  Its inductive invariant.             *)

\* The login a transaction found, and those whose exchange has been answered.
Found(p) == mergeParentAuth(snapshot[p])
Carries(p) == pc[p] = "answered" \/ (pc[p] \in {"write1", "write2"} /\ fenced(p))

\* Its new token is in no file yet.
Unwritten(p) ==
  /\ Carries(p)
  /\ pc[p] = "write2" => snapshot[p].auth \notin Facing

\* Only tokens the provider has issued are seen.
Seen(t) == t \in Token => t <= issued
Numbered ==
  /\ Seen(files.auth) /\ Seen(files.sidecar) /\ \A t \in live : t <= issued
  /\ \A p \in Process : /\ Seen(snapshot[p].auth) /\ Seen(snapshot[p].sidecar)
                        /\ Seen(plan[p].auth) /\ Seen(plan[p].sidecar) /\ Seen(minted[p])

\* What a transaction knows at each of its stages.
Planned(p) ==
  IF fenced(p) THEN persistRefreshed(snapshot[p], minted[p]) ELSE transform(op[p], snapshot[p])

Knows(p) ==
  /\ pc[p] \in {"waiting", "acquired"} => captured[p] \in Token
  /\ pc[p] \in {"exchange", "refused"} \/ Carries(p) => Found(p) \in Token
  /\ pc[p] = "refused" => Found(p) \notin live
  /\ Carries(p) => minted[p] \in Token /\ Found(p) < minted[p]
  /\ pc[p] \in {"write1", "write2"} => plan[p] = Planned(p)
  /\ pc[p] \in {"write1", "write2"} /\ ~fenced(p) => plan[p] # snapshot[p]

\* The files between the reading and the last replacement: as they were read, and
\* as the first replacement left them, unless a writer without the lock came in.
Halfway(p) ==
  IF writesSidecarFirst(op[p]) THEN [snapshot[p] EXCEPT !.sidecar = plan[p].sidecar]
                               ELSE [snapshot[p] EXCEPT !.auth = plan[p].auth]

Undisturbed(p) ==
  /\ pc[p] = "write1" /\ ~fenced(p) =>
       /\ "foreign write" \notin mishaps => files = snapshot[p]
       /\ snapshot[p].auth # NoEntry => files.auth # NoEntry
  /\ pc[p] = "write2" /\ stillOwned(p) =>
       /\ "foreign write" \notin mishaps => files = Halfway(p)
       /\ snapshot[p].auth # NoEntry => files.auth # NoEntry

\* A token nobody has written is accepted, and nobody else has it.
Lacks(f, t) == f.auth # t /\ f.sidecar # t
Unique(p) ==
  Unwritten(p) =>
    /\ minted[p] \in live /\ Lacks(files, minted[p])
    /\ \A q \in Process : Lacks(snapshot[q], minted[p])
    /\ \A q \in Process \ {p} : Lacks(plan[q], minted[p]) /\ minted[q] # minted[p]

\* A stored login the provider no longer accepts was spent by a transaction that
\* has its successor in hand.
Replaced ==
  Effective \in Token /\ Effective \notin live /\ mishaps = {} =>
    \E p \in Process : Unwritten(p) /\ Found(p) = Effective

LoginKnown ==
  /\ Numbered
  /\ \A p \in Process : Knows(p) /\ Undisturbed(p) /\ Unique(p)
  /\ Replaced

LoginInv == BackedInv /\ LoginKnown

-----------------------------------------------------------------------------
(* The shapes of the steps.                                                 *)

Same(q) ==
  /\ pc'[q] = pc[q] /\ op'[q] = op[q] /\ captured'[q] = captured[q]
  /\ snapshot'[q] = snapshot[q] /\ plan'[q] = plan[q] /\ minted'[q] = minted[q]
  /\ stillOwned(q)' => stillOwned(q)

Others(p) == \A q \in Process \ {p} : Same(q)

\* The process turns to a stage without a write to make; if it lets go of a
\* token nobody has written, the login it found is good, gone, or lost by a mishap.
Turns(p) ==
  /\ UNCHANGED <<files, live, issued>> /\ Others(p) /\ mishaps \subseteq mishaps'
  /\ pc'[p] \notin {"answered", "write1", "write2"} /\ Knows(p)'
  /\ snapshot'[p] \in {snapshot[p], files, Nothing}
  /\ plan'[p] \in {plan[p], files, Nothing} /\ minted'[p] \in {minted[p], NoEntry}
  /\ Unwritten(p) /\ Found(p) = Effective /\ mishaps' = {} => Effective \in live

\* No process moves, and no file, token or mishap changes.
Waits ==
  UNCHANGED <<files, live, issued, mishaps>> /\ \A q \in Process : Same(q)

Rotates(p) ==
  /\ pc[p] = "exchange" /\ pc'[p] = "answered" /\ Found(p) \in live
  /\ issued' = issued + 1 /\ issued' \in Token
  /\ live' = (live \ {Found(p)}) \cup {issued + 1} /\ minted'[p] = issued + 1
  /\ op'[p] = op[p] /\ snapshot'[p] = snapshot[p] /\ plan'[p] = plan[p]
  /\ UNCHANGED <<files, mishaps>> /\ Others(p)

\* A commit is planned: of the answer of an exchange, or of the files as they are.
Plans(p) ==
  /\ pc'[p] = "write1" /\ op'[p] = op[p] /\ minted'[p] = minted[p]
  /\ \/ /\ pc[p] = "answered" /\ snapshot'[p] = snapshot[p]
        /\ plan'[p] = persistRefreshed(snapshot[p], minted[p])
     \/ /\ pc[p] = "plan" /\ snapshot'[p] = files /\ plan'[p] = transform(op[p], files)
        /\ plan'[p] # files
  /\ UNCHANGED <<files, live, issued, mishaps>> /\ Others(p)

\* A file is replaced, the first of the two or the second.
Replaces(p) ==
  /\ \/ pc[p] = "write1" /\ mayWrite1(p) /\ pc'[p] = "write2"
        /\ IF writesSidecarFirst(op[p]) THEN replaceSidecar(p) ELSE replaceAuth(p)
     \/ pc[p] = "write2" /\ mayWrite2(p) /\ pc'[p] = "release"
        /\ IF writesSidecarFirst(op[p]) THEN replaceAuth(p) ELSE replaceSidecar(p)
  /\ op'[p] = op[p] /\ snapshot'[p] = snapshot[p] /\ plan'[p] = plan[p] /\ minted'[p] = minted[p]
  /\ UNCHANGED <<live, issued, mishaps, lock, identity>> /\ Others(p)

Outside == HostLogin \/ ForeignLogin \/ HostRemove

-----------------------------------------------------------------------------
(* Every step has one of these shapes.                                      *)

LEMMA EntryTypes ==
  /\ NoEntry \notin Token /\ Nothing.auth = NoEntry /\ Nothing.sidecar = NoEntry
  /\ \A e \in Facing : e \notin Token /\ e # NoEntry
  BY EntryAssumption DEF Token, Facing, Nothing

\* What a transaction that ends without writing its token says of it.
LEMMA Forfeited ==
  ASSUME LoginInv, NEW p \in Process, NEW m, Forfeit(p, m)
  PROVE  /\ mishaps \subseteq mishaps'
         /\ Unwritten(p) /\ mishaps' = {} => Effective \in live
  BY DEF Forfeit, LoginInv, LoginKnown, Knows, Unwritten

LEMMA FinishTurns ==
  ASSUME LoginInv, NEW p \in Process, Finish(p), UNCHANGED <<files, live, issued>>,
         mishaps \subseteq mishaps', lock' # 0 => lock' = lock,
         Unwritten(p) /\ Found(p) = Effective /\ mishaps' = {} => Effective \in live
  PROVE  Turns(p)
<1>1. TypeOK
  BY DEF LoginInv, BackedInv
<1>2. /\ pc'[p] = "idle" /\ snapshot'[p] = Nothing /\ plan'[p] = Nothing /\ minted'[p] = NoEntry
  BY <1>1 DEF Finish, Goto, TypeOK
<1>3. Others(p)
  BY <1>1 DEF Finish, Goto, TypeOK, Others, Same, stillOwned
<1>4. Knows(p)'
  BY <1>2 DEF Knows, Carries
<1> QED
  BY <1>2, <1>3, <1>4 DEF Turns

LEMMA Shapes ==
  ASSUME LoginInv, NEW p \in Process, Step(p)
  PROVE  Turns(p) \/ Waits \/ Rotates(p) \/ Plans(p) \/ Replaces(p)
<1>1. TypeOK /\ StageDiscipline /\ LockDiscipline
  BY DEF LoginInv, BackedInv
<1>2. CASE BeginRefresh(p)
  <2>1. Knows(p)'
    BY <1>1, <1>2 DEF BeginRefresh, Knows, Carries, Goto, TypeOK
  <2> QED
    BY <1>1, <1>2, <2>1
       DEF BeginRefresh, Turns, Others, Same, stillOwned, Goto, TypeOK, disk, lease, Unwritten, Carries, At
<1>3. CASE Evict(p)
  BY <1>1, <1>3 DEF Evict, Waits, Same, stillOwned, disk, local
<1>4. CASE Acquire(p)
  <2>1. Knows(p)'
    BY <1>1, <1>4 DEF Acquire, Knows, Carries, Goto, TypeOK, LoginInv, LoginKnown, At
  <2>2. Others(p)
    BY <1>1, <1>4 DEF Acquire, Others, Same, stillOwned, Goto, TypeOK, mkdirLock, LockDiscipline
  <2> QED
    BY <1>1, <1>4, <2>1, <2>2
       DEF Acquire, Turns, Goto, TypeOK, disk, Unwritten, Carries, At
<1>5. CASE GiveUpWaiting(p)
  BY <1>5, FinishTurns DEF GiveUpWaiting, disk, lease, At, Unwritten, Carries
<1>6. CASE Inspect(p)
  <2>1. /\ snapshot'[p] = files /\ pc'[p] \in {"exchange", "release"}
        /\ pc'[p] = "exchange" => Effective = captured[p]
    BY <1>1, <1>6 DEF Inspect, Goto, TypeOK
  <2>2. captured[p] \in Token
    BY <1>6 DEF Inspect, At, LoginInv, LoginKnown, Knows
  <2>3. Knows(p)'
    BY <2>1, <2>2 DEF Knows, Carries, Found, Effective
  <2> QED
    BY <1>1, <1>6, <2>1, <2>3
       DEF Inspect, Turns, Others, Same, stillOwned, Goto, TypeOK, disk, lease, Unwritten, Carries, At
<1>7. CASE Exchange(p)
  <2>1. CASE Found(p) \in live
    <3>1. issued + 1 \in Token
      BY <1>1, <1>7, <2>1, BoundsAssumption DEF Exchange, Found, TypeOK, Token
    <3> QED
      BY <1>1, <1>7, <2>1, <3>1
         DEF Exchange, Found, Rotates, Others, Same, stillOwned, Goto, TypeOK, lease, At
  <2>2. CASE Found(p) \notin live
    <3>1. pc'[p] = "refused" /\ UNCHANGED <<files, live, snapshot>>
      BY <1>1, <1>7, <2>2 DEF Exchange, Found, Goto, TypeOK
    <3>2. Found(p) \in Token
      BY <1>7 DEF Exchange, At, LoginInv, LoginKnown, Knows
    <3>3. Knows(p)'
      BY <2>2, <3>1, <3>2 DEF Knows, Carries, Found
    <3> QED
      BY <1>1, <1>7, <2>2, <3>1, <3>3
         DEF Exchange, Found, Turns, Others, Same, stillOwned, Goto, TypeOK, lease, At, Unwritten, Carries
  <2> QED
    BY <2>1, <2>2
<1>8. CASE ExchangeFails(p) \/ Refused(p)
  <2>1. Knows(p)'
    BY <1>1, <1>8 DEF ExchangeFails, Refused, Knows, Carries, Goto, TypeOK
  <2> QED
    BY <1>1, <1>8, <2>1
       DEF ExchangeFails, Refused, Turns, Others, Same, stillOwned, Goto, TypeOK, disk, lease,
           Unwritten, Carries, At
<1>9. CASE AnswerLost(p)
  <2>1. Knows(p)'
    BY <1>1, <1>9 DEF AnswerLost, Knows, Carries, Goto, TypeOK
  <2>2. mishaps \subseteq mishaps' /\ (Unwritten(p) /\ mishaps' = {} => Effective \in live)
    BY <1>9, Forfeited DEF AnswerLost
  <2> QED
    BY <1>1, <1>9, <2>1, <2>2
       DEF AnswerLost, Turns, Others, Same, stillOwned, Goto, TypeOK, disk, lease
<1>10. CASE Settle(p)
  <2>1. UNCHANGED <<files, live, issued, lock, identity, op, captured, snapshot, minted>>
    BY <1>10 DEF Settle, disk, lease
  <2>2. Others(p)
    BY <1>1, <1>10, <2>1 DEF Settle, Others, Same, stillOwned, Goto, TypeOK
  <2>3. CASE pc'[p] = "write1"
    BY <1>1, <1>10, <2>1, <2>2, <2>3 DEF Settle, Plans, Goto, TypeOK, At
  <2>4. CASE pc'[p] # "write1"
    <3>1. pc'[p] = "release" /\ plan' = plan
      BY <1>1, <1>10, <2>4 DEF Settle, Goto, TypeOK
    <3>2. \/ Forfeit(p, "lease")
          \/ mishaps' = mishaps /\ Effective # Found(p)
      BY <1>1, <1>10, <2>4 DEF Settle, Found, Goto, TypeOK
    <3>3. /\ mishaps \subseteq mishaps'
          /\ Unwritten(p) /\ Found(p) = Effective /\ mishaps' = {} => Effective \in live
      BY <3>2, Forfeited
    <3>4. Knows(p)'
      BY <3>1 DEF Knows, Carries
    <3> QED
      BY <2>1, <2>2, <3>1, <3>3, <3>4 DEF Turns
  <2> QED
    BY <2>3, <2>4
<1>11. CASE \E o \in SyncOperation : BeginSync(p, o)
  <2>1. pc'[p] = "plan" /\ pc[p] = "idle"
    BY <1>1, <1>11 DEF BeginSync, Goto, TypeOK, At
  <2>2. Knows(p)'
    BY <2>1 DEF Knows, Carries
  <2>3. Others(p)
    BY <1>1, <1>11 DEF BeginSync, Others, Same, stillOwned, Goto, TypeOK, LockDiscipline
  <2> QED
    BY <1>11, <2>1, <2>2, <2>3 DEF BeginSync, Turns, disk, Unwritten, Carries
<1>12. CASE PlanSync(p)
  <2>1. UNCHANGED <<files, live, issued, lock, identity, op, captured, minted, mishaps>>
    BY <1>12 DEF PlanSync, disk, lease
  <2>2. Others(p)
    BY <1>1, <1>12, <2>1 DEF PlanSync, Others, Same, stillOwned, Goto, TypeOK
  <2>3. /\ pc[p] = "plan" /\ snapshot'[p] = files /\ plan'[p] = transform(op[p], files)
        /\ pc'[p] = IF transform(op[p], files) # files THEN "write1" ELSE "release"
    BY <1>1, <1>12 DEF PlanSync, Goto, TypeOK, At
  <2>4. CASE transform(op[p], files) # files
    BY <2>1, <2>2, <2>3, <2>4 DEF Plans
  <2>5. CASE transform(op[p], files) = files
    <3>1. Knows(p)'
      BY <2>3, <2>5 DEF Knows, Carries
    <3>2. pc'[p] = "release" /\ ~Unwritten(p)
      BY <2>3, <2>5 DEF Unwritten, Carries
    <3>3. snapshot'[p] \in {snapshot[p], files, Nothing} /\ minted'[p] \in {minted[p], NoEntry}
      BY <2>1, <2>3
    <3>4. UNCHANGED <<files, live, issued>> /\ mishaps \subseteq mishaps'
      BY <2>1
    <3> QED
      BY <2>2, <2>3, <2>5, <3>1, <3>2, <3>3, <3>4 DEF Turns
  <2> QED
    BY <2>4, <2>5
<1>13. CASE Write1(p)
  <2>1. /\ UNCHANGED <<live, issued, lock, identity, op, captured, snapshot, plan, minted>>
        /\ pc[p] = "write1"
    BY <1>13 DEF Write1, lease, At
  <2>2. Others(p)
    BY <1>1, <1>13, <2>1 DEF Write1, Others, Same, stillOwned, Goto, TypeOK
  <2>3. CASE mayWrite1(p)
    BY <1>1, <1>13, <2>1, <2>2, <2>3 DEF Write1, Replaces, Goto, TypeOK
  <2>4. CASE ~mayWrite1(p)
    <3>1. pc'[p] = "release" /\ UNCHANGED files
      BY <1>1, <1>13, <2>4 DEF Write1, Goto, TypeOK
    <3>2. mishaps \subseteq mishaps' /\ (Unwritten(p) /\ mishaps' = {} => Effective \in live)
      BY <1>13, <2>4, Forfeited DEF Write1
    <3>3. Knows(p)'
      BY <3>1 DEF Knows, Carries
    <3> QED
      BY <2>1, <2>2, <3>1, <3>2, <3>3 DEF Turns
  <2> QED
    BY <2>3, <2>4
<1>14. CASE Write2(p)
  <2>1. /\ UNCHANGED <<live, issued, lock, identity, op, captured, snapshot, plan, minted>>
        /\ pc[p] = "write2" /\ pc'[p] = "release"
    BY <1>1, <1>14 DEF Write2, lease, At, Goto, TypeOK
  <2>2. Others(p)
    BY <1>1, <1>14, <2>1 DEF Write2, Others, Same, stillOwned, Goto, TypeOK
  <2>3. CASE mayWrite2(p)
    BY <1>14, <2>1, <2>2, <2>3 DEF Write2, Replaces
  <2>4. CASE ~mayWrite2(p)
    <3>1. UNCHANGED files
      BY <1>14, <2>4 DEF Write2
    <3>2. mishaps \subseteq mishaps' /\ (Unwritten(p) /\ mishaps' = {} => Effective \in live)
      BY <1>14, <2>4, Forfeited DEF Write2
    <3>3. Knows(p)'
      BY <2>1 DEF Knows, Carries
    <3> QED
      BY <2>1, <2>2, <3>1, <3>2, <3>3 DEF Turns
  <2> QED
    BY <2>3, <2>4
<1>15. CASE Release(p)
  <2>1. pc[p] = "release" /\ (lock' # 0 => lock' = lock) /\ UNCHANGED <<files, live, issued, mishaps>>
    BY <1>15 DEF Release, At, unlock, disk
  <2> QED
    BY <1>15, <2>1, FinishTurns DEF Release, Unwritten, Carries
<1>16. CASE Heartbeat(p) \/ Stall(p) \/ Timeout(p)
  BY <1>16 DEF Heartbeat, Stall, Timeout, Waits, Same, stillOwned, disk, lease, local
<1>17. CASE Crash(p)
  <2>1. mishaps \subseteq mishaps' /\ (Unwritten(p) /\ mishaps' = {} => Effective \in live)
    BY <1>17, Forfeited DEF Crash
  <2> QED
    BY <1>17, <2>1, FinishTurns DEF Crash, disk, lease
<1> QED
  BY <1>2, <1>3, <1>4, <1>5, <1>6, <1>7, <1>8, <1>9, <1>10, <1>11, <1>12, <1>13, <1>14, <1>15,
     <1>16, <1>17 DEF Step

-----------------------------------------------------------------------------
(* What the shapes leave of a process that does not move, and of the files. *)

\* What is said of a process depends on what Same keeps.
LEMMA SameFacts ==
  ASSUME NEW q \in Process, Same(q)
  PROVE  /\ Found(q)' = Found(q) /\ Planned(q)' = Planned(q) /\ Halfway(q)' = Halfway(q)
         /\ (Carries(q)' <=> Carries(q)) /\ (Unwritten(q)' <=> Unwritten(q))
         /\ (fenced(q)' <=> fenced(q))
<1>1. Found(q)' = Found(q) /\ (fenced(q)' <=> fenced(q))
  BY DEF Same, Found, mergeParentAuth, fenced
<1>2. Planned(q)' = Planned(q)
  BY <1>1 DEF Same, Planned, fenced, persistRefreshed, transform, applyShadowPlan, applyRestorePlan, dropShadow
<1>3. Halfway(q)' = Halfway(q)
  BY DEF Same, Halfway, writesSidecarFirst
<1>4. Carries(q)' <=> Carries(q)
  BY <1>1 DEF Same, Carries, fenced
<1>5. Unwritten(q)' <=> Unwritten(q)
  BY <1>4 DEF Same, Unwritten
<1> QED
  BY <1>1, <1>2, <1>3, <1>4, <1>5

\* A process that did not move knows what it knew, when no token it found is new.
LEMMA SameKnows ==
  ASSUME LoginInv, NEW q \in Process, Same(q), \A t \in live' : t \in live \/ t > issued
  PROVE  Knows(q)'
<1>1. Knows(q) /\ Seen(snapshot[q].auth) /\ Seen(snapshot[q].sidecar) /\ TypeOK
  BY DEF LoginInv, LoginKnown, Numbered, BackedInv
<1>2. Found(q) \in Token => Found(q) <= issued
  BY <1>1 DEF Found, mergeParentAuth, Seen
<1>3. pc[q] = "refused" => Found(q) \notin live'
  <2> SUFFICES ASSUME pc[q] = "refused", Found(q) \in live' PROVE FALSE
    OBVIOUS
  <2>1. Found(q) \in Token /\ Found(q) \notin live
    BY <1>1 DEF Knows
  <2>2. Found(q) > issued /\ Found(q) <= issued /\ Found(q) \in Nat /\ issued \in Nat
    BY <1>1, <1>2, <2>1, BoundsAssumption DEF Token, TypeOK
  <2> QED
    BY <2>2
<1> QED
  BY <1>1, <1>3, SameFacts DEF Knows, Same

\* It is as undisturbed as it was, when the files did not change.
LEMMA SameUndisturbed ==
  ASSUME LoginInv, NEW q \in Process, Same(q), UNCHANGED files, mishaps \subseteq mishaps'
  PROVE  Undisturbed(q)'
<1>1. Undisturbed(q) /\ ("foreign write" \notin mishaps' => "foreign write" \notin mishaps)
  BY DEF LoginInv, LoginKnown
<1> QED
  BY <1>1, SameFacts DEF Undisturbed, Same

\* The parts of what a transaction plans, and what it keeps of the login.
LEMMA PlanParts ==
  ASSUME NEW f \in Files, NEW o, NEW t
  PROVE  /\ persistRefreshed(f, t).auth \in {f.auth, t} /\ persistRefreshed(f, t).sidecar \in {f.sidecar, t}
         /\ transform(o, f).auth \in {f.auth, f.sidecar, Placeholder}
         /\ transform(o, f).sidecar \in {f.auth, f.sidecar, NoEntry}
  BY DEF Files, persistRefreshed, transform, applyShadowPlan, applyRestorePlan, dropShadow

\* A synchronous transaction keeps the login in use, in the middle and at its end.
LEMMA LoginKept ==
  ASSUME NEW f \in Files, NEW o, o # "refresh"
  PROVE  LET g == transform(o, f)
             h == IF writesSidecarFirst(o) THEN [f EXCEPT !.sidecar = g.sidecar]
                                           ELSE [f EXCEPT !.auth = g.auth]
         IN  /\ mergeParentAuth(g) = mergeParentAuth(f)
             /\ mergeParentAuth(h) = mergeParentAuth(f)
             /\ g.auth = NoEntry <=> f.auth = NoEntry
<1> USE EntryTypes DEF Files, transform, mergeParentAuth, writesSidecarFirst
<1>1. CASE o = "shadow"
  BY <1>1 DEF applyShadowPlan, Facing
<1>2. CASE o = "restore"
  BY <1>2 DEF applyRestorePlan, Facing
<1>3. CASE o \notin {"shadow", "restore"}
  BY <1>3 DEF dropShadow
<1> QED
  BY <1>1, <1>2, <1>3

\* A replacement is made by the holder of the lock, alone.
LEMMA ReplacesAlone ==
  ASSUME LoginInv, NEW p \in Process, Replaces(p)
  PROVE  /\ stillOwned(p)
         /\ \A q \in Process \ {p} : ~stillOwned(q)
         /\ \A q \in Process \ {p} : ~(pc[q] = "write1" /\ ~fenced(q))
<1>1. LockDiscipline /\ SyncHolds
  BY DEF LoginInv, BackedInv
<1>2. stillOwned(p)
  BY <1>1 DEF Replaces, mayWrite1, mayWrite2, assertOwned, SyncHolds
<1>3. \A q \in Process \ {p} : ~stillOwned(q)
  BY <1>1, <1>2 DEF LockDiscipline, stillOwned
<1> QED
  BY <1>1, <1>2, <1>3 DEF SyncHolds

\* What a replacement does to the login in use: the transaction that carries a new
\* token puts it in the place of the one it found, and nothing else changes it.
LEMMA ReplaceEffect ==
  ASSUME LoginInv, NEW p \in Process, Replaces(p)
  PROVE  /\ Effective = NoEntry => Effective' = NoEntry
         /\ "foreign write" \notin mishaps =>
              \/ Effective' = Effective /\ (Unwritten(p) => Unwritten(p)')
              \/ Unwritten(p) /\ Effective = Found(p) /\ Effective' = minted[p]
<1> DEFINE f == snapshot[p]
<1>1. /\ files \in Files /\ f \in Files /\ plan[p] \in Files /\ Knows(p) /\ Undisturbed(p)
      /\ StageDiscipline
  BY DEF LoginInv, LoginKnown, BackedInv, TypeOK
<1>2. stillOwned(p)
  BY ReplacesAlone
<1>3. Effective = NoEntry <=> files.auth = NoEntry
  BY <1>1, EntryTypes DEF Effective, mergeParentAuth, Files
<1>4. files' \in Files /\ files'.auth \in {files.auth, plan[p].auth}
  BY <1>1 DEF Replaces, replaceAuth, replaceSidecar, Files
<1>5. Effective' = NoEntry <=> files'.auth = NoEntry
  BY <1>4, EntryTypes DEF Effective, mergeParentAuth, Files
<1>6. f.auth # NoEntry => files.auth # NoEntry
  BY <1>1, <1>2 DEF Replaces, Undisturbed, mayWrite1
<1>7. CASE fenced(p)
  <2>1. /\ Carries(p) /\ Found(p) \in Token /\ minted[p] \in Token
        /\ plan[p] = persistRefreshed(f, minted[p]) /\ writesSidecarFirst(op[p])
    BY <1>1, <1>7 DEF Replaces, Carries, Knows, Planned, fenced, writesSidecarFirst
  <2>2. f.auth # NoEntry
    BY <2>1, EntryTypes DEF Found, mergeParentAuth
  <2>3. CASE pc[p] = "write1"
    <3>1. files = f /\ files' = [files EXCEPT !.sidecar = plan[p].sidecar] /\ pc'[p] = "write2"
      BY <1>7, <2>1, <2>3 DEF Replaces, mayWrite1, replaceSidecar
    <3>2. Unwritten(p) /\ Effective = Found(p)
      BY <2>1, <2>3, <3>1 DEF Unwritten, Effective, Found
    <3>3. CASE f.auth \in Facing
      <4>1. files' = [auth |-> f.auth, sidecar |-> minted[p]]
        BY <1>1, <2>1, <3>1, <3>3 DEF persistRefreshed, Files
      <4>2. Effective' = minted[p]
        BY <2>1, <3>3, <4>1 DEF Effective, mergeParentAuth
      <4> QED
        BY <1>3, <2>2, <3>1, <3>2, <4>2
    <3>4. CASE f.auth \notin Facing
      <4>1. files' = files
        BY <1>1, <2>1, <3>1, <3>4 DEF persistRefreshed, Files
      <4>2. Unwritten(p)'
        BY <1>7, <3>1, <3>4 DEF Replaces, Unwritten, Carries, fenced
      <4> QED
        BY <4>1, <4>2 DEF Effective
    <3> QED
      BY <3>3, <3>4
  <2>4. CASE pc[p] = "write2"
    <3>1. files' = [files EXCEPT !.auth = plan[p].auth]
      BY <2>1, <2>4 DEF Replaces, replaceAuth
    <3>2. Effective # NoEntry
      BY <1>3, <1>6, <2>2
    <3>3. ASSUME "foreign write" \notin mishaps
          PROVE  \/ Effective' = Effective /\ ~Unwritten(p)
                 \/ Unwritten(p) /\ Effective = Found(p) /\ Effective' = minted[p]
      <4>1. files = [f EXCEPT !.sidecar = plan[p].sidecar]
        BY <1>1, <1>2, <2>1, <2>4, <3>3 DEF Undisturbed, Halfway
      <4>2. CASE f.auth \in Facing
        <5>1. files' = files
          BY <1>1, <2>1, <3>1, <4>1, <4>2 DEF persistRefreshed, Files
        <5> QED
          BY <2>4, <4>2, <5>1 DEF Unwritten, Effective
      <4>3. CASE f.auth \notin Facing
        <5>1. files = f /\ files' = [f EXCEPT !.auth = minted[p]]
          BY <1>1, <2>1, <3>1, <4>1, <4>3 DEF persistRefreshed, Files
        <5>2. Effective' = minted[p]
          BY <1>1, <2>1, <5>1, EntryTypes DEF Effective, mergeParentAuth, Files
        <5> QED
          BY <2>1, <2>4, <4>3, <5>1, <5>2 DEF Unwritten, Effective, Found
      <4> QED
        BY <4>2, <4>3
    <3> QED
      BY <3>2, <3>3
  <2> QED
    BY <2>3, <2>4 DEF Replaces
<1>8. CASE ~fenced(p)
  <2>1. op[p] # "refresh" /\ plan[p] = transform(op[p], f) /\ ~Carries(p)
    BY <1>1, <1>8 DEF Replaces, Carries, Knows, Planned, fenced
  <2>2. /\ mergeParentAuth(plan[p]) = mergeParentAuth(f) /\ mergeParentAuth(Halfway(p)) = mergeParentAuth(f)
        /\ plan[p].auth = NoEntry <=> f.auth = NoEntry
    <3>1. Halfway(p) = IF writesSidecarFirst(op[p])
                       THEN [f EXCEPT !.sidecar = transform(op[p], f).sidecar]
                       ELSE [f EXCEPT !.auth = transform(op[p], f).auth]
      BY <2>1 DEF Halfway
    <3> HIDE DEF f
    <3> QED
      BY <1>1, <2>1, <3>1, LoginKept
  <2>3. files.auth = NoEntry => files'.auth = NoEntry
    BY <1>4, <1>6, <2>2
  <2>4. ASSUME "foreign write" \notin mishaps PROVE Effective' = Effective
    <3>1. CASE pc[p] = "write1"
      <4>1. files = f /\ files' = Halfway(p)
        BY <1>1, <1>8, <2>4, <3>1 DEF Replaces, Undisturbed, Halfway, replaceAuth, replaceSidecar
      <4> QED
        BY <2>2, <4>1 DEF Effective
    <3>2. CASE pc[p] = "write2"
      <4>1. files = Halfway(p)
        BY <1>1, <1>2, <2>4, <3>2 DEF Undisturbed
      <4>2. files' = plan[p]
        <5>1. CASE writesSidecarFirst(op[p])
          <6>1. files' = [files EXCEPT !.auth = plan[p].auth] /\ files = [f EXCEPT !.sidecar = plan[p].sidecar]
            BY <3>2, <4>1, <5>1 DEF Replaces, Halfway, replaceAuth
          <6> QED
            BY <1>1, <6>1 DEF Files
        <5>2. CASE ~writesSidecarFirst(op[p])
          <6>1. files' = [files EXCEPT !.sidecar = plan[p].sidecar] /\ files = [f EXCEPT !.auth = plan[p].auth]
            BY <3>2, <4>1, <5>2 DEF Replaces, Halfway, replaceSidecar
          <6> QED
            BY <1>1, <6>1 DEF Files
        <5> QED
          BY <5>1, <5>2
      <4> QED
        BY <2>2, <4>1, <4>2 DEF Effective
    <3> QED
      BY <3>1, <3>2 DEF Replaces
  <2> QED
    BY <1>3, <1>5, <2>1, <2>3, <2>4 DEF Unwritten
<1> QED
  BY <1>7, <1>8

-----------------------------------------------------------------------------
(* Each shape preserves the invariant. *)

\* A token is seen still when more have been issued.
LEMMA SeenLater ==
  ASSUME issued \in Nat, issued' \in Nat, issued <= issued', NEW t, Seen(t)
  PROVE  t \in Token => t <= issued'
  BY BoundsAssumption DEF Seen, Token

LEMMA TurnsKeep ==
  ASSUME LoginInv, NEW p \in Process, Turns(p)
  PROVE  LoginKnown'
<1>1. TypeOK /\ Numbered /\ Replaced /\ \A q \in Process : Knows(q) /\ Undisturbed(q) /\ Unique(q)
  BY DEF LoginInv, LoginKnown, BackedInv
<1>2. \A q \in Process \ {p} : Same(q)
  BY DEF Turns, Others
<1>3. UNCHANGED <<files, live, issued>> /\ mishaps \subseteq mishaps' /\ ~Carries(p)' /\ ~Unwritten(p)'
  BY DEF Turns, Carries, Unwritten
<1>4. Nothing.auth = NoEntry /\ Nothing.sidecar = NoEntry /\ NoEntry \notin Token
  BY EntryTypes
<1>5. Numbered'
  <2>1. ASSUME NEW q \in Process
        PROVE  /\ snapshot'[q] \in {snapshot[q], files, Nothing} /\ plan'[q] \in {plan[q], files, Nothing}
               /\ minted'[q] \in {minted[q], NoEntry}
    BY <1>2 DEF Turns, Same
  <2> QED
    BY <1>1, <1>3, <1>4, <2>1 DEF Numbered, Seen
<1>6. ASSUME NEW q \in Process PROVE Knows(q)'
  BY <1>2, <1>3, SameKnows DEF Turns
<1>7. ASSUME NEW q \in Process PROVE Undisturbed(q)'
  <2>1. CASE q = p
    BY <2>1 DEF Turns, Undisturbed
  <2> QED
    BY <1>2, <1>3, <2>1, SameUndisturbed
<1>8. ASSUME NEW q \in Process PROVE Unique(q)'
  <2> SUFFICES ASSUME Unwritten(q)' PROVE Unique(q)'
    BY DEF Unique
  <2>1. q # p /\ Same(q) /\ Unwritten(q) /\ minted'[q] = minted[q]
    BY <1>2, <1>3, SameFacts DEF Same
  <2>2. minted[q] \in Token /\ minted[q] # NoEntry
    BY <1>1, <1>4, <2>1 DEF Knows, Unwritten
  <2>3. /\ minted[q] \in live /\ Lacks(files, minted[q])
        /\ \A r \in Process : Lacks(snapshot[r], minted[q])
        /\ \A r \in Process \ {q} : Lacks(plan[r], minted[q]) /\ minted[r] # minted[q]
    BY <1>1, <2>1 DEF Unique
  <2>4. Lacks(Nothing, minted[q])
    BY <1>4, <2>2 DEF Lacks
  <2>5. ASSUME NEW r \in Process PROVE Lacks(snapshot'[r], minted[q])
    <3>1. snapshot'[r] \in {snapshot[r], files, Nothing}
      BY <1>2 DEF Turns, Same
    <3> QED
      BY <2>3, <2>4, <3>1
  <2>6. ASSUME NEW r \in Process \ {q} PROVE Lacks(plan'[r], minted[q]) /\ minted'[r] # minted[q]
    <3>1. plan'[r] \in {plan[r], files, Nothing} /\ minted'[r] \in {minted[r], NoEntry}
      BY <1>2 DEF Turns, Same
    <3> QED
      BY <2>2, <2>3, <2>4, <3>1
  <2> QED
    BY <1>3, <2>1, <2>3, <2>5, <2>6 DEF Unique, Lacks
<1>9. Replaced'
  <2> SUFFICES ASSUME Effective' \in Token, Effective' \notin live', mishaps' = {}
               PROVE  \E q \in Process : Unwritten(q)' /\ Found(q)' = Effective'
    BY DEF Replaced
  <2>1. Effective' = Effective /\ mishaps = {}
    BY <1>3 DEF Effective, mergeParentAuth
  <2>2. PICK q \in Process : Unwritten(q) /\ Found(q) = Effective
    BY <1>1, <1>3, <2>1 DEF Replaced
  <2>3. q # p
    BY <1>3, <2>1, <2>2 DEF Turns
  <2> QED
    BY <1>2, <2>1, <2>2, <2>3, SameFacts
<1> QED
  BY <1>5, <1>6, <1>7, <1>8, <1>9 DEF LoginKnown

LEMMA WaitsKeep ==
  ASSUME LoginInv, Waits
  PROVE  LoginKnown'
<1>1. Numbered /\ Replaced /\ \A q \in Process : Knows(q) /\ Undisturbed(q) /\ Unique(q)
  BY DEF LoginInv, LoginKnown
<1>2. \A q \in Process : Same(q)
  BY DEF Waits
<1>3. UNCHANGED <<files, live, issued, mishaps>>
  BY DEF Waits
<1>4. Numbered'
  BY <1>1, <1>2, <1>3 DEF Numbered, Seen, Same
<1>5. ASSUME NEW q \in Process PROVE Knows(q)' /\ Undisturbed(q)'
  BY <1>2, <1>3, SameKnows, SameUndisturbed
<1>6. ASSUME NEW q \in Process PROVE Unique(q)'
  BY <1>1, <1>2, <1>3, SameFacts DEF Unique, Lacks, Same
<1>7. Replaced'
  BY <1>1, <1>2, <1>3, SameFacts DEF Replaced, Effective, mergeParentAuth
<1> QED
  BY <1>4, <1>5, <1>6, <1>7 DEF LoginKnown

\* What has been seen is not the token that is issued next.
LEMMA NextIsNew ==
  ASSUME LoginInv, NEW t, Seen(t)
  PROVE  t # issued + 1 \/ t \notin Token
<1>1. issued \in Nat
  BY DEF LoginInv, BackedInv, TypeOK
<1> QED
  BY <1>1, BoundsAssumption DEF Seen, Token

LEMMA RotatesKeep ==
  ASSUME LoginInv, NEW p \in Process, Rotates(p)
  PROVE  LoginKnown'
<1> DEFINE new == issued + 1
<1>1. TypeOK /\ Numbered /\ Replaced /\ \A q \in Process : Knows(q) /\ Undisturbed(q) /\ Unique(q)
  BY DEF LoginInv, LoginKnown, BackedInv
<1>2. \A q \in Process \ {p} : Same(q)
  BY DEF Rotates, Others
<1>3. /\ UNCHANGED <<files, mishaps>> /\ live' = (live \ {Found(p)}) \cup {new} /\ issued' = new
      /\ new \in Token /\ minted'[p] = new /\ pc[p] = "exchange" /\ pc'[p] = "answered"
      /\ snapshot'[p] = snapshot[p] /\ plan'[p] = plan[p] /\ op'[p] = op[p]
  BY DEF Rotates
<1>4. issued \in Nat /\ new \in Nat /\ issued <= issued' /\ new > issued /\ issued' \in Nat
  BY <1>1, <1>3 DEF TypeOK
<1>5. \A q \in Process : snapshot'[q] = snapshot[q] /\ plan'[q] = plan[q]
  BY <1>2, <1>3 DEF Same
<1>6. /\ Seen(files.auth) /\ Seen(files.sidecar) /\ \A t \in live : t <= issued
      /\ \A q \in Process : /\ Seen(snapshot[q].auth) /\ Seen(snapshot[q].sidecar)
                            /\ Seen(plan[q].auth) /\ Seen(plan[q].sidecar) /\ Seen(minted[q])
  BY <1>1 DEF Numbered
<1>7. Numbered'
  <2>1. \A t \in live' : t <= issued'
    BY <1>1, <1>3, <1>4, <1>6, BoundsAssumption DEF TypeOK, Token
  <2>2. ASSUME NEW q \in Process PROVE Seen(minted[q])' 
    <3>1. CASE q = p
      BY <1>3, <1>4, <3>1 DEF Seen
    <3>2. CASE q # p
      BY <1>2, <1>4, <1>6, <3>2, SeenLater DEF Seen, Same
    <3> QED
      BY <3>1, <3>2
  <2>3. Seen(files.auth)' /\ Seen(files.sidecar)'
    BY <1>3, <1>4, <1>6, SeenLater DEF Seen
  <2>4. ASSUME NEW q \in Process
        PROVE  /\ Seen(snapshot[q].auth)' /\ Seen(snapshot[q].sidecar)'
               /\ Seen(plan[q].auth)' /\ Seen(plan[q].sidecar)'
    BY <1>4, <1>5, <1>6, SeenLater DEF Seen
  <2> QED
    BY <2>1, <2>2, <2>3, <2>4 DEF Numbered
<1>8. Found(p)' = Found(p) /\ Found(p) \in Token /\ Found(p) <= issued /\ Found(p) < new
  <2>1. Found(p)' = Found(p) /\ Found(p) \in Token
    BY <1>1, <1>3 DEF Found, mergeParentAuth, Knows
  <2>2. Found(p) <= issued
    BY <1>6, <2>1 DEF Found, mergeParentAuth, Seen
  <2> QED
    BY <1>4, <2>1, <2>2, BoundsAssumption DEF Token
<1>9. Unwritten(p)' /\ Carries(p)'
  BY <1>3 DEF Unwritten, Carries
<1>10. ASSUME NEW q \in Process PROVE Knows(q)'
  <2>1. CASE q = p
    BY <1>3, <1>8, <2>1 DEF Knows, Carries
  <2>2. CASE q # p
    BY <1>2, <1>3, <1>4, <2>2, SameKnows
  <2> QED
    BY <2>1, <2>2
<1>11. ASSUME NEW q \in Process PROVE Undisturbed(q)'
  <2>1. CASE q = p
    BY <1>3, <2>1 DEF Undisturbed
  <2> QED
    BY <1>2, <1>3, <2>1, SameUndisturbed
<1>12. ASSUME NEW q \in Process PROVE Unique(q)'
  <2>1. CASE q = p
    <3>1. Lacks(files, new)
      BY <1>3, <1>6, NextIsNew DEF Lacks
    <3>2. \A r \in Process : Lacks(snapshot[r], new) /\ Lacks(plan[r], new) /\ minted[r] # new
      BY <1>3, <1>6, NextIsNew DEF Lacks
    <3>3. \A r \in Process \ {p} : minted'[r] = minted[r]
      BY <1>2 DEF Same
    <3> QED
      BY <1>3, <1>5, <2>1, <3>1, <3>2, <3>3 DEF Unique, Lacks
  <2>2. CASE q # p
    <3> SUFFICES ASSUME Unwritten(q)' PROVE Unique(q)'
      BY DEF Unique
    <3>1. Same(q) /\ Unwritten(q) /\ minted'[q] = minted[q]
      BY <1>2, <2>2, SameFacts DEF Same
    <3>2. /\ minted[q] \in live /\ Lacks(files, minted[q])
          /\ \A r \in Process : Lacks(snapshot[r], minted[q])
          /\ \A r \in Process \ {q} : Lacks(plan[r], minted[q]) /\ minted[r] # minted[q]
      BY <1>1, <3>1 DEF Unique
    <3>3. minted[q] # Found(p)
      BY <3>2 DEF Lacks, Found, mergeParentAuth
    <3>4. minted[q] # new
      BY <1>3, <1>6, NextIsNew
    <3>5. \A r \in Process \ {q} : minted'[r] # minted[q]
      BY <1>2, <1>3, <3>2, <3>4 DEF Same
    <3> QED
      BY <1>3, <1>5, <3>1, <3>2, <3>3, <3>5 DEF Unique, Lacks
  <2> QED
    BY <2>1, <2>2
<1>13. Replaced'
  <2> SUFFICES ASSUME Effective' \in Token, Effective' \notin live', mishaps' = {}
               PROVE  \E q \in Process : Unwritten(q)' /\ Found(q)' = Effective'
    BY DEF Replaced
  <2>1. Effective' = Effective /\ mishaps = {}
    BY <1>3 DEF Effective, mergeParentAuth
  <2>2. CASE Effective \in live
    BY <1>3, <1>8, <1>9, <2>1, <2>2
  <2>3. CASE Effective \notin live
    <3>1. PICK q \in Process : Unwritten(q) /\ Found(q) = Effective
      BY <1>1, <2>1, <2>3 DEF Replaced
    <3>2. q # p
      BY <1>3, <3>1 DEF Unwritten, Carries
    <3> QED
      BY <1>2, <2>1, <3>1, <3>2, SameFacts
  <2> QED
    BY <2>2, <2>3
<1> QED
  BY <1>7, <1>10, <1>11, <1>12, <1>13 DEF LoginKnown

LEMMA PlansKeep ==
  ASSUME LoginInv, NEW p \in Process, Plans(p)
  PROVE  LoginKnown'
<1>1. /\ TypeOK /\ StageDiscipline /\ Numbered /\ Replaced
      /\ \A q \in Process : Knows(q) /\ Undisturbed(q) /\ Unique(q)
  BY DEF LoginInv, LoginKnown, BackedInv
<1>2. \A q \in Process \ {p} : Same(q)
  BY DEF Plans, Others
<1>3. /\ UNCHANGED <<files, live, issued, mishaps>> /\ pc'[p] = "write1"
      /\ op'[p] = op[p] /\ minted'[p] = minted[p]
  BY DEF Plans
<1>4. \/ /\ pc[p] = "answered" /\ snapshot'[p] = snapshot[p] /\ fenced(p) /\ Carries(p)
         /\ plan'[p] = persistRefreshed(snapshot[p], minted[p])
      \/ /\ pc[p] = "plan" /\ snapshot'[p] = files /\ ~fenced(p) /\ ~Carries(p)
         /\ plan'[p] = transform(op[p], files) /\ plan'[p] # files
  BY <1>1 DEF Plans, StageDiscipline, fenced, Carries
<1>5. (fenced(p)' <=> fenced(p)) /\ (Carries(p)' <=> Carries(p)) /\ (Unwritten(p)' <=> Unwritten(p))
  BY <1>3, <1>4 DEF fenced, Carries, Unwritten
<1>6. /\ plan'[p].auth \in {snapshot[p].auth, files.auth, files.sidecar, minted[p], Placeholder}
      /\ plan'[p].sidecar \in {snapshot[p].sidecar, files.auth, files.sidecar, minted[p], NoEntry}
  BY <1>1, <1>4, PlanParts DEF TypeOK
<1>7. Placeholder \notin Token /\ NoEntry \notin Token
  BY EntryTypes DEF Facing
<1>8. Numbered'
  <2>1. ASSUME NEW q \in Process
        PROVE  /\ Seen(snapshot'[q].auth) /\ Seen(snapshot'[q].sidecar)
               /\ Seen(plan'[q].auth) /\ Seen(plan'[q].sidecar) /\ Seen(minted'[q])
    <3>1. CASE q = p
      BY <1>1, <1>3, <1>4, <1>6, <1>7, <3>1 DEF Numbered, Seen
    <3>2. CASE q # p
      BY <1>1, <1>2, <3>2 DEF Numbered, Same
    <3> QED
      BY <3>1, <3>2
  <2> QED
    BY <1>1, <1>3, <2>1 DEF Numbered, Seen
<1>9. ASSUME NEW q \in Process PROVE Knows(q)'
  <2>1. CASE q = p /\ fenced(p)
    BY <1>1, <1>3, <1>4, <1>5, <2>1 DEF Knows, Planned, Found, mergeParentAuth, persistRefreshed
  <2>2. CASE q = p /\ ~fenced(p)
    <3>1. Planned(p)' = transform(op[p], files)
      BY <1>3, <1>4, <1>5, <2>2
         DEF Planned, transform, applyShadowPlan, applyRestorePlan, dropShadow
    <3> QED
      BY <1>3, <1>4, <1>5, <2>2, <3>1 DEF Knows
  <2>3. CASE q # p
    BY <1>2, <1>3, <2>3, SameKnows
  <2> QED
    BY <2>1, <2>2, <2>3
<1>10. ASSUME NEW q \in Process PROVE Undisturbed(q)'
  <2>1. CASE q = p
    BY <1>3, <1>4, <1>5, <2>1 DEF Undisturbed
  <2> QED
    BY <1>2, <1>3, <2>1, SameUndisturbed
<1>11. ASSUME NEW q \in Process PROVE Unique(q)'
  <2> SUFFICES ASSUME Unwritten(q)' PROVE Unique(q)'
    BY DEF Unique
  <2>1. Unwritten(q) /\ minted'[q] = minted[q]
    BY <1>2, <1>3, <1>5, SameFacts DEF Same
  <2>2. minted[q] \in Token
    BY <1>1, <2>1 DEF Knows, Unwritten
  <2>3. /\ minted[q] \in live /\ Lacks(files, minted[q])
        /\ \A r \in Process : Lacks(snapshot[r], minted[q])
        /\ \A r \in Process \ {q} : Lacks(plan[r], minted[q]) /\ minted[r] # minted[q]
    BY <1>1, <2>1 DEF Unique
  <2>4. \A r \in Process : snapshot'[r] \in {snapshot[r], files}
    BY <1>2, <1>4 DEF Same
  <2>5. ASSUME NEW r \in Process \ {q} PROVE Lacks(plan'[r], minted[q]) /\ minted'[r] # minted[q]
    <3>1. CASE r = p
      BY <1>3, <1>6, <1>7, <2>2, <2>3, <3>1 DEF Lacks
    <3>2. CASE r # p
      BY <1>2, <2>3, <3>2 DEF Same
    <3> QED
      BY <3>1, <3>2
  <2> QED
    BY <1>3, <2>1, <2>3, <2>4, <2>5 DEF Unique, Lacks
<1>12. Replaced'
  <2> SUFFICES ASSUME Effective' \in Token, Effective' \notin live', mishaps' = {}
               PROVE  \E q \in Process : Unwritten(q)' /\ Found(q)' = Effective'
    BY DEF Replaced
  <2>1. Effective' = Effective /\ mishaps = {}
    BY <1>3 DEF Effective, mergeParentAuth
  <2>2. PICK q \in Process : Unwritten(q) /\ Found(q) = Effective
    BY <1>1, <1>3, <2>1 DEF Replaced
  <2>3. CASE q = p
    <3>1. snapshot'[p] = snapshot[p]
      BY <1>4, <2>2, <2>3 DEF Unwritten
    <3> QED
      BY <1>5, <2>1, <2>2, <2>3, <3>1 DEF Found, mergeParentAuth
  <2>4. CASE q # p
    BY <1>2, <2>1, <2>2, <2>4, SameFacts
  <2> QED
    BY <2>3, <2>4
<1> QED
  BY <1>8, <1>9, <1>10, <1>11, <1>12 DEF LoginKnown

LEMMA ReplacesKeep ==
  ASSUME LoginInv, NEW p \in Process, Replaces(p)
  PROVE  LoginKnown'
<1>1. /\ TypeOK /\ StageDiscipline /\ Numbered /\ Replaced
      /\ \A q \in Process : Knows(q) /\ Undisturbed(q) /\ Unique(q)
  BY DEF LoginInv, LoginKnown, BackedInv
<1>2. \A q \in Process \ {p} : Same(q)
  BY DEF Replaces, Others
<1>3. /\ UNCHANGED <<live, issued, mishaps, lock, identity>> /\ op'[p] = op[p]
      /\ snapshot'[p] = snapshot[p] /\ plan'[p] = plan[p] /\ minted'[p] = minted[p]
      /\ pc[p] \in {"write1", "write2"}
      /\ pc'[p] = IF pc[p] = "write1" THEN "write2" ELSE "release"
  BY DEF Replaces
<1>4. /\ \A q \in Process : /\ snapshot'[q] = snapshot[q] /\ plan'[q] = plan[q]
                            /\ minted'[q] = minted[q] /\ op'[q] = op[q]
  BY <1>2, <1>3 DEF Same
<1>5. /\ files'.auth \in {files.auth, plan[p].auth} /\ files'.sidecar \in {files.sidecar, plan[p].sidecar}
  BY <1>1 DEF Replaces, replaceAuth, replaceSidecar, TypeOK, Files
<1>6. /\ stillOwned(p) /\ \A q \in Process \ {p} : ~stillOwned(q) /\ ~(pc[q] = "write1" /\ ~fenced(q))
  BY ReplacesAlone
<1>7. (fenced(p)' <=> fenced(p)) /\ (Unwritten(p)' => Unwritten(p)) /\ (Carries(p)' => Carries(p))
  BY <1>3 DEF fenced, Carries, Unwritten
<1>8. Numbered'
  BY <1>1, <1>3, <1>4, <1>5 DEF Numbered, Seen
<1>9. ASSUME NEW q \in Process PROVE Knows(q)'
  <2>1. CASE q = p
    <3>1. Found(p)' = Found(p)
      BY <1>3 DEF Found, mergeParentAuth
    <3>2. Planned(p)' = Planned(p)
      BY <1>3, <1>7
         DEF Planned, persistRefreshed, transform, applyShadowPlan, applyRestorePlan, dropShadow
    <3> QED
      BY <1>1, <1>3, <1>7, <2>1, <3>1, <3>2 DEF Knows
  <2>2. CASE q # p
    BY <1>2, <1>3, <2>2, SameKnows
  <2> QED
    BY <2>1, <2>2
<1>10. ASSUME NEW q \in Process PROVE Undisturbed(q)'
  <2>1. CASE q # p
    <3>1. Same(q) /\ ~stillOwned(q)' /\ ~(pc[q] = "write1" /\ ~fenced(q))
      BY <1>2, <1>3, <1>6, <2>1 DEF stillOwned
    <3>2. pc'[q] = pc[q] /\ (fenced(q)' <=> fenced(q))
      BY <3>1, SameFacts DEF Same
    <3> QED
      BY <3>1, <3>2 DEF Undisturbed
  <2>2. CASE q = p /\ pc[p] = "write1"
    <3>1. /\ "foreign write" \notin mishaps => files = snapshot[p]
          /\ snapshot[p].auth # NoEntry => files.auth # NoEntry
      BY <1>1, <2>2 DEF Replaces, mayWrite1, Undisturbed
    <3>2. Halfway(p)' = Halfway(p)
      BY <1>3 DEF Halfway, writesSidecarFirst
    <3>3. IF writesSidecarFirst(op[p]) THEN files' = [files EXCEPT !.sidecar = plan[p].sidecar]
                                       ELSE files' = [files EXCEPT !.auth = plan[p].auth]
      BY <2>2 DEF Replaces, replaceAuth, replaceSidecar
    <3>4. "foreign write" \notin mishaps => files' = Halfway(p)
      BY <3>1, <3>3 DEF Halfway
    <3>5. CASE writesSidecarFirst(op[p])
      <4>1. files'.auth = files.auth
        BY <1>1, <3>3, <3>5 DEF TypeOK, Files
      <4> QED
        BY <1>3, <2>2, <3>1, <3>2, <3>4, <4>1 DEF Undisturbed
    <3>6. CASE ~writesSidecarFirst(op[p])
      <4>1. ~fenced(p) /\ op[p] # "refresh" /\ plan[p] = transform(op[p], snapshot[p])
        BY <1>1, <2>2, <3>6 DEF Knows, Planned, fenced, writesSidecarFirst
      <4>2. plan[p].auth = NoEntry <=> snapshot[p].auth = NoEntry
        BY <1>1, <4>1, LoginKept DEF TypeOK
      <4>3. files'.auth = plan[p].auth
        BY <1>1, <3>3, <3>6 DEF TypeOK, Files
      <4> QED
        BY <1>3, <2>2, <3>2, <3>4, <4>2, <4>3 DEF Undisturbed
    <3> QED
      BY <3>5, <3>6
  <2>3. CASE q = p /\ pc[p] = "write2"
    BY <1>3, <2>3 DEF Undisturbed
  <2> QED
    BY <1>3, <2>1, <2>2, <2>3
<1>11. ASSUME NEW q \in Process PROVE Unique(q)'
  <2> SUFFICES ASSUME Unwritten(q)' PROVE Unique(q)'
    BY DEF Unique
  <2>1. Unwritten(q)
    BY <1>2, <1>7, SameFacts
  <2>2. /\ minted[q] \in live /\ Lacks(files, minted[q])
        /\ \A r \in Process : Lacks(snapshot[r], minted[q])
        /\ \A r \in Process \ {q} : Lacks(plan[r], minted[q]) /\ minted[r] # minted[q]
    BY <1>1, <2>1 DEF Unique
  <2>3. Lacks(files', minted[q])
    <3>1. CASE q # p
      BY <1>5, <2>2, <3>1 DEF Lacks
    <3>2. CASE q = p
      <4>1. pc[p] = "write1" /\ fenced(p) /\ snapshot[p].auth \notin Facing
        BY <1>3, <1>7, <3>2 DEF Unwritten, Carries
      <4>2. /\ plan[p] = persistRefreshed(snapshot[p], minted[p]) /\ writesSidecarFirst(op[p])
            /\ files' = [files EXCEPT !.sidecar = plan[p].sidecar]
        BY <1>1, <4>1 DEF Knows, Planned, fenced, writesSidecarFirst, Replaces, replaceSidecar
      <4>3. plan[p].sidecar = snapshot[p].sidecar
        BY <1>1, <4>1, <4>2 DEF persistRefreshed, TypeOK, Files
      <4>4. files'.auth = files.auth /\ files'.sidecar = snapshot[p].sidecar
        BY <1>1, <4>2, <4>3 DEF TypeOK, Files
      <4> QED
        BY <2>2, <3>2, <4>4 DEF Lacks
    <3> QED
      BY <3>1, <3>2
  <2> QED
    BY <1>3, <1>4, <2>2, <2>3 DEF Unique, Lacks
<1>12. Replaced'
  <2> SUFFICES ASSUME Effective' \in Token, Effective' \notin live', mishaps' = {}
               PROVE  \E q \in Process : Unwritten(q)' /\ Found(q)' = Effective'
    BY DEF Replaced
  <2>1. mishaps = {} /\ "foreign write" \notin mishaps
    BY <1>3
  <2>2. Effective' # minted[p] \/ ~Unwritten(p)
    BY <1>1, <1>3 DEF Unique
  <2>3. Effective' = Effective /\ (Unwritten(p) => Unwritten(p)')
    BY <2>1, <2>2, ReplaceEffect
  <2>4. PICK q \in Process : Unwritten(q) /\ Found(q) = Effective
    BY <1>1, <1>3, <2>1, <2>3 DEF Replaced
  <2>5. CASE q = p
    BY <1>3, <2>3, <2>4, <2>5 DEF Found, mergeParentAuth
  <2>6. CASE q # p
    BY <1>2, <2>3, <2>4, <2>6, SameFacts
  <2> QED
    BY <2>5, <2>6
<1> QED
  BY <1>8, <1>9, <1>10, <1>11, <1>12 DEF LoginKnown

LEMMA OutsideKeeps ==
  ASSUME LoginInv, Outside
  PROVE  LoginKnown'
<1> DEFINE new == issued + 1
<1>1. /\ TypeOK /\ SyncHolds /\ Numbered /\ Replaced
      /\ \A q \in Process : Knows(q) /\ Undisturbed(q) /\ Unique(q)
  BY DEF LoginInv, LoginKnown, BackedInv
<1>2. UNCHANGED <<pc, op, captured, snapshot, plan, minted, lock, identity>>
  BY DEF Outside, HostLogin, ForeignLogin, HostRemove, lease, local
<1>3. \A q \in Process : Same(q)
  BY <1>2 DEF Same, stillOwned
<1>4. /\ files'.sidecar = files.sidecar
      /\ \/ issued' = new /\ new \in Token /\ live' = live \cup {new} /\ files'.auth = new
         \/ issued' = issued /\ live' = live /\ files'.auth = NoEntry
  <2>1. CASE issueLogin
    <3>1. new \in Token
      BY <1>1, <2>1, BoundsAssumption DEF issueLogin, TypeOK, Token
    <3> QED
      BY <1>1, <2>1, <3>1 DEF issueLogin, TypeOK, Files
  <2>2. CASE HostRemove
    BY <1>1, <2>2 DEF HostRemove, TypeOK, Files
  <2> QED
    BY <2>1, <2>2 DEF Outside, HostLogin, ForeignLogin
<1>5. issued \in Nat /\ new \in Nat /\ issued' \in Nat /\ issued <= issued'
  BY <1>1, <1>4 DEF TypeOK
<1>6. /\ Seen(files.auth) /\ Seen(files.sidecar) /\ \A t \in live : t <= issued
      /\ \A q \in Process : /\ Seen(snapshot[q].auth) /\ Seen(snapshot[q].sidecar)
                            /\ Seen(plan[q].auth) /\ Seen(plan[q].sidecar) /\ Seen(minted[q])
  BY <1>1 DEF Numbered
<1>7. NoEntry \notin Token
  BY EntryTypes
<1>8. Numbered'
  <2>1. ASSUME NEW t \in live' PROVE t <= issued'
    <3>1. CASE t \in live
      <4>1. t \in Nat /\ t <= issued
        BY <1>1, <1>6, <3>1, BoundsAssumption DEF TypeOK, Token
      <4> QED
        BY <1>5, <4>1
    <3>2. CASE t \notin live
      BY <1>4, <1>5, <3>2
    <3> QED
      BY <3>1, <3>2
  <2>2. Seen(files.auth)'
    BY <1>4, <1>5, <1>7 DEF Seen
  <2>3. Seen(files.sidecar)'
    BY <1>4, <1>5, <1>6, SeenLater DEF Seen
  <2>4. ASSUME NEW q \in Process
        PROVE  /\ Seen(snapshot[q].auth)' /\ Seen(snapshot[q].sidecar)'
               /\ Seen(plan[q].auth)' /\ Seen(plan[q].sidecar)' /\ Seen(minted[q])'
    BY <1>2, <1>5, <1>6, SeenLater DEF Seen
  <2> QED
    BY <2>1, <2>2, <2>3, <2>4 DEF Numbered
<1>9. ASSUME NEW q \in Process PROVE Knows(q)'
  BY <1>3, <1>4, <1>5, SameKnows
<1>10. ASSUME NEW q \in Process PROVE Undisturbed(q)'
  <2>1. CASE HostLogin \/ HostRemove
    <3>1. ~stillOwned(q) /\ ~stillOwned(q)'
      BY <1>2, <2>1 DEF HostLogin, HostRemove, stillOwned
    <3>2. ~(pc[q] = "write1" /\ ~fenced(q))
      BY <1>1, <3>1 DEF SyncHolds
    <3> QED
      BY <1>2, <1>3, <3>1, <3>2, SameFacts DEF Undisturbed
  <2>2. CASE ForeignLogin
    <3>1. files'.auth # NoEntry
      BY <1>4, <1>7, <2>2, <1>1 DEF ForeignLogin, issueLogin, TypeOK, Files
    <3>2. pc[q] = "write2" \/ (pc[q] = "write1" /\ ~fenced(q)) => "foreign write" \in mishaps'
      BY <2>2 DEF ForeignLogin, Committing, At
    <3> QED
      BY <1>2, <1>3, <3>1, <3>2, SameFacts DEF Undisturbed
  <2> QED
    BY <2>1, <2>2 DEF Outside
<1>11. ASSUME NEW q \in Process PROVE Unique(q)'
  <2> SUFFICES ASSUME Unwritten(q)' PROVE Unique(q)'
    BY DEF Unique
  <2>1. Unwritten(q)
    BY <1>3, SameFacts
  <2>2. /\ minted[q] \in live /\ Lacks(files, minted[q])
        /\ \A r \in Process : Lacks(snapshot[r], minted[q])
        /\ \A r \in Process \ {q} : Lacks(plan[r], minted[q]) /\ minted[r] # minted[q]
    BY <1>1, <2>1 DEF Unique
  <2>3. minted[q] \in Token /\ (minted[q] # new \/ new \notin Token)
    BY <1>1, <1>6, <2>1, NextIsNew DEF Knows, Unwritten
  <2>4. Lacks(files', minted[q])
    BY <1>4, <1>7, <2>2, <2>3 DEF Lacks
  <2> QED
    BY <1>2, <1>4, <2>2, <2>4 DEF Unique, Lacks
<1>12. Replaced'
  <2> SUFFICES ASSUME Effective' \in Token, Effective' \notin live' PROVE FALSE
    BY DEF Replaced
  <2>1. files'.auth \notin Facing
    BY <1>4, EntryTypes
  <2>2. Effective' = files'.auth
    BY <2>1 DEF Effective, mergeParentAuth
  <2> QED
    BY <1>4, <1>7, <2>2
<1> QED
  BY <1>8, <1>9, <1>10, <1>11, <1>12 DEF LoginKnown

-----------------------------------------------------------------------------
(* The invariant, and what follows from it. *)

\* A step is a step of a process, of time alone, or of another program.
LEMMA StepKinds ==
  ASSUME LoginInv, [Next]_vars
  PROVE  \/ Waits /\ UNCHANGED pc
         \/ \E p \in Process : Turns(p) \/ Waits \/ Rotates(p) \/ Plans(p) \/ Replaces(p)
         \/ Outside /\ UNCHANGED pc
<1>1. CASE UNCHANGED vars
  BY <1>1 DEF vars, disk, lease, local, Waits, Same, stillOwned
<1>2. CASE \E p \in Process : Step(p)
  BY <1>2, Shapes
<1>3. CASE Age
  BY <1>3 DEF Age, disk, local, Waits, Same, stillOwned
<1>4. CASE Outside
  BY <1>4 DEF Outside, HostLogin, ForeignLogin, HostRemove, local
<1> QED
  BY <1>1, <1>2, <1>3, <1>4 DEF Next, Outside

LEMMA LoginInit == Init => LoginInv
<1> SUFFICES ASSUME Init PROVE LoginInv
  OBVIOUS
<1> USE EntryTypes
<1>1. BackedInv
  BY BackedInit
<1>2. 1 \in Token /\ live = {1} /\ issued = 1
  BY BoundsAssumption DEF Init, Token
<1>3. Seen(NoEntry) /\ Seen(OldPlaceholder) /\ Seen(1)
  BY <1>2 DEF Seen, Facing
<1>4. Numbered
  BY <1>2, <1>3 DEF Init, Numbered
<1>5. \A p \in Process : Knows(p) /\ Undisturbed(p) /\ Unique(p)
  BY DEF Init, Knows, Undisturbed, Unique, Unwritten, Carries
<1>6. Effective = 1
  BY <1>2 DEF Init, Effective, mergeParentAuth, Facing
<1>7. Replaced
  BY <1>2, <1>6 DEF Replaced
<1> QED
  BY <1>1, <1>4, <1>5, <1>7 DEF LoginInv, LoginKnown

LEMMA LoginStep ==
  ASSUME LoginInv, [Next]_vars
  PROVE  LoginInv'
<1>1. BackedInv'
  BY TypeStep, LockStep, BackedStep DEF LoginInv, BackedInv, LockInv
<1>2. LoginKnown'
  BY StepKinds, TurnsKeep, WaitsKeep, RotatesKeep, PlansKeep, ReplacesKeep, OutsideKeeps
<1> QED
  BY <1>1, <1>2 DEF LoginInv

\* What every transaction knows of the login it found and of the token it got
\* for it, at each of its stages and whatever the other writers do.
THEOREM LoginInvariant == Spec => []LoginInv
<1>1. LoginInv /\ [Next]_vars => LoginInv'
  BY LoginStep
<1> QED
  BY LoginInit, <1>1, PTL DEF Spec

\* The login is never lost but by one of the named mishaps: the stored token is
\* one the provider accepts, or the transaction that spent it has the next one.
THEOREM AlwaysSurvives == Spec => []LoginSurvives
<1>1. ASSUME LoginInv, Effective \in Token, mishaps = {}, Effective \notin live
      PROVE  \E p \in Process : minted[p] \in live
  <2>1. PICK p \in Process : Unwritten(p)
    BY <1>1 DEF LoginInv, LoginKnown, Replaced
  <2> QED
    BY <1>1, <2>1 DEF LoginInv, LoginKnown, Unique
<1>2. LoginInv => LoginSurvives
  BY <1>1 DEF LoginSurvives
<1> QED
  BY <1>2, LoginInvariant, PTL

\* Cooperating refreshers never spend one token twice: a refusal that stands is
\* the work of a mishap, or of a holder that was evicted in mid-exchange.
THEOREM RefusalsAreTrue == Spec => []NoFalseTerminal
<1>1. ASSUME LoginInv, NEW p \in Process, At(p, "refused"), stillOwned(p),
             Effective = Found(p), mishaps = {}
      PROVE  \E q \in Process : minted[q] \in Token /\ ~stillOwned(q)
  <2>1. Found(p) \in Token /\ Found(p) \notin live
    BY <1>1 DEF LoginInv, LoginKnown, Knows, At
  <2>2. PICK q \in Process : Unwritten(q)
    BY <1>1, <2>1 DEF LoginInv, LoginKnown, Replaced
  <2>3. minted[q] \in Token
    BY <1>1, <2>2 DEF LoginInv, LoginKnown, Knows, Unwritten
  <2>4. q # p
    BY <1>1, <2>2 DEF Unwritten, Carries, At
  <2>5. ~stillOwned(q)
    BY <1>1, <2>4 DEF LoginInv, BackedInv, LockDiscipline, stillOwned
  <2> QED
    BY <2>3, <2>5
<1>2. LoginInv => NoFalseTerminal
  BY <1>1 DEF NoFalseTerminal, Found
<1> QED
  BY <1>2, LoginInvariant, PTL

\* What a step does to the login in use.
LEMMA LoginChange ==
  ASSUME LoginInv, [Next]_vars, pc' # pc
  PROVE  /\ Effective = NoEntry => Effective' = NoEntry
         /\ Effective \in Token /\ "foreign write" \notin mishaps =>
              Effective' \in Token /\ Effective' >= Effective
<1>1. Effective \in Token => Effective >= Effective
  BY BoundsAssumption DEF Token
<1>2. CASE UNCHANGED files
  BY <1>1, <1>2 DEF Effective, mergeParentAuth
<1>3. ASSUME NEW p \in Process, Replaces(p)
      PROVE  /\ Effective = NoEntry => Effective' = NoEntry
             /\ Effective \in Token /\ "foreign write" \notin mishaps =>
                  Effective' \in Token /\ Effective' >= Effective
  <2>1. Unwritten(p) => minted[p] \in Token /\ Found(p) < minted[p] /\ Found(p) \in Token
    BY DEF LoginInv, LoginKnown, Knows, Unwritten
  <2>2. Unwritten(p) => minted[p] >= Found(p)
    BY <2>1, BoundsAssumption DEF Token
  <2> QED
    BY <1>1, <1>3, <2>1, <2>2, ReplaceEffect
<1>4. UNCHANGED files \/ \E p \in Process : Replaces(p)
  BY StepKinds DEF Waits, Turns, Rotates, Plans
<1> QED
  BY <1>2, <1>3, <1>4

\* No transaction replaces the login by an older one or by nothing, unless a
\* foreign login landed inside its commit.
THEOREM NeverOlder == Spec => LoginNeverOlder
<1> DEFINE Newer ==
      \A p \in Process :
        pc'[p] # pc[p] /\ Effective \in Token /\ "foreign write" \notin mishaps =>
          Effective' \in Token /\ Effective' >= Effective
<1>1. LoginInv /\ [Next]_vars => [Newer]_vars
  BY LoginChange
<1> QED
  BY <1>1, LoginInvariant, PTL DEF Spec, LoginNeverOlder

\* No transaction brings a removed login back into use.
THEOREM StaysRemoved == Spec => RemovedStaysRemoved
<1> DEFINE Gone ==
      (\E p \in Process : pc'[p] # pc[p]) /\ Effective = NoEntry => Effective' = NoEntry
<1>1. LoginInv /\ [Next]_vars => [Gone]_vars
  BY LoginChange
<1> QED
  BY <1>1, LoginInvariant, PTL DEF Spec, RemovedStaysRemoved
=============================================================================
