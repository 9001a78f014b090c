------------------------- MODULE BackendMatrixProofs -------------------------
(***************************************************************************)
(* Proofs about BackendMatrix for every list of profiles and concurrencies, *)
(* every number of requests and polls, and every behaviour of the servers.  *)
(***************************************************************************)
EXTENDS BackendMatrix, FiniteSetTheorems, TLAPS

-----------------------------------------------------------------------------
(* One server at a time *)

Busy == {"startup", "environment", "warmup", "warming", "quality", "measure", "measuring", "wait"}
Idle == {"choose", "cuda", "recheck", "summary", "ended"}

States == {"none", "starting", "loading", "serving", "terminating", "dead"}

ServersOK ==
  /\ current \in DOMAIN Profiles
  /\ server \in [Asked -> States]
  /\ cuda \subseteq Asked
  /\ pc \in Busy \cup Idle \cup {"cleanup"}

\* The supervisor has a process from the launch to the end of its clean-up.
PidIsMine ==
  /\ pid \in {None, Mine}
  /\ pc \in Busy => pid = Mine
  /\ pc \in Idle => pid = None

OnlyMineLives == \A p \in Asked : Alive(p) => p = pid

\* Before a launch nothing, and after it nothing but its own profile, is on the GPU, or
\* the supervisor was mistaken.
CudaIsMine ==
  \/ blind
  \/ IF pc \in {"choose", "summary"} THEN cuda = {} ELSE cuda \subseteq {Mine}

ServerInv == ServersOK /\ PidIsMine /\ OnlyMineLives /\ CudaIsMine

LEMMA MineIsAsked == ServersOK => Mine \in Asked /\ Mine # None
BY MatrixAssumption DEF ServersOK, Mine, Asked

LEMMA ServerInit == Init => ServerInv
<1> SUFFICES ASSUME Init PROVE ServerInv
  OBVIOUS
<1>1. ServersOK
  <2>1. 1 \in DOMAIN Profiles
    BY MatrixAssumption
  <2> QED BY <2>1 DEF Init, ServersOK, States, Busy, Idle
<1>2. PidIsMine /\ OnlyMineLives /\ CudaIsMine
  BY DEF Init, PidIsMine, OnlyMineLives, CudaIsMine, Busy, Idle, Alive
<1> QED BY <1>1, <1>2 DEF ServerInv

LEMMA ServersKeep == ServerInv /\ ServerStep => ServerInv'
<1> SUFFICES ASSUME ServerInv, ServerStep PROVE ServerInv'
  OBVIOUS
<1> USE DEF ServerInv, ServersOK, PidIsMine, OnlyMineLives, CudaIsMine, Alive, States, Mine
<1>0. UNCHANGED <<pc, current, pid, blind>>
  BY DEF ServerStep, place
<1>1. PICK p \in Asked : Exec(p) \/ Serve(p) \/ Die(p) \/ ReleaseCuda(p)
  BY DEF ServerStep
<1>2. CASE Exec(p)
  <2>1. p = Mine /\ pc \notin {"choose", "summary"}
    BY <1>2, MatrixAssumption, MineIsAsked DEF Exec, Idle
  <2> QED BY <1>0, <1>2, <2>1 DEF Exec
<1>3. CASE Serve(p)
  BY <1>0, <1>3 DEF Serve
<1>4. CASE Die(p)
  BY <1>0, <1>4 DEF Die
<1>5. CASE ReleaseCuda(p)
  BY <1>0, <1>5 DEF ReleaseCuda
<1> QED BY <1>1, <1>2, <1>3, <1>4, <1>5

\* Steps of the supervisor that move on and leave profile, process and GPU alone
LEMMA SupervisorMovesOn ==
  ASSUME ServerInv, UNCHANGED <<current, pid, server, cuda, blind>>,
         \/ pc \in Busy /\ pc' \in Busy
         \/ pc \in Busy /\ pc' = "cleanup"
         \/ pc \in Idle /\ pc' \in {"cleanup", "recheck", "cuda"} /\ pc # "choose"
         \/ pc = "choose" /\ pc' = "cleanup"
         \/ pc = "cleanup" /\ pid = None /\ pc' = "ended"
  PROVE  ServerInv'
BY DEF ServerInv, ServersOK, PidIsMine, OnlyMineLives, CudaIsMine, Alive, Busy, Idle, Mine

LEMMA SupervisorKeeps == ServerInv /\ Supervise => ServerInv'
<1> SUFFICES ASSUME ServerInv, Supervise PROVE ServerInv'
  OBVIOUS
<1> USE DEF place, machine, results, Goto, Exit, Busy, Idle
<1>1. CASE Launch
  <2>1. Mine \in Asked /\ Mine # None
    BY MineIsAsked DEF ServerInv
  <2>2. /\ pc = "choose" /\ pc' = "startup" /\ pid = None /\ pid' = Mine
        /\ UNCHANGED <<current, cuda, blind>>
        /\ server' = [server EXCEPT ![Mine] = "starting"]
    BY <1>1 DEF Launch, ServerInv, PidIsMine
  <2>3. Mine' = Mine
    BY <2>2 DEF Mine
  <2>4. \A p \in Asked : ~Alive(p)
    BY <2>2, MatrixAssumption DEF ServerInv, OnlyMineLives, Asked
  <2>5. OnlyMineLives'
    BY <2>1, <2>2, <2>4 DEF OnlyMineLives, ServerInv, ServersOK, Alive
  <2>6. ServersOK'
    BY <2>1, <2>2 DEF ServerInv, ServersOK, States
  <2>7. PidIsMine' /\ CudaIsMine'
    BY <2>2, <2>3 DEF ServerInv, PidIsMine, CudaIsMine
  <2> QED BY <2>5, <2>6, <2>7 DEF ServerInv
<1>2. CASE Refuse
  BY <1>2, SupervisorMovesOn DEF Refuse
<1>3. CASE PollAgain
  BY <1>3, SupervisorMovesOn DEF PollAgain
<1>4. CASE PollHealthy
  BY <1>4, SupervisorMovesOn DEF PollHealthy
<1>5. CASE StartupFails
  BY <1>5, SupervisorMovesOn DEF StartupFails
<1>6. CASE WriteEnvironment
  BY <1>6, SupervisorMovesOn DEF WriteEnvironment
<1>7. CASE EnvironmentFails
  BY <1>7, SupervisorMovesOn DEF EnvironmentFails
<1>8. CASE WarmUp
  BY <1>8, SupervisorMovesOn DEF WarmUp
<1>9. CASE WarmedUp
  BY <1>9, SupervisorMovesOn DEF WarmedUp
<1>10. CASE QualityDone
  BY <1>10, SupervisorMovesOn DEF QualityDone
<1>11. CASE Measure
  BY <1>11, SupervisorMovesOn DEF Measure
<1>12. CASE Measured
  BY <1>12, SupervisorMovesOn DEF Measured
<1>13. CASE AllMeasured
  BY <1>13, SupervisorMovesOn DEF AllMeasured
<1>14. CASE Terminate
  BY <1>14 DEF Terminate, ServerInv, ServersOK, PidIsMine, OnlyMineLives, CudaIsMine, Alive,
               States, Mine
<1>15. CASE Reap
  BY <1>15 DEF Reap, ServerInv, ServersOK, PidIsMine, OnlyMineLives, CudaIsMine, Alive, States,
               Mine
<1>16. CASE NothingToClean
  BY <1>16, SupervisorMovesOn DEF NothingToClean
<1>17. CASE AwaitCuda
  BY <1>17, SupervisorMovesOn DEF AwaitCuda
<1>18. CASE NextProfile
  <2>1. blind' \/ cuda = {}
    BY <1>18 DEF NextProfile, CheckCuda
  <2>2. current' \in DOMAIN Profiles /\ pc' \in {"choose", "summary"} /\ pc = "recheck"
    BY <1>18 DEF NextProfile, CheckCuda, ServerInv, ServersOK
  <2> QED BY <1>18, <2>1, <2>2 DEF NextProfile, ServerInv, ServersOK, PidIsMine, OnlyMineLives,
                                  CudaIsMine, Alive, Mine
<1>19. CASE CudaRemains
  BY <1>19, SupervisorMovesOn DEF CudaRemains
<1>20. CASE Summarize
  BY <1>20, SupervisorMovesOn DEF Summarize
<1>21. CASE SummaryFails
  BY <1>21, SupervisorMovesOn DEF SummaryFails
<1> QED BY <1>1, <1>2, <1>3, <1>4, <1>5, <1>6, <1>7, <1>8, <1>9, <1>10, <1>11, <1>12, <1>13,
           <1>14, <1>15, <1>16, <1>17, <1>18, <1>19, <1>20, <1>21 DEF Supervise

\* What the measuring programs do is not about servers.
LEMMA ClientsLeaveTheMatrix ==
  LoadStep \/ GpuStep \/ QualityStep \/ UNCHANGED vars => UNCHANGED matrixVars
BY DEF LoadStep, GpuStep, QualityStep, RequestEnds, vars

LEMMA ServerInvariant == Spec => []ServerInv
<1>1. ServerInv /\ [Next]_vars => ServerInv'
  <2> SUFFICES ASSUME ServerInv, [Next]_vars PROVE ServerInv'
    OBVIOUS
  <2>1. CASE UNCHANGED matrixVars
    BY <2>1 DEF matrixVars, place, machine, ServerInv, ServersOK, PidIsMine, OnlyMineLives,
                CudaIsMine, Alive, Mine
  <2> QED BY <2>1, SupervisorKeeps, ServersKeep, ClientsLeaveTheMatrix DEF Next
<1> QED BY <1>1, ServerInit, PTL DEF Spec

\* The supervisor never has two servers alive, launches beside foreign CUDA processes only
\* after a query that was misread, and leaves no server behind.
THEOREM ProfilesAreNotMixed == Spec => []NoMixedProfiles
<1>1. ServerInv => NoMixedProfiles
  <2> SUFFICES ASSUME ServerInv PROVE NoMixedProfiles
    OBVIOUS
  <2>1. ASSUME NEW p \in Asked, Alive(p) PROVE p = Mine /\ pc \notin Idle
    BY <2>1, MineIsAsked, MatrixAssumption DEF ServerInv, OnlyMineLives, PidIsMine, Asked
  <2>2. ASSUME NEW p \in Asked, NEW q \in Asked, Alive(p), p # q
        PROVE  ~Alive(q) /\ (q \in cuda => blind)
    BY <2>1, <2>2 DEF ServerInv, CudaIsMine, Idle
  <2>3. pc = "ended" => \A p \in Asked : ~Alive(p)
    BY <2>1 DEF Idle
  <2> QED BY <2>2, <2>3 DEF NoMixedProfiles
<1> QED BY <1>1, ServerInvariant, PTL

-----------------------------------------------------------------------------
(* What the final OK means *)

Good(p) ==
  /\ disk[p]["environment"] = "new"
  /\ \A k \in DOMAIN levels : cells[p][levels[k]] = "clean"

FilesOK ==
  /\ current \in DOMAIN Profiles
  /\ levels \in Seq(Levels)
  /\ disk \in [Asked \cup OtherProfiles -> [Files -> {"none", "old", "new"}]]
  /\ cells \in [Asked \cup OtherProfiles -> [Levels -> {"none", "old", "clean", "failed"}]]

\* The supervisor has not failed: it is on its way, or at its end with exit status 0.
Working == {"startup", "environment", "warmup", "warming", "quality", "measure", "measuring"}

CodeOK ==
  /\ code \in {None, 0, 1, 2}
  /\ pc \in Working \cup {"choose", "cuda", "recheck", "summary"} => code = None
  /\ pc \in Busy \cup Idle \cup {"cleanup"}

\* Profiles are done in their order.
EarlierAreGood ==
  code = None =>
    \A k \in DOMAIN Profiles :
      \/ k < current
      \/ k = current /\ pc \in {"cleanup", "wait", "cuda", "recheck"}
      \/ pc = "summary"
      => Good(Profiles[k])

\* So are the steps and the concurrencies of one profile.
MineIsUnderWay ==
  /\ pc \in {"warmup", "warming", "quality", "measure", "measuring"} =>
       disk[Mine]["environment"] = "new"
  /\ pc \in {"measure", "measuring"} =>
       /\ level \in Nat \ {0}
       /\ \A k \in DOMAIN levels : k < level => cells[Mine][levels[k]] = "clean"
  /\ pc = "measuring" => level \in DOMAIN levels

OkIsGood ==
  code = 0 => \A p \in Asked :
    /\ Good(p)
    /\ disk[p]["quality"] # "none"
    /\ \A k \in DOMAIN levels : <<p, levels[k]>> \in summary

ReportInv == FilesOK /\ CodeOK /\ EarlierAreGood /\ MineIsUnderWay /\ OkIsGood

LEMMA ReportInit == Init => ReportInv
<1> SUFFICES ASSUME Init PROVE ReportInv
  OBVIOUS
<1>1. 1 \in DOMAIN Profiles /\ levels \in Seq(Levels) /\ current = 1 /\ code = None /\ pc = "choose"
  BY MatrixAssumption DEF Init
<1>2. FilesOK
  BY <1>1 DEF Init, FilesOK, EarlierRuns
<1>3. CodeOK /\ MineIsUnderWay /\ OkIsGood
  BY <1>1, MatrixAssumption DEF CodeOK, MineIsUnderWay, OkIsGood, Busy, Idle, Working
<1>4. EarlierAreGood
  BY <1>1, MatrixAssumption DEF EarlierAreGood
<1> QED BY <1>2, <1>3, <1>4 DEF ReportInv

\* Steps that write no file keep what is known of the files, if they move on forward.
LEMMA ForwardWithoutFiles ==
  ASSUME ReportInv, UNCHANGED <<current, levels, level, disk, cells, summary>>,
         pc' \in Busy \cup Idle \cup {"cleanup"},
         \/ UNCHANGED <<pc, code>>
         \/ pc' = "cleanup" /\ code' \in {1, 2}
         \/ UNCHANGED code /\ pc = "choose" /\ pc' = "startup"
         \/ UNCHANGED code /\ pc = "startup" /\ pc' = "environment"
         \/ UNCHANGED code /\ pc = "warmup" /\ pc' = "warming"
         \/ UNCHANGED code /\ pc = "warming" /\ pc' = "quality"
         \/ UNCHANGED code /\ pc = "measure" /\ pc' = "measuring" /\ level \in DOMAIN levels
         \/ UNCHANGED code /\ pc = "measure" /\ pc' = "cleanup" /\ level \notin DOMAIN levels
         \/ UNCHANGED code /\ pc = "cleanup" /\ pc' = "wait"
         \/ UNCHANGED code /\ pc = "wait" /\ pc' = "cuda" /\ code = None
         \/ UNCHANGED code /\ pc \in {"wait", "cleanup"} /\ pc' = "ended"
         \/ UNCHANGED code /\ pc = "cuda" /\ pc' = "recheck"
  PROVE  ReportInv'
<1> USE DEF ReportInv
<1>1. FilesOK'
  BY DEF FilesOK
<1>2. CodeOK'
  BY MatrixAssumption DEF CodeOK, Busy, Idle, Working
<1>3. \A p : Good(p)' <=> Good(p)
  BY DEF Good
<1>4. OkIsGood'
  BY <1>3, MatrixAssumption DEF OkIsGood, CodeOK
<1>5. MineIsUnderWay'
  BY DEF MineIsUnderWay, Mine
<1>6. EarlierAreGood'
  <2>1. CASE pc = "measure" /\ pc' = "cleanup" /\ level \notin DOMAIN levels
    <3>1. \A k \in DOMAIN levels : k < level
      BY <2>1 DEF MineIsUnderWay, FilesOK
    <3>2. Good(Profiles[current])
      BY <2>1, <3>1 DEF MineIsUnderWay, Good, Mine
    <3> QED BY <1>3, <2>1, <3>2, MatrixAssumption DEF EarlierAreGood, FilesOK
  <2>2. CASE ~(pc = "measure" /\ pc' = "cleanup" /\ level \notin DOMAIN levels)
    BY <1>3, <2>2, MatrixAssumption DEF EarlierAreGood, FilesOK
  <2> QED BY <2>1, <2>2
<1> QED BY <1>1, <1>2, <1>4, <1>5, <1>6

\* The steps that write a file leave that of every other profile alone.
LEMMA SupervisorKeepsReports == ReportInv /\ Supervise => ReportInv'
<1> SUFFICES ASSUME ReportInv, Supervise PROVE ReportInv'
  OBVIOUS
<1> USE DEF place, machine, results, given, Goto, Exit
<1>0. /\ Mine \in Asked
      /\ UNCHANGED levels
      /\ \A k \in DOMAIN Profiles : Profiles[k] \in Asked /\ (Profiles[k] = Mine <=> k = current)
  BY MatrixAssumption DEF ReportInv, FilesOK, Mine, Asked, Supervise
<1>1. CASE Refuse
  BY <1>1, <1>0, ForwardWithoutFiles DEF Refuse, Busy, Idle
<1>2. CASE PollAgain
  BY <1>2, <1>0, ForwardWithoutFiles DEF PollAgain, Busy, Idle
<1>3. CASE PollHealthy
  BY <1>3, <1>0, ForwardWithoutFiles DEF PollHealthy, Busy, Idle
<1>4. CASE StartupFails
  BY <1>4, <1>0, ForwardWithoutFiles DEF StartupFails, Busy, Idle
<1>5. CASE EnvironmentFails
  BY <1>5, <1>0, ForwardWithoutFiles DEF EnvironmentFails, Busy, Idle
<1>6. CASE WarmUp
  BY <1>6, <1>0, ForwardWithoutFiles DEF WarmUp, Busy, Idle
<1>7. CASE WarmedUp
  BY <1>7, <1>0, ForwardWithoutFiles DEF WarmedUp, Busy, Idle
<1>8. CASE Measure
  BY <1>8, <1>0, ForwardWithoutFiles DEF Measure, Busy, Idle
<1>9. CASE AllMeasured
  BY <1>9, <1>0, ForwardWithoutFiles DEF AllMeasured, Busy, Idle
<1>10. CASE Terminate
  BY <1>10, <1>0, ForwardWithoutFiles DEF Terminate, Busy, Idle
<1>11. CASE Reap
  BY <1>11, <1>0, ForwardWithoutFiles DEF Reap, Busy, Idle
<1>12. CASE NothingToClean
  BY <1>12, <1>0, ForwardWithoutFiles DEF NothingToClean, Busy, Idle
<1>13. CASE AwaitCuda
  BY <1>13, <1>0, ForwardWithoutFiles DEF AwaitCuda, Busy, Idle
<1>14. CASE CudaRemains
  BY <1>14, <1>0, ForwardWithoutFiles DEF CudaRemains, Busy, Idle
<1>15. CASE SummaryFails
  BY <1>15, <1>0, ForwardWithoutFiles DEF SummaryFails, Busy, Idle
<1>16. CASE Launch
  <2>1. \A p : Good(p)' <=> Good(p)
    BY <1>0, <1>16 DEF Launch, Good, ReportInv, FilesOK, Files
  <2>2. pc = "choose" /\ pc' = "startup" /\ code = None /\ UNCHANGED <<code, current, level, cells>>
    BY <1>16 DEF Launch, ReportInv, CodeOK
  <2>3. FilesOK'
    BY <1>0, <1>16 DEF Launch, ReportInv, FilesOK, Files
  <2>4. CodeOK' /\ OkIsGood' /\ MineIsUnderWay'
    BY <2>2, MatrixAssumption DEF ReportInv, CodeOK, OkIsGood, MineIsUnderWay, Busy, Idle, Working
  <2>5. EarlierAreGood'
    BY <2>1, <2>2 DEF ReportInv, EarlierAreGood
  <2> QED BY <2>3, <2>4, <2>5 DEF ReportInv
<1>17. CASE WriteEnvironment
  <2>1. /\ pc = "environment" /\ pc' = "warmup" /\ code = None
        /\ UNCHANGED <<code, current, level, cells>>
    BY <1>17 DEF WriteEnvironment, ReportInv, CodeOK, Working
  <2>2. FilesOK' /\ disk'[Mine]["environment"] = "new" /\ \A p : Good(p) => Good(p)'
    BY <1>0, <1>17 DEF WriteEnvironment, ReportInv, FilesOK, Files, Good
  <2>3. CodeOK' /\ OkIsGood' /\ MineIsUnderWay'
    BY <2>1, <2>2, MatrixAssumption
    DEF ReportInv, CodeOK, OkIsGood, MineIsUnderWay, Busy, Idle, Working, Mine
  <2>4. EarlierAreGood'
    BY <2>1, <2>2 DEF ReportInv, EarlierAreGood
  <2> QED BY <2>2, <2>3, <2>4 DEF ReportInv
<1>18. CASE QualityDone
  <2>1. /\ pc = "quality" /\ pc' = "measure" /\ code = None /\ level' = 1
        /\ UNCHANGED <<code, current, cells>>
    BY <1>18 DEF QualityDone, ReportInv, CodeOK, Working
  <2>2. /\ FilesOK' /\ disk'[Mine]["environment"] = disk[Mine]["environment"]
        /\ \A p : Good(p) => Good(p)'
    BY <1>0, <1>18 DEF QualityDone, ReportInv, FilesOK, Files, Good
  <2>3. CodeOK' /\ OkIsGood' /\ MineIsUnderWay'
    BY <1>0, <2>1, <2>2, MatrixAssumption
    DEF ReportInv, CodeOK, OkIsGood, MineIsUnderWay, Busy, Idle, Working, Mine, FilesOK
  <2>4. EarlierAreGood'
    BY <2>1, <2>2 DEF ReportInv, EarlierAreGood
  <2> QED BY <2>2, <2>3, <2>4 DEF ReportInv
<1>19. CASE Measured
  <2>1. /\ pc = "measuring" /\ code = None /\ level \in DOMAIN levels /\ level \in Nat \ {0}
        /\ UNCHANGED <<current, disk>> /\ levels[level] \in Levels
        /\ \/ pc' = "measure" /\ UNCHANGED code /\ level' = level + 1 /\ Clean
           \/ pc' = "cleanup" /\ code' = 1 /\ level' = level
    BY <1>19 DEF Measured, ReportInv, CodeOK, Working, MineIsUnderWay, FilesOK
  <2>2. FilesOK'
    BY <1>0, <1>19, <2>1 DEF Measured, ReportInv, FilesOK
  <2>3. \A p \in Asked : p # Mine /\ Good(p) => Good(p)'
    BY <1>0, <1>19, <2>1 DEF Measured, ReportInv, FilesOK, Good
  <2>4. CodeOK' /\ OkIsGood'
    BY <2>1, MatrixAssumption DEF ReportInv, CodeOK, OkIsGood, Busy, Idle, Working
  <2>5. EarlierAreGood'
    <3> SUFFICES ASSUME code' = None, NEW k \in DOMAIN Profiles, k < current, pc' = "measure"
                 PROVE  Good(Profiles[k])'
      BY <2>1, MatrixAssumption DEF EarlierAreGood
    <3>1. Good(Profiles[k]) /\ Profiles[k] # Mine /\ Profiles[k] \in Asked
      <4>1. k # current
        BY MatrixAssumption DEF ReportInv, FilesOK
      <4> QED BY <4>1, <1>0, <2>1 DEF ReportInv, EarlierAreGood
    <3> QED BY <3>1, <2>3
  <2>6. MineIsUnderWay'
    <3>1. CASE pc' = "measure"
      <4>1. cells' = [cells EXCEPT ![Mine][levels[level]] = "clean"]
        BY <3>1, <1>19, <2>1 DEF Measured, Clean
      <4>2. cells'[Mine][levels[level]] = "clean"
        BY <4>1, <1>0, <2>1 DEF ReportInv, FilesOK
      <4>3. \A k \in DOMAIN levels : k < level => cells'[Mine][levels[k]] = "clean"
        BY <4>1, <1>0, <2>1 DEF ReportInv, FilesOK, MineIsUnderWay
      <4>4. \A k \in DOMAIN levels : k < level + 1 => k < level \/ k = level
        BY <2>1 DEF ReportInv, FilesOK
      <4> QED BY <3>1, <4>2, <4>3, <4>4, <1>0, <2>1 DEF MineIsUnderWay, Mine, ReportInv
    <3>2. CASE pc' = "cleanup"
      BY <3>2 DEF MineIsUnderWay
    <3> QED BY <2>1, <3>1, <3>2
  <2> QED BY <2>2, <2>4, <2>5, <2>6 DEF ReportInv
<1>20. CASE NextProfile
  <2>1. /\ pc = "recheck" /\ code = None /\ current \in DOMAIN Profiles
        /\ UNCHANGED <<code, disk, cells, summary>>
        /\ \/ pc' = "choose" /\ current' = current + 1 /\ current' \in DOMAIN Profiles
           \/ pc' = "summary" /\ current' = current /\ current = Len(Profiles)
    BY <1>20, MatrixAssumption DEF NextProfile, CheckCuda, ReportInv, CodeOK, FilesOK
  <2>2. \A p : Good(p)' <=> Good(p)
    BY <1>0, <2>1 DEF Good
  <2>3. FilesOK' /\ CodeOK' /\ OkIsGood' /\ MineIsUnderWay'
    BY <1>0, <2>1, MatrixAssumption
    DEF ReportInv, FilesOK, CodeOK, OkIsGood, MineIsUnderWay, Busy, Idle, Working
  <2>4. \A k \in DOMAIN Profiles : k <= current => Good(Profiles[k])
    BY <2>1, MatrixAssumption DEF ReportInv, EarlierAreGood
  <2>5. EarlierAreGood'
    BY <2>1, <2>2, <2>4, MatrixAssumption DEF EarlierAreGood
  <2> QED BY <2>3, <2>5 DEF ReportInv
<1>21. CASE Summarize
  <2>1. /\ pc = "summary" /\ code = None /\ pc' = "cleanup" /\ code' = 0 /\ CanSummarize
        /\ UNCHANGED <<current, level, disk, cells>> /\ summary' = Rows
    BY <1>21 DEF Summarize, ReportInv, CodeOK
  <2>2. \A p : Good(p)' <=> Good(p)
    BY <1>0, <2>1 DEF Good
  <2>3. FilesOK' /\ CodeOK' /\ MineIsUnderWay' /\ EarlierAreGood'
    BY <1>0, <2>1, MatrixAssumption
    DEF ReportInv, FilesOK, CodeOK, MineIsUnderWay, EarlierAreGood, Busy, Idle, Working
  <2>4. ASSUME NEW p \in Asked
        PROVE  Good(p) /\ disk[p]["quality"] # "none"
               /\ \A k \in DOMAIN levels : <<p, levels[k]>> \in Rows
    <3>1. Good(p)
      <4>1. PICK k \in DOMAIN Profiles : Profiles[k] = p
        BY DEF Asked
      <4> QED BY <4>1, <2>1 DEF ReportInv, EarlierAreGood
    <3>2. p \in Directories
      BY <3>1 DEF Directories, Good, ReportInv, FilesOK, Files
    <3>3. \A k \in DOMAIN levels : levels[k] \in Levels /\ cells[p][levels[k]] = "clean"
      BY <3>1 DEF Good, ReportInv, FilesOK
    <3>4. ASSUME NEW k \in DOMAIN levels PROVE <<p, levels[k]>> \in Rows
      BY <3>3 DEF Rows
    <3> QED BY <3>1, <3>2, <3>4, <2>1 DEF CanSummarize
  <2>5. OkIsGood'
    BY <1>0, <2>1, <2>2, <2>4 DEF OkIsGood
  <2> QED BY <2>3, <2>5 DEF ReportInv
<1> QED BY <1>1, <1>2, <1>3, <1>4, <1>5, <1>6, <1>7, <1>8, <1>9, <1>10, <1>11, <1>12, <1>13,
           <1>14, <1>15, <1>16, <1>17, <1>18, <1>19, <1>20, <1>21 DEF Supervise

LEMMA ReportInvariant == Spec => []ReportInv
<1>1. ReportInv /\ [Next]_vars => ReportInv'
  <2> SUFFICES ASSUME ReportInv, [Next]_vars PROVE ReportInv'
    OBVIOUS
  <2>1. CASE UNCHANGED <<pc, code, place, given, results>>
    BY <2>1 DEF place, given, results, ReportInv, FilesOK, CodeOK, EarlierAreGood, MineIsUnderWay,
                OkIsGood, Good, Mine
  <2> QED BY <2>1, SupervisorKeepsReports, ClientsLeaveTheMatrix DEF Next, ServerStep, matrixVars
<1> QED BY <1>1, ReportInit, PTL DEF Spec

\* Exit status 0 means that every profile was measured in this run at every concurrency
\* without an error, and is in the summary, whatever earlier runs have left behind.
THEOREM OkIsAlwaysMeasured == Spec => []OkMeansMeasured
<1>1. ReportInv => OkMeansMeasured
  BY DEF ReportInv, OkIsGood, Good, OkMeansMeasured
<1> QED BY <1>1, ReportInvariant, PTL

-----------------------------------------------------------------------------
(* The load test counts every request *)

TaskStates == {"waiting", "sent", "ok", "error", "escaped", "cancelled"}

TasksOK == \E n \in Nat : tasks \in [1 .. n -> TaskStates]

LoadOK ==
  /\ load \in {"idle", "running", "raising", "gathered", "reported", "raised"}
  /\ width \in Nat

\* What is open is under the semaphore, and nothing is open once run_load is left.
OpenOK ==
  /\ Cardinality(InState({"sent"})) <= width
  /\ load \notin {"running", "raising"} => InState({"waiting", "sent"}) = {}
  /\ load = "gathered" => AllEnded
  /\ load \in {"idle", "reported", "raised"} => sampler = "done"

ReportOK ==
  IF load = "reported" THEN report.successes + report.errors = report.requests
  ELSE report = None

LoadInv == TasksOK /\ LoadOK /\ OpenOK /\ ReportOK

LEMMA FewTasks ==
  ASSUME TasksOK, NEW states
  PROVE  IsFiniteSet(InState(states)) /\ Cardinality(InState(states)) \in Nat
<1>1. PICK n \in Nat : tasks \in [1 .. n -> TaskStates]
  BY DEF TasksOK
<1>2. IsFiniteSet(1 .. n) /\ InState(states) \subseteq 1 .. n
  BY <1>1, FS_Interval DEF InState
<1>3. IsFiniteSet(InState(states))
  BY <1>2, FS_Subset
<1> QED BY <1>3, FS_CardinalityType

LEMMA LoadStarts ==
  ASSUME NEW n \in Nat, NEW c \in Nat, StartLoad(n, c) PROVE LoadInv'
<1>1. TasksOK' /\ LoadOK' /\ ReportOK'
  BY DEF StartLoad, TasksOK, LoadOK, ReportOK, TaskStates
<1>2. InState({"sent"})' = {}
  BY DEF StartLoad, InState
<1>3. OpenOK'
  BY <1>2, FS_EmptySet DEF StartLoad, OpenOK
<1> QED BY <1>1, <1>3 DEF LoadInv

LEMMA TasksKeep ==
  ASSUME LoadInv, NEW i \in DOMAIN tasks,
         Acquire(i) \/ \E outcome \in {"ok", "error", "escaped"} : Finish(i, outcome)
  PROVE  LoadInv'
<1> DEFINE sent == InState({"sent"})
<1>0. IsFiniteSet(sent) /\ Cardinality(sent) \in Nat
  BY FewTasks DEF LoadInv
<1>1. TasksOK' /\ LoadOK' /\ ReportOK'
  BY DEF LoadInv, TasksOK, LoadOK, ReportOK, TaskStates, Acquire, Finish
<1>2. OpenOK'
  <2>1. CASE Acquire(i)
    <3>1. sent' = sent \cup {i} /\ i \notin sent
      BY <2>1 DEF Acquire, InState, LoadInv, TasksOK
    <3>2. Cardinality(sent') = Cardinality(sent) + 1
      BY <1>0, <3>1, FS_AddElement
    <3> QED BY <1>0, <2>1, <3>2 DEF Acquire, OpenOK, LoadInv, LoadOK
  <2>2. ASSUME NEW outcome \in {"ok", "error", "escaped"}, Finish(i, outcome) PROVE OpenOK'
    <3>1. sent' \subseteq sent
      BY <2>2 DEF Finish, InState, LoadInv, TasksOK
    <3>2. Cardinality(sent') \in Nat /\ Cardinality(sent') <= Cardinality(sent)
      BY <1>0, <3>1, FS_Subset, FS_CardinalityType
    <3> QED BY <1>0, <2>2, <3>2 DEF Finish, OpenOK, LoadInv, LoadOK
  <2> QED BY <2>1, <2>2
<1> QED BY <1>1, <1>2 DEF LoadInv

LEMMA AllAreCounted ==
  ASSUME TasksOK, AllEnded
  PROVE  Cardinality(InState({"ok"})) + Cardinality(InState({"error"})) = Cardinality(DOMAIN tasks)
<1> DEFINE good == InState({"ok"})  bad == InState({"error"})
<1>1. good \cup bad = DOMAIN tasks /\ good \cap bad = {}
  BY DEF AllEnded, InState
<1>2. Cardinality(good \cup bad) = Cardinality(good) + Cardinality(bad) - Cardinality(good \cap bad)
  BY FewTasks, FS_Union
<1> HIDE DEF good, bad
<1>3. Cardinality(good) \in Nat /\ Cardinality(bad) \in Nat
  BY FewTasks DEF good, bad
<1>4. Cardinality(good) + Cardinality(bad) = Cardinality(DOMAIN tasks)
  BY <1>1, <1>2, <1>3, FS_EmptySet
<1> QED BY <1>4 DEF good, bad

LEMMA LoadKeeps ==
  ASSUME LoadInv, Abandon \/ Gather \/ WriteReport \/ SamplerRaises \/ SamplerStep PROVE LoadInv'
<1>1. CASE Abandon
  <2>1. TasksOK' /\ LoadOK' /\ ReportOK'
    BY <1>1 DEF Abandon, LoadInv, TasksOK, LoadOK, ReportOK, TaskStates
  <2>2. InState({"sent"})' = {} /\ InState({"waiting", "sent"})' = {}
    BY <1>1 DEF Abandon, InState
  <2>3. OpenOK'
    BY <1>1, <2>2, FS_EmptySet DEF Abandon, OpenOK, LoadInv, LoadOK
  <2> QED BY <2>1, <2>3 DEF LoadInv
<1>2. CASE Gather
  <2>1. InState({"waiting", "sent"}) = {}
    BY <1>2 DEF Gather, AllEnded, InState
  <2> QED BY <1>2, <2>1 DEF Gather, LoadInv, TasksOK, LoadOK, OpenOK, ReportOK, AllEnded, InState
<1>3. CASE WriteReport
  <2>1. Cardinality(InState({"ok"})) + Cardinality(InState({"error"})) = Cardinality(DOMAIN tasks)
    BY <1>3, AllAreCounted DEF WriteReport, LoadInv, OpenOK
  <2>2. /\ report'.successes = Cardinality(InState({"ok"}))
        /\ report'.errors = Cardinality(InState({"error"}))
        /\ report'.requests = Cardinality(DOMAIN tasks)
    BY <1>3 DEF WriteReport
  <2>3. report'.successes + report'.errors = report'.requests
    BY <2>1, <2>2
  <2> QED BY <1>3, <2>3 DEF WriteReport, LoadInv, TasksOK, LoadOK, OpenOK, ReportOK, InState
<1>4. CASE SamplerRaises
  BY <1>4 DEF SamplerRaises, LoadInv, TasksOK, LoadOK, OpenOK, ReportOK, InState
<1>5. CASE SamplerStep
  BY <1>5 DEF SamplerStep, Sample, SampleFails, Awake, LoadInv, TasksOK, LoadOK, OpenOK, ReportOK,
              AllEnded, InState
<1> QED BY <1>1, <1>2, <1>3, <1>4, <1>5

LEMMA LoadInitially == Init => LoadInv
<1> SUFFICES ASSUME Init PROVE LoadInv
  OBVIOUS
<1>1. tasks = <<>> /\ load = "idle" /\ width = 1 /\ sampler = "done" /\ report = None
  BY DEF Init, LoadInit
<1>2. tasks \in [1 .. 0 -> TaskStates]
  BY <1>1
<1>3. \A states : InState(states) = {}
  BY <1>1 DEF InState
<1>4. OpenOK
  BY <1>1, <1>3, FS_EmptySet DEF OpenOK
<1> QED BY <1>1, <1>2, <1>4 DEF LoadInv, TasksOK, LoadOK, ReportOK

LEMMA MatrixKeepsLoad ==
  ASSUME LoadInv, ReportInv, Supervise \/ ServerStep \/ QualityStep \/ UNCHANGED vars
  PROVE  LoadInv'
<1>1. CASE UNCHANGED loadVars
  BY <1>1 DEF loadVars, LoadInv, TasksOK, LoadOK, OpenOK, ReportOK, AllEnded, InState
<1>2. CASE WarmUp
  BY <1>2, LoadStarts, MatrixAssumption DEF WarmUp
<1>3. CASE Measure
  <2>1. level \in DOMAIN levels => levels[level] \in Nat
    <3>1. levels \in Seq(Levels)
      BY DEF ReportInv, FilesOK
    <3>2. level \in DOMAIN levels => levels[level] \in Levels
      BY <3>1
    <3>3. Levels \subseteq Nat
      BY MatrixAssumption
    <3> QED BY <3>2, <3>3
  <2>2. \/ UNCHANGED loadVars
        \/ level \in DOMAIN levels /\ StartLoad(Requests, levels[level])
    BY <1>3 DEF Measure
  <2>3. ASSUME level \in DOMAIN levels, StartLoad(Requests, levels[level]) PROVE LoadInv'
    <3>1. levels[level] \in Nat /\ Requests \in Nat
      BY <2>1, <2>3, MatrixAssumption
    <3> QED BY <2>3, <3>1, LoadStarts
  <2> QED BY <1>1, <2>2, <2>3
<1>4. CASE ServerStep \/ QualityStep \/ UNCHANGED vars
  BY <1>1, <1>4 DEF ServerStep, QualityStep, vars, clients
<1>5. CASE Supervise /\ ~WarmUp /\ ~Measure
  BY <1>1, <1>5 DEF Supervise, clients, Launch, Refuse, PollAgain, PollHealthy, StartupFails,
    WriteEnvironment, EnvironmentFails, WarmedUp, QualityDone, Measured, AllMeasured, Terminate,
    Reap, NothingToClean, AwaitCuda, NextProfile, CudaRemains, Summarize, SummaryFails
<1> QED BY <1>2, <1>3, <1>4, <1>5

LEMMA LoadInvariant == Spec => []LoadInv
<1>1. LoadInv /\ ReportInv /\ [Next]_vars => LoadInv'
  <2> SUFFICES ASSUME LoadInv, ReportInv, [Next]_vars PROVE LoadInv'
    OBVIOUS
  <2>1. CASE Supervise \/ ServerStep \/ QualityStep \/ UNCHANGED vars
    BY <2>1, MatrixKeepsLoad
  <2>2. CASE LoadStep
    <3>1. CASE \E i \in DOMAIN tasks : RequestEnds(i)
      BY <3>1, TasksKeep DEF RequestEnds
    <3>2. CASE TaskStep
      BY <3>2, TasksKeep, LoadKeeps DEF TaskStep
    <3> QED BY <2>2, <3>1, <3>2 DEF LoadStep
  <2>3. CASE GpuStep
    BY <2>3, LoadKeeps DEF GpuStep
  <2> QED BY <2>1, <2>2, <2>3 DEF Next
<1> QED BY <1>1, LoadInitially, ReportInvariant, PTL DEF Spec

\* Every load, whatever the server does to its requests, reports each of them once, leaves
\* no task and no sampler behind, and keeps to the semaphore.
THEOREM ReportsAlwaysAddUp == Spec => []ReportsAddUp
<1>1. LoadInv => ReportsAddUp
  BY DEF LoadInv, OpenOK, ReportOK, ReportsAddUp, InState
<1> QED BY <1>1, LoadInvariant, PTL
=============================================================================
