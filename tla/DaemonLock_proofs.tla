-------------------------- MODULE DaemonLock_proofs --------------------------
(***************************************************************************)
(* Proofs about DaemonLock, for any number of daemons, racers and crashes. *)
(*                                                                         *)
(* An owner that nobody robbed still has its file at the path, so there is *)
(* one such owner at most; and everything done to the socket path is done  *)
(* by an owner.                                                            *)
(***************************************************************************)
EXTENDS DaemonLock, TLAPS

OwnersFile == \A d \in Daemons : Owns(d) => lock.by = d \/ d \in robbed
SpawnersFile == \A r \in Racers : Spawns(r) => spawnLock.by = r \/ r \in robbed

LockInv == LockTypeOK /\ OwnersFile /\ SpawnersFile /\ ServingIsReachable

LEMMA InitLock == ASSUME LockAssumption, LockInit PROVE LockInv
  <1>1. LockTypeOK
    BY DEF LockAssumption, LockInit, LockTypeOK, DaemonState, RacerState, LockFile, NoFile
  <1> QED
    BY <1>1 DEF LockInit, LockInv, OwnersFile, SpawnersFile, ServingIsReachable, Owns, Spawns

(* A step of a daemon keeps the variables in their types.                  *)
LEMMA DaemonShape ==
  ASSUME LockTypeOK, NEW d \in Daemons, Begin(d) \/ Run(d) \/ Signal(d)
  PROVE  LockTypeOK'
  <1> USE DEF LockTypeOK, DaemonState, LockFile, GotoD, DaemonOnly, Robs, Alive, NoFile, File
  <1>1. CASE Begin(d) BY <1>1 DEF Begin
  <1>2. CASE Create(d) BY <1>2 DEF Create
  <1>3. CASE Exists(d) BY <1>3 DEF Exists
  <1>4. CASE WritePid(d) BY <1>4 DEF WritePid
  <1>5. CASE ReadPid(d) BY <1>5 DEF ReadPid
  <1>6. CASE Refused(d) BY <1>6 DEF Refused
  <1>7. CASE ProbeDead(d) BY <1>7 DEF ProbeDead
  <1>8. CASE UnlinkStale(d) BY <1>8 DEF UnlinkStale
  <1>9. CASE ClearSocket(d) BY <1>9 DEF ClearSocket
  <1>10. CASE Listen(d) BY <1>10 DEF Listen
  <1>11. CASE Signal(d) BY <1>11 DEF Signal
  <1>12. CASE CloseServer(d) BY <1>12 DEF CloseServer
  <1>13. CASE Release(d) BY <1>13 DEF Release
  <1> QED BY <1>1, <1>2, <1>3, <1>4, <1>5, <1>6, <1>7, <1>8, <1>9, <1>10, <1>11,
             <1>12, <1>13 DEF Run

(* So does a step of a racer.                                              *)
LEMMA RacerShape ==
  ASSUME LockTypeOK, NEW r \in Racers, Ask(r) \/ Race(r)
  PROVE  LockTypeOK'
  <1> USE DEF LockTypeOK, DaemonState, RacerState, LockFile, GotoD, GotoR, RacerOnly, Robs,
              Alive, NoFile, File
  <1>1. CASE Ask(r) BY <1>1 DEF Ask
  <1>2. CASE Probe(r) BY <1>2 DEF Probe
  <1>3. CASE Claim(r) BY <1>3 DEF Claim
  <1>4. CASE NameSpawner(r) BY <1>4 DEF NameSpawner
  <1>5. CASE ReadSpawner(r) BY <1>5 DEF ReadSpawner
  <1>6. CASE DropSpawnLock(r) BY <1>6 DEF DropSpawnLock
  <1>7. CASE Spawn(r) BY <1>7 DEF Spawn
  <1>8. CASE EndSpawn(r) BY <1>8 DEF EndSpawn
  <1>9. CASE Wait(r) BY <1>9 DEF Wait
  <1> QED BY <1>1, <1>2, <1>3, <1>4, <1>5, <1>6, <1>7, <1>8, <1>9 DEF Race

(* So does the end of a process at any moment.                             *)
LEMMA CrashShape ==
  ASSUME LockAssumption, LockTypeOK, Crash PROVE LockTypeOK'
  BY DEF LockAssumption, LockTypeOK, DaemonState, RacerState, LockFile, Crash, GotoR

(* What a daemon does leaves every unrobbed owner its file: it creates one *)
(* where there is none, and robs whom it takes one from.                   *)
LEMMA DaemonKeepsFiles ==
  ASSUME LockAssumption, LockInv, NEW d \in Daemons, Begin(d) \/ Run(d) \/ Signal(d)
  PROVE  OwnersFile' /\ SpawnersFile'
  <1> USE DEF LockInv, LockTypeOK, DaemonState, LockFile, GotoD, DaemonOnly, NoFile, File,
              OwnersFile, Owns
  <1>1. SpawnersFile'
    BY DEF Begin, Run, Signal, Create, Exists, WritePid, ReadPid, Refused, ProbeDead,
           UnlinkStale, ClearSocket, Listen, CloseServer, Release, Robs, SpawnersFile, Spawns
  <1> SUFFICES OwnersFile'
    BY <1>1
  <1>2. CASE Begin(d) BY <1>2 DEF Begin
  <1>3. CASE Create(d) BY <1>3 DEF Create, LockAssumption
  <1>4. CASE Exists(d) BY <1>4 DEF Exists
  <1>5. CASE WritePid(d) BY <1>5 DEF WritePid
  <1>6. CASE ReadPid(d) BY <1>6 DEF ReadPid
  <1>7. CASE Refused(d) BY <1>7 DEF Refused
  <1>8. CASE ProbeDead(d) BY <1>8 DEF ProbeDead
  <1>9. CASE UnlinkStale(d) BY <1>9 DEF UnlinkStale, Robs, Alive
  <1>10. CASE ClearSocket(d) BY <1>10 DEF ClearSocket
  <1>11. CASE Listen(d) BY <1>11 DEF Listen
  <1>12. CASE Signal(d) BY <1>12 DEF Signal
  <1>13. CASE CloseServer(d) BY <1>13 DEF CloseServer
  <1>14. CASE Release(d) BY <1>14 DEF Release, Robs, Alive
  <1> QED BY <1>2, <1>3, <1>4, <1>5, <1>6, <1>7, <1>8, <1>9, <1>10, <1>11,
             <1>12, <1>13, <1>14 DEF Run

(* The same of a racer and the spawn lock.                                 *)
LEMMA RacerKeepsFiles ==
  ASSUME LockAssumption, LockInv, NEW r \in Racers, Ask(r) \/ Race(r)
  PROVE  OwnersFile' /\ SpawnersFile'
  <1> USE DEF LockInv, LockTypeOK, RacerState, LockFile, GotoR, RacerOnly, NoFile, File,
              SpawnersFile, Spawns
  <1>1. OwnersFile'
    BY DEF Ask, Race, Probe, Claim, NameSpawner, ReadSpawner, DropSpawnLock, Spawn, EndSpawn,
           Wait, GotoD, Robs, OwnersFile, Owns, DaemonState
  <1> SUFFICES SpawnersFile'
    BY <1>1
  <1>2. CASE Ask(r) BY <1>2 DEF Ask
  <1>3. CASE Probe(r) BY <1>3 DEF Probe
  <1>4. CASE Claim(r) BY <1>4 DEF Claim, LockAssumption
  <1>5. CASE NameSpawner(r) BY <1>5 DEF NameSpawner
  <1>6. CASE ReadSpawner(r) BY <1>6 DEF ReadSpawner
  <1>7. CASE DropSpawnLock(r) BY <1>7 DEF DropSpawnLock, Robs, Alive, LockAssumption
  <1>8. CASE Spawn(r) BY <1>8 DEF Spawn
  <1>9. CASE EndSpawn(r) BY <1>9 DEF EndSpawn, Robs, Alive, LockAssumption
  <1>10. CASE Wait(r) BY <1>10 DEF Wait
  <1> QED BY <1>2, <1>3, <1>4, <1>5, <1>6, <1>7, <1>8, <1>9, <1>10 DEF Race

(* Only the unrobbed owner touches the socket path.                        *)
LEMMA DaemonKeepsReachable ==
  ASSUME LockAssumption, LockInv, NEW d \in Daemons, Begin(d) \/ Run(d) \/ Signal(d)
  PROVE  ServingIsReachable'
  <1> USE DEF LockInv, LockTypeOK, DaemonState, GotoD, DaemonOnly, OwnersFile, Owns,
              ServingIsReachable
  <1>1. CASE ClearSocket(d) BY <1>1 DEF ClearSocket
  <1>2. CASE Listen(d) BY <1>2 DEF Listen
  <1>3. CASE CloseServer(d) BY <1>3 DEF CloseServer
  <1>4. CASE Begin(d) \/ Create(d) \/ Exists(d) \/ WritePid(d)
    BY <1>4 DEF Begin, Create, Exists, WritePid
  <1>5. CASE ReadPid(d) \/ Refused(d) \/ ProbeDead(d) \/ Signal(d)
    BY <1>5 DEF ReadPid, Refused, ProbeDead, Signal
  <1>6. CASE UnlinkStale(d) \/ Release(d)
    BY <1>6 DEF UnlinkStale, Release, Robs
  <1> QED BY <1>1, <1>2, <1>3, <1>4, <1>5, <1>6 DEF Run

LEMMA RacerKeepsReachable ==
  ASSUME LockInv, NEW r \in Racers, Ask(r) \/ Race(r)
  PROVE  ServingIsReachable'
  BY DEF LockInv, LockTypeOK, DaemonState, ServingIsReachable, Ask, Race, Probe, Claim,
         NameSpawner, ReadSpawner, DropSpawnLock, Spawn, EndSpawn, Wait, GotoD, RacerOnly, Robs

(* A process that is gone owns nothing.                                    *)
LEMMA CrashKeeps ==
  ASSUME LockInv, Crash
  PROVE  OwnersFile' /\ SpawnersFile' /\ ServingIsReachable'
  BY DEF LockInv, LockTypeOK, DaemonState, RacerState, Crash, GotoR, OwnersFile, SpawnersFile,
         ServingIsReachable, Owns, Spawns

LEMMA NextLock ==
  ASSUME LockAssumption, LockInv, [LockNext]_lockVars PROVE LockInv'
  <1>1. CASE UNCHANGED lockVars
    BY <1>1 DEF lockVars, LockInv, LockTypeOK, OwnersFile, SpawnersFile, ServingIsReachable,
                Owns, Spawns
  <1>2. ASSUME NEW d \in Daemons, Begin(d) \/ Run(d) \/ Signal(d) PROVE LockInv'
    BY <1>2, DaemonShape, DaemonKeepsFiles, DaemonKeepsReachable DEF LockInv
  <1>3. ASSUME NEW r \in Racers, Ask(r) \/ Race(r) PROVE LockInv'
    BY <1>3, RacerShape, RacerKeepsFiles, RacerKeepsReachable DEF LockInv
  <1>4. CASE Crash
    BY <1>4, CrashShape, CrashKeeps DEF LockInv
  <1> QED BY <1>1, <1>2, <1>3, <1>4 DEF LockNext

THEOREM LockInvariant == LockSpec => []LockInv
  BY LockAssumption, InitLock, NextLock, PTL DEF LockSpec

(* The variables of the lock files, the socket and the processes have      *)
(* their types.                                                            *)
THEOREM LockTypeCorrect == LockSpec => []LockTypeOK
  BY LockInvariant, PTL DEF LockInv

(* Of two owners of daemon.lock, or of daemon.spawn-lock, one was robbed.  *)
THEOREM SingleUnlessRobbed == LockSpec => []SecondOwnerNeedsRobbery
  <1>1. LockInv => SecondOwnerNeedsRobbery
    BY DEF LockInv, LockTypeOK, LockFile, OwnersFile, SpawnersFile, SecondOwnerNeedsRobbery
  <1> QED BY <1>1, LockInvariant, PTL

(* A serving daemon has the socket path unless a lock was robbed.          *)
THEOREM ReachableUnlessRobbed == LockSpec => []ServingIsReachable
  BY LockInvariant, PTL DEF LockInv
=============================================================================
