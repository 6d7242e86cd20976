------------------------------ MODULE DaemonLock ------------------------------
(***************************************************************************)
(* Starting and stopping the push daemon: the lock file that is to keep it *)
(* single, the socket path clients find it by, and coordinatedSpawn(),     *)
(* which subscribers without a daemon use to start one.                    *)
(*                                                                         *)
(* Every step is one system call on a path.  A path is shared by all       *)
(* processes, and what one of them learnt about it may be old when it acts.*)
(***************************************************************************)
EXTENDS Naturals

CONSTANTS
  Daemons,    \* processes that run `daemon start`, each with a pid of its own
  Racers,     \* processes that call coordinatedSpawn()
  None,       \* no such file, or no pid
  MaxCrashes  \* bound

ASSUME LockAssumption ==
  /\ None \notin Daemons \cup Racers
  /\ Daemons \cap Racers = {}
  /\ MaxCrashes \in Nat

VARIABLES
  daemon,     \* daemon[d].at: the call d makes next; .prior: the pid it read
  racer,      \* racer[r]: the call r makes next
  lock,       \* daemon.lock: who created it, and the pid in it
  spawnLock,  \* daemon.spawn-lock
  socket,     \* bus.sock: whose listener the path leads to
  crashes,
  robbed      \* history: processes whose lock file was unlinked by another
              \* while they were alive

lockVars == <<daemon, racer, lock, spawnLock, socket, crashes, robbed>>

NoFile == [by |-> None, pid |-> None]
File(p) == [by |-> p, pid |-> None]

Alive(p) ==
  IF p \in Daemons THEN daemon[p].at \notin {"new", "gone"}
  ELSE p \in Racers /\ racer[p] \notin {"new", "gone"}

GotoD(d, label) == daemon' = [daemon EXCEPT ![d].at = label]
GotoR(r, label) == racer' = [racer EXCEPT ![r] = label]

\* p unlinks the file f.
Robs(p, f) == robbed' = IF f.by # p /\ Alive(f.by) THEN robbed \cup {f.by} ELSE robbed

DaemonOnly == UNCHANGED <<racer, lock, spawnLock, socket, crashes, robbed>>
RacerOnly == UNCHANGED <<daemon, lock, spawnLock, socket, crashes, robbed>>

-----------------------------------------------------------------------------
(* acquireDaemonLock(): the file is created exclusively and filled in       *)
(* later; whoever finds it reads the pid, asks for the process, and unlinks*)
(* a file whose process is gone or that names none.                        *)

Begin(d) == daemon[d].at = "new" /\ GotoD(d, "open") /\ DaemonOnly

\* Mutant: the file is opened without O_EXCL.
CreateShared(d) ==
  /\ daemon[d].at = "open"
  /\ lock' = File(d)
  /\ GotoD(d, "write")
  /\ UNCHANGED <<racer, spawnLock, socket, crashes, robbed>>

Create(d) ==
  /\ daemon[d].at = "open" /\ lock = NoFile
  /\ lock' = File(d)
  /\ GotoD(d, "write")
  /\ UNCHANGED <<racer, spawnLock, socket, crashes, robbed>>

Exists(d) ==
  /\ daemon[d].at = "open" /\ lock # NoFile
  /\ GotoD(d, "read")
  /\ DaemonOnly

\* Mutant: the pid is written to the path, whoever's file it is by now.
WritePidToPath(d) ==
  /\ daemon[d].at = "write"
  /\ lock' = IF lock = NoFile THEN lock ELSE [lock EXCEPT !.pid = d]
  /\ GotoD(d, "clear")
  /\ UNCHANGED <<racer, spawnLock, socket, crashes, robbed>>

\* Through the descriptor: when the path was unlinked meanwhile nobody sees it.
WritePid(d) ==
  /\ daemon[d].at = "write"
  /\ lock' = IF lock.by = d THEN [lock EXCEPT !.pid = d] ELSE lock
  /\ GotoD(d, "clear")
  /\ UNCHANGED <<racer, spawnLock, socket, crashes, robbed>>

\* No file, or nothing in it: no pid.
ReadPid(d) ==
  /\ daemon[d].at = "read"
  /\ daemon' = [daemon EXCEPT ![d] = [at |-> "probe", prior |-> lock.pid]]
  /\ DaemonOnly

\* EALREADY_RUNNING
Refused(d) ==
  /\ daemon[d].at = "probe" /\ Alive(daemon[d].prior)
  /\ daemon' = [daemon EXCEPT ![d] = [at |-> "gone", prior |-> None]]
  /\ DaemonOnly

\* Mutant: a lock that names no pid counts as one being written.
ProbeDeadNamed(d) ==
  /\ daemon[d].at = "probe" /\ ~Alive(daemon[d].prior)
  /\ daemon' = [daemon EXCEPT ![d] =
       [at |-> IF daemon[d].prior = None THEN "open" ELSE "unlink", prior |-> None]]
  /\ DaemonOnly

\* pidIsAlive() said no.
ProbeDead(d) ==
  /\ daemon[d].at = "probe" /\ ~Alive(daemon[d].prior)
  /\ daemon' = [daemon EXCEPT ![d] = [at |-> "unlink", prior |-> None]]
  /\ DaemonOnly

UnlinkStale(d) ==
  /\ daemon[d].at = "unlink"
  /\ lock' = NoFile
  /\ Robs(d, lock)
  /\ GotoD(d, "open")
  /\ UNCHANGED <<racer, spawnLock, socket, crashes>>

-----------------------------------------------------------------------------
(* startDaemon(), and shutdown() on SIGTERM.                               *)

ClearSocket(d) ==
  /\ daemon[d].at = "clear"
  /\ socket' = None
  /\ GotoD(d, "listen")
  /\ UNCHANGED <<racer, lock, spawnLock, crashes, robbed>>

\* EADDRINUSE ends the process, and its lock file stays.
Listen(d) ==
  /\ daemon[d].at = "listen"
  /\ \/ socket = None /\ socket' = d /\ GotoD(d, "serve")
     \/ socket # None /\ UNCHANGED socket /\ GotoD(d, "gone")
  /\ UNCHANGED <<racer, lock, spawnLock, crashes, robbed>>

\* Mutant: shutdown() releases the lock before it stops the server.
SignalReleasing(d) ==
  /\ daemon[d].at = "serve"
  /\ lock' = NoFile
  /\ Robs(d, lock)
  /\ GotoD(d, "close")
  /\ UNCHANGED <<racer, spawnLock, socket, crashes>>

Signal(d) == daemon[d].at = "serve" /\ GotoD(d, "close") /\ DaemonOnly

\* stop(): closing the listener unlinks its path, whoever is bound to it now.
CloseServer(d) ==
  /\ daemon[d].at = "close"
  /\ socket' = None
  /\ GotoD(d, "release")
  /\ UNCHANGED <<racer, lock, spawnLock, crashes, robbed>>

Release(d) ==
  /\ daemon[d].at = "release"
  /\ lock' = NoFile
  /\ Robs(d, lock)
  /\ GotoD(d, "gone")
  /\ UNCHANGED <<racer, spawnLock, socket, crashes>>

-----------------------------------------------------------------------------
(* coordinatedSpawn().                                                     *)

\* A connect() succeeds.
Reachable == socket \in Daemons /\ daemon[socket].at = "serve"

Ask(r) == racer[r] = "new" /\ GotoR(r, "ask") /\ RacerOnly

\* The fast path, or on to the spawn lock.
Probe(r) ==
  /\ racer[r] = "ask"
  /\ GotoR(r, IF Reachable THEN "gone" ELSE "claim")
  /\ RacerOnly

\* Tried at first, and once more after a stale lock was removed.
Claim(r) ==
  /\ racer[r] \in {"claim", "again"}
  /\ \/ /\ spawnLock = NoFile /\ spawnLock' = File(r) /\ GotoR(r, "name")
     \/ /\ spawnLock # NoFile /\ UNCHANGED spawnLock
        /\ GotoR(r, IF racer[r] = "claim" THEN "read" ELSE "wait")
  /\ UNCHANGED <<daemon, lock, socket, crashes, robbed>>

NameSpawner(r) ==
  /\ racer[r] = "name"
  /\ spawnLock' = IF spawnLock.by = r THEN [spawnLock EXCEPT !.pid = r] ELSE spawnLock
  /\ GotoR(r, "spawn")
  /\ UNCHANGED <<daemon, lock, socket, crashes, robbed>>

\* isSpawnLockStale()
ReadSpawner(r) ==
  /\ racer[r] = "read"
  /\ GotoR(r, IF Alive(spawnLock.pid) THEN "wait" ELSE "drop")
  /\ RacerOnly

DropSpawnLock(r) ==
  /\ racer[r] = "drop"
  /\ spawnLock' = NoFile
  /\ Robs(r, spawnLock)
  /\ GotoR(r, "again")
  /\ UNCHANGED <<daemon, lock, socket, crashes>>

\* spawnFn(), the caller's, which starts a daemon and waits for its socket.
Spawn(r) ==
  /\ racer[r] = "spawn"
  /\ \/ \E d \in Daemons :
          daemon[d].at = "new" /\ GotoD(d, "open")
     \/ (\A d \in Daemons : daemon[d].at # "new") /\ UNCHANGED daemon
  /\ GotoR(r, "spawned")
  /\ UNCHANGED <<lock, spawnLock, socket, crashes, robbed>>

\* The socket came up, or the wait timed out and spawnFn() threw.
EndSpawn(r) ==
  /\ racer[r] = "spawned"
  /\ spawnLock' = NoFile
  /\ Robs(r, spawnLock)
  /\ GotoR(r, "gone")
  /\ UNCHANGED <<daemon, lock, socket, crashes>>

\* The loser's loop: the daemon is there, or the deadline passed.
Wait(r) == racer[r] = "wait" /\ GotoR(r, "gone") /\ RacerOnly

-----------------------------------------------------------------------------
Crash ==
  /\ crashes < MaxCrashes
  /\ crashes' = crashes + 1
  /\ \/ \E d \in Daemons : Alive(d) /\ UNCHANGED racer
          /\ daemon' = [daemon EXCEPT ![d] = [at |-> "gone", prior |-> None]]
     \/ \E r \in Racers : Alive(r) /\ GotoR(r, "gone") /\ UNCHANGED daemon
  /\ UNCHANGED <<lock, spawnLock, socket, robbed>>

LockInit ==
  /\ daemon = [d \in Daemons |-> [at |-> "new", prior |-> None]]
  /\ racer = [r \in Racers |-> "new"]
  /\ lock = NoFile /\ spawnLock = NoFile /\ socket = None
  /\ crashes = 0 /\ robbed = {}

\* What a daemon that was started does by itself.
Run(d) ==
  \/ Create(d) \/ Exists(d) \/ WritePid(d) \/ ReadPid(d) \/ Refused(d)
  \/ ProbeDead(d) \/ UnlinkStale(d) \/ ClearSocket(d) \/ Listen(d)
  \/ CloseServer(d) \/ Release(d)

Race(r) ==
  \/ Probe(r) \/ Claim(r) \/ NameSpawner(r) \/ ReadSpawner(r) \/ DropSpawnLock(r)
  \/ Spawn(r) \/ EndSpawn(r) \/ Wait(r)

LockNext ==
  \/ \E d \in Daemons : Begin(d) \/ Run(d) \/ Signal(d)
  \/ \E r \in Racers : Ask(r) \/ Race(r)
  \/ Crash

LockSpec == LockInit /\ [][LockNext]_lockVars

\* A live process makes its next call; nobody has to start or stop one.
FairLockSpec == LockSpec /\ \A d \in Daemons : WF_lockVars(Run(d))

-----------------------------------------------------------------------------
DaemonState ==
  [at : {"new", "open", "write", "read", "probe", "unlink", "clear",
         "listen", "serve", "close", "release", "gone"},
   prior : Daemons \cup {None}]

RacerState == {"new", "ask", "claim", "name", "read", "drop", "again",
               "spawn", "spawned", "wait", "gone"}

LockFile(P) == [by : P \cup {None}, pid : P \cup {None}]

(* Every process is at a call, and a lock file names its creator or nobody. *)
LockTypeOK ==
  /\ daemon \in [Daemons -> DaemonState]
  /\ racer \in [Racers -> RacerState]
  /\ lock \in LockFile(Daemons) /\ lock.pid \in {None, lock.by}
  /\ spawnLock \in LockFile(Racers) /\ spawnLock.pid \in {None, spawnLock.by}
  /\ socket \in Daemons \cup {None}
  /\ crashes \in 0 .. MaxCrashes
  /\ robbed \subseteq Daemons \cup Racers

Owns(d) == daemon[d].at \in {"write", "clear", "listen", "serve", "close", "release"}
Spawns(r) == racer[r] \in {"name", "spawn", "spawned"}

(* lib/daemon-singleton.js "ensure exactly one daemon process owns the      *)
(* socket" and "exactly one wins the spawn-lock": there are two owners of  *)
(* either lock only after a live owner had its file unlinked by a process  *)
(* that found the file still empty or had read an older one.               *)
SecondOwnerNeedsRobbery ==
  /\ \A d, e \in Daemons : d # e /\ Owns(d) /\ Owns(e) => {d, e} \cap robbed # {}
  /\ \A r, s \in Racers : r # s /\ Spawns(r) /\ Spawns(s) => {r, s} \cap robbed # {}

(* commands/cmd-daemon.js shutdown(): the server stops before the lock is   *)
(* released.  A daemon that serves is the one the socket path leads to, so *)
(* a restart never unlinks the socket of its successor; only a robbed lock *)
(* can leave a daemon serving that nobody can reach.                       *)
ServingIsReachable ==
  \A d \in Daemons : daemon[d].at = "serve" => socket = d \/ robbed # {}

(* acquireDaemonLock()'s retry loop: whatever locks and sockets crashed     *)
(* processes left behind, and however often the starters take each other's *)
(* lock away, every daemon that was started ends up serving, is refused    *)
(* for one that is alive, or exits.                                        *)
StartsSettle == <>[](\A d \in Daemons : daemon[d].at \in {"new", "serve", "gone"})
=============================================================================
