---------------------------- MODULE DaemonProofs ----------------------------
(***************************************************************************)
(* Proofs about Daemon, for any set of process identifiers and of          *)
(* configurations, broken ones included: type correctness, OneDaemon,      *)
(* PidFileFinds and StopIsTrue.                                            *)
(*                                                                         *)
(* What `start' and `stop' rest on is where the script stands: a process   *)
(* that has not written its PID yet is the one the script is waiting for,  *)
(* and a relaunch is about to come only when nothing serves.  IInv adds    *)
(* that to the properties.                                                 *)
(***************************************************************************)
EXTENDS Daemon, FiniteSetTheorems, TLAPS

(* The configuration a process has got past its first Init() with. *)
Loaded ==
  \A p \in Procs :
    proc[p] \in {"detached", "running", "restarting"} => loaded[p] \notin Broken

Sole == \A p, q \in Procs : Serves(p) /\ Serves(q) => p = q

(* A process that has written its PID is in the PID file. *)
Named == \A p \in Procs : proc[p] \in {"running", "restarting"} => pidfile = p

(* The script waits for a process that does not serve yet. *)
Awaited ==
  \A p \in Procs :
    proc[p] \in {"launched", "detached"} => pc = "sleep" /\ child = p

(* Nothing serves when restart and reload are about to launch. *)
Vacant == pc = "launch" => \A p \in Procs : ~Serves(p)

IInv ==
  /\ TypeOK /\ Loaded
  /\ ~doubled => Sole /\ Named /\ Awaited /\ Vacant
  /\ StopIsTrue

-----------------------------------------------------------------------------
LEMMA InitIInv == Init => IInv
BY DaemonAssumption
   DEF Init, IInv, TypeOK, Loaded, Sole, Named, Awaited, Vacant, StopIsTrue,
       Serves

(* Outside a launch, the processes that live are found in the PID file. *)
LEMMA FoundAlive ==
  ASSUME IInv, ~doubled, pc # "sleep", NEW p \in Procs, Serves(p)
  PROVE  pidfile = p /\ PidAlive
<1>1. proc[p] \in {"running", "restarting"}
  BY DEF IInv, TypeOK, Awaited, Serves
<1>2. pidfile = p
  BY <1>1 DEF IInv, Named
<1> QED
  BY <1>1, <1>2, DaemonAssumption DEF PidAlive, Alive

(* Whom the script signals. *)
LEMMA SignalTarget == TypeOK /\ PidAlive => pidfile \in Procs
BY DEF TypeOK, PidAlive

LEMMA EditIInv == IInv /\ Edit => IInv'
BY DEF Edit, daemonVars, scriptVars, IInv, TypeOK, Loaded, Sole, Named,
       Awaited, Vacant, StopIsTrue, Serves

-----------------------------------------------------------------------------
(* Launching a process when nothing runs, or doubled is set. *)
LEMMA LaunchIInv ==
  ASSUME IInv, Launch,
         ~doubled => \A p \in Procs : ~Serves(p),
         UNCHANGED <<restart, shutdown, loaded, wanted, pidfile, disk, success,
                     doubled>>,
         cmd' \in Commands
  PROVE  IInv'
<1>1. PICK p \in Procs \ {pidfile} :
        /\ ~Alive(p)
        /\ proc' = [proc EXCEPT ![p] = "launched"]
        /\ child' = p
        /\ pc' = "sleep"
  BY DEF Launch
<1>2. TypeOK'
  BY <1>1, DaemonAssumption DEF IInv, TypeOK
<1>3. Loaded'
  BY <1>1 DEF IInv, TypeOK, Loaded
<1>4. ASSUME ~doubled' PROVE Sole' /\ Named' /\ Awaited' /\ Vacant'
  <2>1. \A q \in Procs :
          IF q = p THEN proc'[q] = "launched"
                   ELSE proc'[q] \in {"dead", "exiting"}
    BY <1>1, <1>4 DEF IInv, TypeOK, Serves
  <2> QED
    BY <1>1, <2>1 DEF Sole, Named, Awaited, Vacant, Serves
<1>5. StopIsTrue'
  BY <1>1 DEF StopIsTrue
<1> QED
  BY <1>2, <1>3, <1>4, <1>5 DEF IInv

LEMMA StartIInv == IInv /\ Start => IInv'
<1> SUFFICES ASSUME IInv, Start PROVE IInv'
  OBVIOUS
<1>1. pc = "idle" /\ cmd' = "start" /\ cmd' \in Commands
  BY DEF Start
<1>2. CASE PidAlive
  <2>1. /\ pc' = "report" /\ child' = NoPid
        /\ UNCHANGED <<proc, restart, shutdown, wanted, loaded, pidfile, disk,
                       success, doubled>>
    BY <1>2 DEF Start
  <2> QED
    BY <1>1, <2>1 DEF IInv, TypeOK, Loaded, Sole, Named, Awaited, Vacant,
                      StopIsTrue, Serves
<1>3. CASE ~PidAlive
  <2>1. Launch /\ UNCHANGED <<restart, shutdown, loaded, wanted, pidfile, disk,
                              success, doubled>>
    BY <1>3 DEF Start
  <2>2. ~doubled => \A p \in Procs : ~Serves(p)
    BY <1>1, <1>3, FoundAlive
  <2> QED
    BY <1>1, <2>1, <2>2, LaunchIInv
<1> QED
  BY <1>2, <1>3

LEMMA StopIInv == IInv /\ Stop => IInv'
<1> SUFFICES ASSUME IInv, Stop PROVE IInv'
  OBVIOUS
<1>1. shutdown' \in [Procs -> BOOLEAN]
  BY SignalTarget DEF Stop, Terminate, IInv, TypeOK
<1> QED
  BY <1>1 DEF Stop, IInv, TypeOK, Loaded, Sole, Named, Awaited, Vacant,
              StopIsTrue, Serves

LEMMA RestartIInv == IInv /\ Restart => IInv'
<1> SUFFICES ASSUME IInv, Restart PROVE IInv'
  OBVIOUS
<1>1. shutdown' \in [Procs -> BOOLEAN]
  BY SignalTarget DEF Restart, Terminate, IInv, TypeOK
<1>2. ASSUME ~doubled' PROVE ~doubled /\ \A p \in Procs : ~Serves(p)
  BY <1>2, FoundAlive DEF Restart
<1> QED
  BY <1>1, <1>2 DEF Restart, IInv, TypeOK, Loaded, Sole, Named, Awaited,
                    Vacant, StopIsTrue, Serves

(* What a SIGHUP may have set. *)
LEMMA HangUpTypes ==
  ASSUME TypeOK, PidAlive, HangUp
  PROVE  restart' \in [Procs -> BOOLEAN] /\ wanted' \in [Procs -> Versions]
BY SignalTarget DEF HangUp, TypeOK

LEMMA ReloadIInv == IInv /\ Reload => IInv'
<1> SUFFICES ASSUME IInv, Reload PROVE IInv'
  OBVIOUS
<1>1. restart' \in [Procs -> BOOLEAN] /\ wanted' \in [Procs -> Versions]
  BY HangUpTypes DEF Reload, IInv, TypeOK
<1>2. ASSUME ~doubled' PROVE ~doubled /\ \A p \in Procs : ~Serves(p)
  BY <1>2, FoundAlive DEF Reload
<1> QED
  BY <1>1, <1>2 DEF Reload, IInv, TypeOK, Loaded, Sole, Named, Awaited,
                    Vacant, StopIsTrue, Serves

LEMMA HupIInv == IInv /\ Hup => IInv'
<1> SUFFICES ASSUME IInv, Hup PROVE IInv'
  OBVIOUS
<1>1. restart' \in [Procs -> BOOLEAN] /\ wanted' \in [Procs -> Versions]
  BY HangUpTypes DEF Hup, IInv
<1> QED
  BY <1>1 DEF Hup, IInv, TypeOK, Loaded, Sole, Named, Awaited, Vacant,
              StopIsTrue, Serves

LEMMA LaunchAgainIInv == IInv /\ LaunchAgain => IInv'
<1> SUFFICES ASSUME IInv, LaunchAgain PROVE IInv'
  OBVIOUS
<1>1. ~doubled => \A p \in Procs : ~Serves(p)
  BY DEF IInv, LaunchAgain, Vacant
<1>2. Launch /\ UNCHANGED <<restart, shutdown, loaded, wanted, pidfile, disk,
                            success, doubled>>
  BY DEF LaunchAgain
<1>3. cmd' \in Commands
  BY DEF LaunchAgain, IInv, TypeOK
<1> QED
  BY <1>1, <1>2, <1>3, LaunchIInv

LEMMA SleptIInv == IInv /\ Slept => IInv'
BY DEF Slept, daemonVars, IInv, TypeOK, Loaded, Sole, Named, Awaited, Vacant,
       StopIsTrue, Serves

LEMMA ReportIInv == IInv /\ Report => IInv'
<1> SUFFICES ASSUME IInv, Report PROVE IInv'
  OBVIOUS
<1>1. pc = "report" /\ pc' = "idle"
  BY DEF Report
<1>2. StopIsTrue'
  <2> SUFFICES ASSUME ~doubled, cmd = "stop", success', NEW p \in Procs
               PROVE  ~Serves(p)
    BY DEF Report, daemonVars, StopIsTrue, Serves
  <2>1. ~PidAlive
    BY DEF Report, Outcome
  <2> QED
    BY <1>1, <2>1, FoundAlive
<1>3. success' \in BOOLEAN
  BY DEF Report, Outcome, PidAlive, Alive
<1> QED
  BY <1>1, <1>2, <1>3 DEF Report, daemonVars, IInv, TypeOK, Loaded, Sole,
                          Named, Awaited, Vacant, Serves

-----------------------------------------------------------------------------
(* A process that goes on keeps IInv: none comes to life, and the PID file *)
(* changes only in the hands of the one process there is.                  *)
LEMMA DieIInv ==
  ASSUME NEW p \in Procs, IInv, Die(p), UNCHANGED <<pidfile, disk, scriptVars>>
  PROVE  IInv'
<1>1. proc' = [proc EXCEPT ![p] = "dead"]
  BY DEF Die
<1>2. UNCHANGED <<pidfile, disk, cmd, pc, child, success, doubled>>
  BY DEF scriptVars
<1>3. /\ restart' \in [Procs -> BOOLEAN] /\ shutdown' \in [Procs -> BOOLEAN]
      /\ loaded' \in [Procs -> Versions] /\ wanted' \in [Procs -> Versions]
  BY DaemonAssumption DEF Die, IInv, TypeOK
<1>4. TypeOK' /\ Loaded'
  BY <1>1, <1>2, <1>3 DEF Die, IInv, TypeOK, Loaded
<1>5. ASSUME ~doubled' PROVE Sole' /\ Named' /\ Awaited' /\ Vacant'
  BY <1>1, <1>2, <1>5 DEF IInv, TypeOK, Sole, Named, Awaited, Vacant, Serves
<1>6. StopIsTrue'
  BY <1>1, <1>2 DEF IInv, TypeOK, StopIsTrue, Serves
<1> QED
  BY <1>4, <1>5, <1>6 DEF IInv

LEMMA FirstInitIInv ==
  ASSUME NEW p \in Procs PROVE IInv /\ FirstInit(p) => IInv'
<1> SUFFICES ASSUME IInv, FirstInit(p) PROVE IInv'
  OBVIOUS
<1>1. proc[p] = "launched" /\ UNCHANGED <<pidfile, disk, scriptVars>>
  BY DEF FirstInit
<1>2. CASE HasLogfile(disk)
  <2>1. /\ proc' = [proc EXCEPT ![p] = "detached"]
        /\ loaded' = [loaded EXCEPT ![p] = disk]
        /\ UNCHANGED <<restart, shutdown, wanted>>
    BY <1>2 DEF FirstInit, InitProcess, ReadConf
  <2>2. UNCHANGED <<pidfile, disk, cmd, pc, child, success, doubled>>
    BY <1>1 DEF scriptVars
  <2>3. TypeOK' /\ Loaded'
    BY <1>1, <1>2, <2>1, <2>2 DEF IInv, TypeOK, Loaded, HasLogfile
  <2>4. ASSUME ~doubled' PROVE Sole' /\ Named' /\ Awaited' /\ Vacant'
    BY <1>1, <2>1, <2>2, <2>4 DEF IInv, TypeOK, Sole, Named, Awaited, Vacant,
                                  Serves
  <2>5. StopIsTrue'
    BY <1>1, <2>1, <2>2 DEF IInv, TypeOK, StopIsTrue, Serves
  <2> QED
    BY <2>3, <2>4, <2>5 DEF IInv
<1>3. CASE ~HasLogfile(disk)
  BY <1>1, <1>3, DieIInv DEF FirstInit, InitProcess
<1> QED
  BY <1>2, <1>3

LEMMA LogPidIInv ==
  ASSUME NEW p \in Procs PROVE IInv /\ LogPid(p) => IInv'
<1> SUFFICES ASSUME IInv, LogPid(p) PROVE IInv'
  OBVIOUS
<1>1. /\ proc[p] = "detached" /\ proc' = [proc EXCEPT ![p] = "running"]
      /\ pidfile' = p
      /\ UNCHANGED <<restart, shutdown, loaded, disk, cmd, pc, child, success,
                     doubled, wanted>>
  BY DEF LogPid, PidWritten, scriptVars
<1>2. TypeOK' /\ Loaded'
  BY <1>1 DEF IInv, TypeOK, Loaded
<1>3. ASSUME ~doubled' PROVE Sole' /\ Named' /\ Awaited' /\ Vacant'
  BY <1>1, <1>3 DEF IInv, TypeOK, Sole, Named, Awaited, Vacant, Serves
<1>4. StopIsTrue'
  BY <1>1 DEF IInv, TypeOK, StopIsTrue, Serves
<1> QED
  BY <1>2, <1>3, <1>4 DEF IInv

LEMMA UnlinkIInv ==
  ASSUME NEW p \in Procs PROVE IInv /\ Unlink(p) => IInv'
<1> SUFFICES ASSUME IInv, Unlink(p) PROVE IInv'
  OBVIOUS
<1>1. /\ proc[p] = "running" /\ proc' = [proc EXCEPT ![p] = "exiting"]
      /\ pidfile' = NoPid
      /\ UNCHANGED <<restart, shutdown, loaded, disk, cmd, pc, child, success,
                     doubled, wanted>>
  BY DEF Unlink, scriptVars
<1>2. TypeOK' /\ Loaded'
  BY <1>1 DEF IInv, TypeOK, Loaded
<1>3. ASSUME ~doubled' PROVE Sole' /\ Named' /\ Awaited' /\ Vacant'
  <2>1. \A q \in Procs : proc'[q] \in {"dead", "exiting"}
    BY <1>1, <1>3 DEF IInv, TypeOK, Sole, Serves
  <2> QED
    BY <2>1 DEF Sole, Named, Awaited, Vacant, Serves
<1>4. StopIsTrue'
  BY <1>1 DEF IInv, TypeOK, StopIsTrue, Serves
<1> QED
  BY <1>2, <1>3, <1>4 DEF IInv

LEMMA ExitIInv ==
  ASSUME NEW p \in Procs PROVE IInv /\ Exit(p) => IInv'
BY DieIInv DEF Exit

LEMMA RestartInitIInv ==
  ASSUME NEW p \in Procs PROVE IInv /\ RestartInit(p) => IInv'
<1> SUFFICES ASSUME IInv, RestartInit(p) PROVE IInv'
  OBVIOUS
<1>1. proc[p] = "running" /\ UNCHANGED <<pidfile, disk, scriptVars>>
  BY DEF RestartInit
<1>2. CASE HasLogfile(disk)
  <2>1. /\ proc' = [proc EXCEPT ![p] = "restarting"]
        /\ loaded' = [loaded EXCEPT ![p] = disk]
        /\ UNCHANGED <<restart, shutdown, wanted>>
    BY <1>2 DEF RestartInit, InitProcess, ReadConf
  <2>2. UNCHANGED <<pidfile, disk, cmd, pc, child, success, doubled>>
    BY <1>1 DEF scriptVars
  <2>3. TypeOK' /\ Loaded'
    BY <1>1, <1>2, <2>1, <2>2 DEF IInv, TypeOK, Loaded, HasLogfile
  <2>4. ASSUME ~doubled' PROVE Sole' /\ Named' /\ Awaited' /\ Vacant'
    BY <1>1, <2>1, <2>2, <2>4 DEF IInv, TypeOK, Sole, Named, Awaited, Vacant,
                                  Serves
  <2>5. StopIsTrue'
    BY <1>1, <2>1, <2>2 DEF IInv, TypeOK, StopIsTrue, Serves
  <2> QED
    BY <2>3, <2>4, <2>5 DEF IInv
<1>3. CASE ~HasLogfile(disk)
  BY <1>1, <1>3, DieIInv DEF RestartInit, InitProcess
<1> QED
  BY <1>2, <1>3

LEMMA RestartDoneIInv ==
  ASSUME NEW p \in Procs PROVE IInv /\ RestartDone(p) => IInv'
<1> SUFFICES ASSUME IInv, RestartDone(p) PROVE IInv'
  OBVIOUS
<1>1. /\ proc[p] = "restarting" /\ proc' = [proc EXCEPT ![p] = "running"]
      /\ restart' = [restart EXCEPT ![p] = FALSE]
      /\ UNCHANGED <<shutdown, loaded, pidfile, disk, cmd, pc, child, success,
                     doubled, wanted>>
  BY DEF RestartDone, scriptVars
<1>2. TypeOK' /\ Loaded'
  BY <1>1 DEF IInv, TypeOK, Loaded
<1>3. ASSUME ~doubled' PROVE Sole' /\ Named' /\ Awaited' /\ Vacant'
  BY <1>1, <1>3 DEF IInv, TypeOK, Sole, Named, Awaited, Vacant, Serves
<1>4. StopIsTrue'
  BY <1>1 DEF IInv, TypeOK, StopIsTrue, Serves
<1> QED
  BY <1>2, <1>3, <1>4 DEF IInv

-----------------------------------------------------------------------------
LEMMA NextIInv == IInv /\ [Next]_vars => IInv'
<1> SUFFICES ASSUME IInv, [Next]_vars PROVE IInv'
  OBVIOUS
<1>1. CASE Edit
  BY <1>1, EditIInv
<1>2. CASE ScriptStep
  BY <1>2, StartIInv, StopIInv, RestartIInv, ReloadIInv, HupIInv,
     LaunchAgainIInv, SleptIInv, ReportIInv DEF ScriptStep
<1>3. CASE \E p \in Procs : ProcessStep(p)
  BY <1>3, FirstInitIInv, LogPidIInv, UnlinkIInv, ExitIInv,
     RestartInitIInv, RestartDoneIInv DEF ProcessStep
<1>4. CASE UNCHANGED vars
  BY <1>4 DEF vars, IInv, TypeOK, Loaded, Sole, Named, Awaited, Vacant,
              StopIsTrue, Serves
<1> QED
  BY <1>1, <1>2, <1>3, <1>4 DEF Next

(* The inductive invariant holds of every behaviour of the processes, the  *)
(* script and the administrator.                                           *)
THEOREM DaemonsInOrder == Spec => []IInv
<1> QED
  BY InitIInv, NextIInv, PTL DEF Spec

(* Every variable keeps its type, and a daemon that runs never holds a     *)
(* configuration without a logfile: Init() has made it exit.               *)
THEOREM TypeCorrect == Spec => []TypeOK
<1>1. IInv => TypeOK
  BY DEF IInv
<1> QED
  BY <1>1, DaemonsInOrder, PTL

(* However the configurations that are edited in kill daemons, in whatever *)
(* order `start', `stop' and SIGHUP come, at most one process serves as    *)
(* long as `restart' and `reload' are not run beside a live one.           *)
THEOREM AtMostOneDaemon == Spec => []OneDaemon
<1>1. ASSUME IInv PROVE OneDaemon
  <2> DEFINE Live == {p \in Procs : Serves(p)}
  <2> SUFFICES ASSUME ~doubled PROVE Cardinality(Live) <= 1
    BY DEF OneDaemon, AtMostOne
  <2>1. CASE Live = {}
    BY <2>1, FS_EmptySet
  <2>2. CASE Live # {}
    <3>1. PICK p \in Procs : Live = {p}
      BY <1>1, <2>2 DEF IInv, Sole
    <3> QED
      BY <3>1, FS_Singleton
  <2> QED
    BY <2>1, <2>2
<1> QED
  BY <1>1, DaemonsInOrder, PTL

(* Between two commands the PID file names the daemon that serves, even    *)
(* though a broken configuration leaves a stale file behind.                      *)
THEOREM PidFileIsTrue == Spec => []PidFileFinds
<1>1. IInv => PidFileFinds
  BY FoundAlive DEF PidFileFinds
<1> QED
  BY <1>1, DaemonsInOrder, PTL

(* When the script says that the daemon has been stopped, it serves no     *)
(* more: it has got past unlink().                                         *)
THEOREM StopSaysTrue == Spec => []StopIsTrue
<1>1. IInv => StopIsTrue
  BY DEF IInv
<1> QED
  BY <1>1, DaemonsInOrder, PTL
=============================================================================
