------------------------------- MODULE Daemon -------------------------------
(***************************************************************************)
(* The life of gpilogd processes: the signal flags and the restart timer   *)
(* of gpilog.cpp, the PID file, and the init script rc.gpilog that starts, *)
(* stops and reloads them while an administrator edits the configuration.  *)
(***************************************************************************)
EXTENDS Naturals, FiniteSets

CONSTANTS
  Procs,      \* process identifiers
  NoPid,      \* there is no PID file
  Versions,   \* versions of gpilog.conf, 0 .. n; edits go upwards
  Broken,     \* versions without a Logfile=, which make Init() exit
  Commands    \* what the administrator runs

AllCommands == {"start", "stop", "restart", "reload", "hup"}

ASSUME DaemonAssumption ==
  /\ IsFiniteSet(Procs)
  /\ NoPid \notin Procs
  /\ Versions \subseteq Nat /\ 0 \in Versions
  /\ Broken \subseteq Versions
  /\ Commands \subseteq AllCommands

VARIABLES
  proc,      \* [Procs -> the point each process has reached]
  restart,   \* the flag SIGHUP sets
  shutdown,  \* the flag SIGTERM sets
  loaded,    \* the version gpi_config holds
  pidfile,   \* the process GPILOG_PID_FILE names, or NoPid
  disk,      \* the version of gpilog.conf on disk
  cmd,       \* the command that runs or has run last
  pc,        \* where it is
  child,     \* the process it has launched
  success,   \* what it has reported
  \* history, read by no process:
  wanted,    \* the version a SIGHUP has asked each process for
  doubled    \* `restart' or `reload' has been run beside a live daemon

vars == <<proc, restart, shutdown, loaded, pidfile, disk, cmd, pc, child,
          success, wanted, doubled>>

daemonVars == <<proc, restart, shutdown, loaded, pidfile, wanted>>
scriptVars == <<cmd, pc, child, success, doubled>>

Alive(p) == proc[p] # "dead"

(* A process past unlink() does nothing but end. *)
Serves(p) == proc[p] \notin {"dead", "exiting"}

(* A faulty variant: nothing is ever found. *)
PidAliveNever == FALSE

(* test -f $PACKAGE_PID and test -d /proc/`cat $PACKAGE_PID` *)
PidAlive == pidfile # NoPid /\ Alive(pidfile)

-----------------------------------------------------------------------------
Init ==
  /\ proc = [p \in Procs |-> "dead"]
  /\ restart = [p \in Procs |-> FALSE]
  /\ shutdown = [p \in Procs |-> FALSE]
  /\ loaded = [p \in Procs |-> 0]
  /\ pidfile = NoPid
  /\ disk = 0
  /\ cmd \in Commands /\ pc = "idle" /\ child = NoPid /\ success = FALSE
  /\ wanted = [p \in Procs |-> 0]
  /\ doubled = FALSE

(* The configuration is edited. *)
Edit ==
  /\ \E v \in Versions : v > disk /\ disk' = v
  /\ UNCHANGED <<daemonVars, scriptVars>>

-----------------------------------------------------------------------------
(* Faulty variants: a configuration without a logfile is accepted; the     *)
(* configuration is not read again.                                        *)
HasLogfileAlways(v) == TRUE
ReadOldConf(p) == loaded[p]

HasLogfile(v) == v \notin Broken
ReadConf(p) == disk

(* exit(), and with it all that the process has had in memory. *)
Die(p) ==
  /\ proc' = [proc EXCEPT ![p] = "dead"]
  /\ restart' = [restart EXCEPT ![p] = FALSE]
  /\ shutdown' = [shutdown EXCEPT ![p] = FALSE]
  /\ loaded' = [loaded EXCEPT ![p] = 0]
  /\ wanted' = [wanted EXCEPT ![p] = 0]

(* Init(): without a logfile it exits. *)
InitProcess(p, next) ==
  IF HasLogfile(disk)
  THEN /\ proc' = [proc EXCEPT ![p] = next]
       /\ loaded' = [loaded EXCEPT ![p] = ReadConf(p)]
       /\ UNCHANGED <<restart, shutdown, wanted>>
  ELSE Die(p)

(* The first Init() of a process, in the foreground. *)
FirstInit(p) ==
  /\ proc[p] = "launched"
  /\ InitProcess(p, "detached")
  /\ UNCHANGED <<pidfile, disk, scriptVars>>

(* A faulty variant: a PID file that is there is not written over. *)
PidWrittenOnce(p) == IF pidfile = NoPid THEN p ELSE pidfile

PidWritten(p) == p

(* The end of the constructor, after daemon(): the PID is written over     *)
(* whatever the file says.                                                 *)
LogPid(p) ==
  /\ proc[p] = "detached"
  /\ proc' = [proc EXCEPT ![p] = "running"]
  /\ pidfile' = PidWritten(p)
  /\ UNCHANGED <<restart, shutdown, loaded, disk, scriptVars, wanted>>

(* A faulty variant: `restart' is looked at first. *)
RestartDueFirst(p) == restart[p]

RestartDue(p) == restart[p] /\ ~shutdown[p]

(* restartData() finds `shutdown'; the file is unlinked whoever it names.  *)
Unlink(p) ==
  /\ proc[p] = "running" /\ shutdown[p]
  /\ proc' = [proc EXCEPT ![p] = "exiting"]
  /\ pidfile' = NoPid
  /\ UNCHANGED <<restart, shutdown, loaded, disk, scriptVars, wanted>>

(* exit(0), with the PID file gone already. *)
Exit(p) ==
  /\ proc[p] = "exiting"
  /\ Die(p)
  /\ UNCHANGED <<pidfile, disk, scriptVars>>

(* restartData() finds `restart': Restart() and Init(), which exits on a   *)
(* broken configuration and leaves the PID file behind.                    *)
RestartInit(p) ==
  /\ proc[p] = "running" /\ RestartDue(p)
  /\ InitProcess(p, "restarting")
  /\ UNCHANGED <<pidfile, disk, scriptVars>>

(* restart=false; a SIGHUP that came since the configuration was read is   *)
(* forgotten.                                                              *)
RestartDone(p) ==
  /\ proc[p] = "restarting"
  /\ proc' = [proc EXCEPT ![p] = "running"]
  /\ restart' = [restart EXCEPT ![p] = FALSE]
  /\ UNCHANGED <<shutdown, loaded, pidfile, disk, scriptVars, wanted>>

ProcessStep(p) ==
  \/ FirstInit(p) \/ LogPid(p)
  \/ Unlink(p) \/ Exit(p)
  \/ RestartInit(p) \/ RestartDone(p)

-----------------------------------------------------------------------------
(* SigHandler() on SIGTERM and SIGHUP. *)
Terminate == shutdown' = [shutdown EXCEPT ![pidfile] = TRUE]

HangUp ==
  /\ restart' = [restart EXCEPT ![pidfile] = TRUE]
  /\ wanted' = [wanted EXCEPT
                  ![pidfile] = IF proc[pidfile] = "restarting" THEN @
                                                               ELSE disk]

(* The script runs $PACKAGE_BIN, which returns once the process has gone   *)
(* to the background or has exited.  A process identifier is used again    *)
(* only when the PID file does not name it.                                *)
Launch ==
  \E p \in Procs \ {pidfile} :
    /\ ~Alive(p)
    /\ proc' = [proc EXCEPT ![p] = "launched"]
    /\ child' = p
    /\ pc' = "sleep"

Start ==
  /\ pc = "idle" /\ "start" \in Commands
  /\ cmd' = "start"
  /\ IF PidAlive
     THEN /\ pc' = "report" /\ child' = NoPid
          /\ UNCHANGED proc
     ELSE Launch
  /\ UNCHANGED <<restart, shutdown, loaded, wanted, pidfile, disk, success,
                 doubled>>

Stop ==
  /\ pc = "idle" /\ "stop" \in Commands
  /\ cmd' = "stop" /\ pc' = "report" /\ child' = NoPid
  /\ IF PidAlive THEN Terminate ELSE UNCHANGED shutdown
  /\ UNCHANGED <<proc, restart, loaded, pidfile, disk, success, wanted,
                 doubled>>

(* Bound: once a second daemon has been launched beside a live one, the    *)
(* two relaunching commands are run no more, so that Procs suffices.       *)
RelaunchBound == ~doubled

Restart ==
  /\ pc = "idle" /\ "restart" \in Commands /\ RelaunchBound
  /\ cmd' = "restart" /\ pc' = "launch" /\ child' = NoPid
  /\ doubled' = (doubled \/ PidAlive)
  /\ IF PidAlive THEN Terminate ELSE UNCHANGED shutdown
  /\ UNCHANGED <<proc, restart, loaded, pidfile, disk, success, wanted>>

Reload ==
  /\ pc = "idle" /\ "reload" \in Commands /\ RelaunchBound
  /\ cmd' = "reload" /\ pc' = "launch" /\ child' = NoPid
  /\ doubled' = (doubled \/ PidAlive)
  /\ IF PidAlive THEN HangUp ELSE UNCHANGED <<restart, wanted>>
  /\ UNCHANGED <<proc, shutdown, loaded, pidfile, disk, success>>

(* kill -HUP `cat /var/run/gpilog.pid`, without the script. *)
Hup ==
  /\ pc = "idle" /\ "hup" \in Commands /\ PidAlive
  /\ cmd' = "hup" /\ child' = NoPid
  /\ HangUp
  /\ UNCHANGED <<proc, shutdown, loaded, pidfile, disk, pc, success, doubled>>

(* restart and reload run the binary again after `sleep 1'. *)
LaunchAgain ==
  /\ pc = "launch"
  /\ Launch
  /\ UNCHANGED <<restart, shutdown, loaded, wanted, pidfile, disk, cmd,
                 success, doubled>>

(* `sleep 1' is enough for a launched process to write its PID, or die.    *)
(* (The `sleep 1' that follows a kill may end before the process, which    *)
(* looks at its flags once a second, has seen it.)                         *)
Slept ==
  /\ pc = "sleep"
  /\ proc[child] \notin {"launched", "detached"}
  /\ pc' = "report"
  /\ UNCHANGED <<daemonVars, disk, cmd, child, success, doubled>>

(* A faulty variant: success is taken for granted. *)
OutcomeGood == TRUE

Outcome == IF cmd = "stop" THEN ~PidAlive ELSE PidAlive

(* What the script says in the end. *)
Report ==
  /\ pc = "report"
  /\ pc' = "idle"
  /\ success' = Outcome
  /\ UNCHANGED <<daemonVars, disk, cmd, child, doubled>>

ScriptStep ==
  Start \/ Stop \/ Restart \/ Reload \/ Hup \/ LaunchAgain \/ Slept \/ Report

Next ==
  \/ Edit
  \/ ScriptStep
  \/ \E p \in Procs : ProcessStep(p)

Spec == Init /\ [][Next]_vars

(* Every process is scheduled, and its restart timer keeps running. *)
FairSpec == Spec /\ \A p \in Procs : WF_vars(ProcessStep(p))

-----------------------------------------------------------------------------
(* Types. *)
TypeOK ==
  /\ proc \in [Procs -> {"dead", "launched", "detached", "running",
                         "restarting", "exiting"}]
  /\ restart \in [Procs -> BOOLEAN] /\ shutdown \in [Procs -> BOOLEAN]
  /\ loaded \in [Procs -> Versions] /\ wanted \in [Procs -> Versions]
  /\ \A p \in Procs : proc[p] = "running" => loaded[p] \notin Broken
  /\ pidfile \in Procs \cup {NoPid}
  /\ disk \in Versions
  /\ cmd \in Commands
  /\ pc \in {"idle", "launch", "sleep", "report"}
  /\ child \in Procs \cup {NoPid}
  /\ success \in BOOLEAN /\ doubled \in BOOLEAN

(* Two daemons at once would drive the same outputs.  (One that is past    *)
(* unlink() drives nothing any more, though its ports are free only once   *)
(* it has ended.)                                                          *)
AtMostOne == Cardinality({p \in Procs : Serves(p)}) <= 1

(* There is at most one daemon as long as `restart' and `reload' are kept  *)
(* for times when none runs: `start', with its tests of the PID file and   *)
(* of /proc, adds none, whatever configurations killed the earlier ones.   *)
OneDaemon == ~doubled => AtMostOne

(* Between two commands a process that serves is the one in the PID file,  *)
(* so that the next command can reach it; under the same proviso.          *)
PidFileFinds ==
  ~doubled /\ pc = "idle" => \A p \in Procs : Serves(p) => pidfile = p

(* When `stop' has reported success nothing serves; under the same         *)
(* proviso.                                                                *)
StopIsTrue ==
  ~doubled /\ pc = "idle" /\ cmd = "stop" /\ success
    => \A p \in Procs : ~Serves(p)

(* A process told to stop does, even when it is told to reload again and   *)
(* again: restartData() looks at `shutdown' first.                         *)
TermObeyed == \A p \in Procs : shutdown[p] ~> ~Alive(p)

(* A SIGHUP makes the daemon load the configuration that was on disk when  *)
(* it came, or a later one, unless it came while the daemon was restarting *)
(* already.                                                                *)
HupObeyed ==
  \A p \in Procs, v \in Versions :
    wanted[p] = v ~> loaded[p] >= v \/ ~Alive(p)
=============================================================================
