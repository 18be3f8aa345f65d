-------------------------------- MODULE Dial --------------------------------
(***************************************************************************)
(* The dialling of dial.cc on top of the modem: DialPPP forks a pppd, and  *)
(* SigHandler stops it before the process ends.  The signal interrupts the *)
(* dialling thread between two of its steps; while vfork suspends that     *)
(* thread it has to wait.                                                  *)
(*                                                                         *)
(*   pppid_     as the process sees it: the child of vfork shares it       *)
(*   dial       where DialPPP is                                           *)
(*   pppd[n]    the n-th child: "child" before execvp, "running", "zombie" *)
(*              until waitpid collects it, "reaped"                        *)
(*   handler    where SigHandler is                                        *)
(*   found      pppid_ when the handler began                              *)
(*   killed     the pids the handler sent SIGKILL to, with the state of    *)
(*              the process at that time                                   *)
(*   no_param   the mode for which the last DialPPP found no entry         *)
(***************************************************************************)
EXTENDS Modem

CONSTANT MaxDials     \* bound: calls of vfork

ASSUME MaxDialsAssumption == MaxDials \in Nat

VARIABLES pppid_, dial, pppd, handler, found, killed, no_param

dialVars == <<pppid_, dial, pppd, handler, found, killed, no_param>>
vars == <<modemVars, dialVars>>

\* The rows of the table are selected by operator and mode.
kDefaultDialParam ==
  {<<"TELCOM", "EVDO">>, <<"UNICOM", "WCDMA">>, <<"MOBILE", "TDSCDMA">>,
   <<"MOBILE", "TDLTE">>, <<"TELCOM", "FDDLTE">>, <<"UNICOM", "FDDLTE">>}

\* pppid_ has no initialiser.
DialInit ==
  /\ pppid_ \in {-1, 0}
  /\ dial = "idle" /\ pppd = <<>>
  /\ handler = "none" /\ found = 0 /\ killed = {} /\ no_param = "nothing"

Idle == handler = "none"

\* DialPPP up to vfork.
DialPPP_select ==
  /\ main = "true" /\ Idle /\ dial = "idle"
  /\ pppid_' = -1
  /\ IF <<sim_operator_, net_mode_>> \in kDefaultDialParam
     THEN dial' = "fork" /\ no_param' = "nothing"
     ELSE dial' = dial /\ no_param' = net_mode_
  /\ UNCHANGED <<modemVars, pppd, handler, found, killed>>

\* vfork: in the child it returns 0, stored where the parent reads it.
DialPPP_vfork ==
  /\ Idle /\ dial = "fork"
  /\ \/ /\ Len(pppd) < MaxDials
        /\ pppd' = Append(pppd, "child")
        /\ pppid_' = 0 /\ dial' = "vforked"
     \/ /\ pppid_' = -1 /\ dial' = "idle"
        /\ UNCHANGED pppd
  /\ UNCHANGED <<modemVars, handler, found, killed, no_param>>

\* execvp or abort, which let the parent go on.
DialPPP_execvp ==
  /\ dial = "vforked"
  /\ \E s \in {"running", "zombie"} : pppd' = [pppd EXCEPT ![Len(pppd)] = s]
  /\ dial' = "forked"
  /\ UNCHANGED <<modemVars, pppid_, handler, found, killed, no_param>>

DialPPP_return ==
  /\ Idle /\ dial = "forked"
  /\ pppid_' = Len(pppd) /\ dial' = "idle"
  /\ UNCHANGED <<modemVars, pppd, handler, found, killed, no_param>>

----------------------------------------------------------------------------
(* SigHandler with SigPPPExist.                                            *)

SigHandler ==
  /\ Idle /\ dial # "vforked"
  /\ handler' = "kill" /\ found' = pppid_
  /\ UNCHANGED <<modemVars, pppid_, dial, pppd, killed, no_param>>

\* Faulty variant of Killed: a signal that pppd may ignore.
KilledSoftly == pppd

Killed == [pppd EXCEPT ![pppid_] = IF @ = "running" THEN "zombie" ELSE @]

SigPPPExist_kill ==
  /\ handler = "kill"
  /\ IF pppid_ > 0
     THEN /\ pppd' = Killed
          /\ killed' = killed \cup {<<pppid_, pppd[pppid_]>>}
     ELSE UNCHANGED <<pppd, killed>>
  /\ handler' = "wait"
  /\ UNCHANGED <<modemVars, pppid_, dial, found, no_param>>

Children == {n \in DOMAIN pppd : pppd[n] # "reaped"}

\* Faulty variant of Waited: waitpid waits for any child.
WaitedAny == Children

Waited == IF pppid_ > 0 THEN Children \cap {pppid_} ELSE Children

\* Faulty variant of AfterWait: kill and wait until waitpid fails.
AfterWaitAgain == IF Waited = {} THEN "exit" ELSE "kill"

AfterWait == "exit"

\* waitpid: blocks while there is a child to wait for and none has ended.
SigPPPExist_waitpid ==
  /\ handler = "wait"
  /\ \/ /\ Waited = {}
        /\ pppid_' = -1 /\ UNCHANGED pppd
     \/ \E n \in Waited :
          /\ pppd[n] = "zombie"
          /\ pppd' = [pppd EXCEPT ![n] = "reaped"]
          /\ pppid_' = n
  /\ handler' = AfterWait
  /\ UNCHANGED <<modemVars, dial, found, killed, no_param>>

SigHandler_exit ==
  /\ handler = "exit"
  /\ handler' = "exited"
  /\ UNCHANGED <<modemVars, pppid_, dial, pppd, found, killed, no_param>>

\* pppd ends by itself.
PppdExits ==
  /\ \E n \in DOMAIN pppd : pppd[n] = "running" /\ pppd' = [pppd EXCEPT ![n] = "zombie"]
  /\ UNCHANGED <<modemVars, pppid_, dial, handler, found, killed, no_param>>

----------------------------------------------------------------------------

ModemStep ==
  \/ Init_checks \/ Init_register
  \/ ReaderOpen_open \/ ReaderOpen_configure \/ Initialize_install
  \/ WriteLine \/ (\E reply \in Models : MatchModem(reply)) \/ MatchNetMode

DialPPP == DialPPP_select \/ DialPPP_vfork \/ DialPPP_execvp \/ DialPPP_return

SigHandler_step == SigPPPExist_kill \/ SigPPPExist_waitpid \/ SigHandler_exit

Init == ModemInit /\ DialInit

\* exit ends every thread; the pppds go on.
Next ==
  \/ /\ handler # "exited"
     /\ \/ ModemStep /\ UNCHANGED dialVars
        \/ DialPPP \/ SigHandler \/ SigHandler_step
  \/ PppdExits

Spec == Init /\ [][Next]_vars

\* A handler that can go on does.  Nothing makes a pppd end.
FairSpec == Spec /\ WF_vars(SigHandler_step)

----------------------------------------------------------------------------
(* Properties.                                                             *)

TypeOK ==
  /\ host \in Hosts
  /\ main \in {"init", "sleep", "true", "false"}
  /\ loop \in {"idle", "queued", "open", "configure", "install", "done"}
  /\ interrupted \in BOOLEAN /\ opened \in BOOLEAN
  /\ modem_ \in {0} \cup Indices
  /\ read_fd_ \in {"NoFd", "Stray", "Device"}
  /\ installed \subseteq {"NoFd", "Stray", "Device"}
  /\ wrote \in {"nothing", "closed", "Stray", "Device"}
  /\ net_mode_ \in NetModes /\ no_param \in NetModes \cup {"nothing"}
  /\ dial \in {"idle", "fork", "vforked", "forked"}
  /\ pppd \in Seq({"child", "running", "zombie", "reaped"})
  /\ pppid_ \in -1 .. Len(pppd) /\ found \in -1 .. Len(pppd)
  /\ handler \in {"none", "kill", "wait", "exit", "exited"}
  /\ killed \subseteq (DOMAIN pppd) \X {"child", "running", "zombie", "reaped"}

\* The device is open exactly while read_fd_ is its descriptor, and the event
\* loop watches nothing but the open device: every failure in ReaderOpen
\* closes what it opened.
InstalledIsOpen ==
  /\ opened <=> read_fd_ = "Device"
  /\ installed \subseteq {d \in {"Device"} : opened}

\* A line goes to a descriptor that is not the device only when it is written
\* before the loop thread has begun to run Initialize: the usleep(500) of
\* Init is all that stands between the two.
StrayWritesAreEarly ==
  [][WriteLine /\ wrote' = "Stray" => loop = "queued"]_vars

\* SIGKILL is sent to a child that waitpid has not collected, never to a pid
\* that may be another process by then.
KillsOwnChild == \A k \in killed : k[2] # "reaped"

\* When the handler ends the process, the pppd it found in pppid_ has been
\* collected, whichever pppds of earlier calls are still there.
QuitReaps == handler = "exited" /\ found > 0 => pppd[found] = "reaped"

\* A handler that finds a pid in pppid_ ends the process, even if pppd never
\* ends by itself.  It finds none between vfork and the assignment of its
\* result, nor after a DialPPP that had no parameters: then it may wait for
\* ever.
QuitEnds == handler = "kill" /\ found > 0 ~> handler = "exited"

=============================================================================
