----------------------------- MODULE DialProofs -----------------------------
(***************************************************************************)
(* Proofs about module Dial, for every table of modems, every host and any *)
(* number of calls of DialPPP.                                             *)
(***************************************************************************)
EXTENDS Dial, WellFoundedInduction, TLAPS

\* Where Initialize is tells what read_fd_ holds.
ModemInv ==
  /\ main = "init" => loop = "idle"
  /\ main \in {"sleep", "true"} => loop # "idle"
  /\ loop \notin {"idle", "queued"} => read_fd_ # "Stray"
  /\ loop \in {"idle", "queued", "open"} => ~opened /\ read_fd_ # "Device"
  /\ loop \in {"configure", "install"} => opened /\ read_fd_ = "Device"
  /\ loop # "done" => installed = {}
  /\ InstalledIsOpen

\* waitpid is called once, at the end, for the pid the handler found.
DialInv ==
  /\ dial = "vforked" => handler = "none" /\ Len(pppd) > 0
  /\ dial = "forked" => Len(pppd) > 0
  /\ handler \in {"kill", "wait"} => pppid_ = found
  /\ handler \in {"none", "kill", "wait"} => \A n \in DOMAIN pppd : pppd[n] # "reaped"
  /\ handler \in {"exit", "exited"} /\ found > 0 => pppd[found] = "reaped"
  /\ KillsOwnChild

ChildStates == {"child", "running", "zombie", "reaped"}

\* The types of the variables of dial.cc.
DialTypes ==
  /\ no_param \in NetModes \cup {"nothing"}
  /\ dial \in {"idle", "fork", "vforked", "forked"}
  /\ pppd \in Seq(ChildStates)
  /\ pppid_ \in -1 .. Len(pppd) /\ found \in -1 .. Len(pppd)
  /\ handler \in {"none", "kill", "wait", "exit", "exited"}
  /\ killed \subseteq (DOMAIN pppd) \X ChildStates

\* The types of the variables of modem.cc.
ModemTypes ==
  /\ host \in Hosts
  /\ main \in {"init", "sleep", "true", "false"}
  /\ loop \in {"idle", "queued", "open", "configure", "install", "done"}
  /\ interrupted \in BOOLEAN /\ opened \in BOOLEAN
  /\ modem_ \in {0} \cup Indices
  /\ read_fd_ \in {"NoFd", "Stray", "Device"}
  /\ installed \subseteq {"NoFd", "Stray", "Device"}
  /\ wrote \in {"nothing", "closed", "Stray", "Device"}
  /\ net_mode_ \in NetModes

Inv == ModemTypes /\ DialTypes /\ ModemInv /\ DialInv

----------------------------------------------------------------------------
(* The modem.                                                              *)

\* FirstOf picks a member.
LEMMA FirstOfMember ==
  ASSUME NEW S, S \subseteq Indices, S # {}
  PROVE  FirstOf(S) \in S
<1> DEFINE R == OpToRel(<, Nat)
<1>1. S \subseteq Nat
  BY ModemsAssumption DEF Indices
<1>2. IsWellFoundedOn(R, Nat)
  BY NatLessThanWellFounded
<1> HIDE DEF R
<1>3. PICK x \in S : \A y \in S : ~ (<<y, x>> \in R)
  BY Zenon, <1>1, <1>2, WFMin
<1>4. \A y \in S : ~ (y < x)
  BY Zenon, <1>1, <1>3 DEF R, OpToRel
<1>5. \A y \in S : x <= y
  BY <1>1, <1>4
<1> QED
  BY <1>3, <1>5 DEF FirstOf

\* What CheckUsbDriver finds are entries of the table.
LEMMA UsbEntries ==
  ASSUME NEW h
  PROVE  CheckUsbDriver(h) \subseteq Indices
<1>1. \A v, p : CheckIdSupport(v, p) \subseteq Indices
  BY DEF CheckIdSupport
<1> QED
  BY <1>1 DEF CheckUsbDriver

\* Modem::Init.
LEMMA InitChecksInv ==
  ASSUME ModemTypes, ModemInv, Init_checks \/ Init_register
  PROVE  ModemTypes' /\ ModemInv'
<1>1. CASE Init_checks
  <2>1. modem_' \in {0} \cup Indices
    <3> DEFINE entries == CheckUsbDriver(host)
    <3>1. entries \subseteq Indices
      BY UsbEntries
    <3>2. modem_' = modem_ \/ (entries # {} /\ modem_' = FirstOf(entries))
      BY <1>1 DEF Init_checks
    <3> HIDE DEF entries
    <3>3. entries # {} => FirstOf(entries) \in Indices
      BY <3>1, FirstOfMember
    <3> QED
      BY <3>2, <3>3 DEF ModemTypes
  <2>2. /\ main = "init" /\ \/ main' = "sleep" /\ loop' = "queued"
                            \/ main' = "false" /\ loop' = loop
        /\ UNCHANGED <<host, interrupted, read_fd_, opened, installed, wrote, net_mode_>>
    BY <1>1 DEF Init_checks
  <2> QED
    BY <2>1, <2>2 DEF ModemTypes, ModemInv, InstalledIsOpen
<1>2. CASE Init_register
  BY <1>2 DEF Init_register, ModemTypes, ModemInv, InstalledIsOpen
<1> QED
  BY <1>1, <1>2

\* ATChannel::Initialize.
LEMMA InitializeInv ==
  ASSUME ModemTypes, ModemInv,
         ReaderOpen_open \/ ReaderOpen_configure \/ Initialize_install
  PROVE  ModemTypes' /\ ModemInv'
<1>1. CASE ReaderOpen_open
  <2>1. loop \in {"queued", "open"} /\ ~opened /\ installed = {} /\ main # "init"
    BY <1>1 DEF ReaderOpen_open, ModemInv
  <2>2. UNCHANGED <<host, main, modem_, installed, wrote, net_mode_>>
    BY <1>1 DEF ReaderOpen_open
  <2>3. \/ read_fd_' = "Device" /\ opened' = TRUE /\ loop' = "configure" /\ UNCHANGED interrupted
        \/ /\ read_fd_' = "NoFd" /\ loop' \in {"open", "done"}
           /\ interrupted' \in {TRUE, interrupted} /\ UNCHANGED opened
    BY Zenon, <1>1 DEF ReaderOpen_open, FdAfterFailure
  <2>4. ModemTypes'
    <3>1. interrupted' \in BOOLEAN /\ opened' \in BOOLEAN
      BY <2>3, Zenon DEF ModemTypes
    <3>2. /\ loop' \in {"idle", "queued", "open", "configure", "install", "done"}
          /\ read_fd_' \in {"NoFd", "Stray", "Device"}
      BY Zenon, <2>3
    <3> QED
      BY <2>2, <3>1, <3>2 DEF ModemTypes
  <2>5. CASE read_fd_' = "Device" /\ opened' = TRUE /\ loop' = "configure"
    BY <2>1, <2>2, <2>4, <2>5 DEF ModemInv, InstalledIsOpen
  <2>6. CASE read_fd_' = "NoFd" /\ loop' \in {"open", "done"} /\ UNCHANGED opened
    <3>1. ~opened'
      BY <2>1, <2>6, Zenon
    <3>2. InstalledIsOpen'
      BY <2>1, <2>2, <2>6, <3>1 DEF InstalledIsOpen
    <3> QED
      BY <2>1, <2>2, <2>4, <2>6, <3>1, <3>2 DEF ModemInv
  <2> QED
    BY Zenon, <2>3, <2>5, <2>6
<1>2. CASE ReaderOpen_configure
  <2>1. PICK ok \in BOOLEAN :
          /\ read_fd_' = IF ok THEN read_fd_ ELSE "NoFd"
          /\ opened' = ok
          /\ loop' = IF ok /\ ~interrupted THEN "install" ELSE "done"
    BY <1>2 DEF ReaderOpen_configure, AfterConfigure
  <2>2. loop = "configure"
        /\ UNCHANGED <<host, main, interrupted, modem_, installed, wrote, net_mode_>>
    BY <1>2 DEF ReaderOpen_configure
  <2> QED
    BY <2>1, <2>2 DEF ModemTypes, ModemInv, InstalledIsOpen
<1>3. CASE Initialize_install
  BY <1>3 DEF Initialize_install, ModemTypes, ModemInv, InstalledIsOpen
<1> QED
  BY <1>1, <1>2, <1>3

\* What is called on the managers.
LEMMA ManagerInv ==
  ASSUME ModemTypes, ModemInv,
         WriteLine \/ (\E reply \in Models : MatchModem(reply)) \/ MatchNetMode
  PROVE  ModemTypes' /\ ModemInv'
<1>1. CASE WriteLine
  BY <1>1 DEF WriteLine, ModemTypes, ModemInv, InstalledIsOpen
<1>2. CASE \E reply \in Models : MatchModem(reply)
  <2>1. PICK reply \in Models : MatchModem(reply)
    BY <1>2
  <2>2. modem_' \in {0} \cup Indices
    <3> DEFINE match == {i \in Indices :
                 /\ reply \in kUSBModems[i].names
                 /\ kUSBModems[i].product_id_ = kUSBModems[modem_].product_id_
                 /\ kUSBModems[i].vendor_id_ = kUSBModems[modem_].vendor_id_}
    <3>1. match \subseteq Indices
      OBVIOUS
    <3>2. modem_' = IF match = {} THEN modem_ ELSE FirstOf(match)
      BY <2>1 DEF MatchModem
    <3> HIDE DEF match
    <3>3. match # {} => FirstOf(match) \in Indices
      BY <3>1, FirstOfMember
    <3> QED
      BY <3>2, <3>3 DEF ModemTypes
  <2>3. UNCHANGED <<host, main, loop, interrupted, read_fd_, opened, installed,
                    wrote, net_mode_>>
    BY <2>1 DEF MatchModem
  <2> QED
    BY <2>2, <2>3 DEF ModemTypes, ModemInv, InstalledIsOpen
<1>3. CASE MatchNetMode
  <2>1. net_mode_' \in NetModes
    <3>1. \A n : HuaweiMode(n) \in NetModes
      BY DEF HuaweiMode, ModemTypes, NetModes
    <3>2. \A name \in DOMAIN kModeMath : kModeMath[name] \in NetModes
      BY DEF kModeMath, NetModes, sim_operator_
    <3> QED
      BY <1>3, <3>1, <3>2 DEF MatchNetMode
  <2>2. UNCHANGED <<host, main, loop, interrupted, modem_, read_fd_, opened,
                    installed, wrote>>
    BY <1>3 DEF MatchNetMode
  <2> QED
    BY <2>1, <2>2 DEF ModemTypes, ModemInv, InstalledIsOpen
<1> QED
  BY <1>1, <1>2, <1>3

----------------------------------------------------------------------------
(* Dialling.                                                               *)

\* DialPPP, while no handler runs.
LEMMA DialPPPInv ==
  ASSUME Inv, DialPPP
  PROVE  DialTypes' /\ DialInv'
<1>1. CASE DialPPP_select
  BY <1>1 DEF DialPPP_select, Idle, Inv, ModemTypes, DialTypes, DialInv, KillsOwnChild
<1>2. CASE DialPPP_vfork
  <2>1. CASE /\ pppd' = Append(pppd, "child") /\ pppid_' = 0 /\ dial' = "vforked"
    <3>1. pppd' \in Seq(ChildStates) /\ Len(pppd') = Len(pppd) + 1 /\ Len(pppd) \in Nat
          /\ DOMAIN pppd \subseteq DOMAIN pppd'
      BY <2>1 DEF Inv, DialTypes, ChildStates
    <3>2. handler = "none" /\ UNCHANGED <<handler, found, killed, no_param>>
      BY <1>2 DEF DialPPP_vfork, Idle
    <3>3. \A n \in DOMAIN pppd' : pppd'[n] # "reaped"
      <4> SUFFICES ASSUME NEW n \in DOMAIN pppd' PROVE pppd'[n] # "reaped"
        OBVIOUS
      <4>1. CASE n = Len(pppd) + 1
        BY <2>1, <4>1 DEF Inv, DialTypes
      <4>2. CASE n \in DOMAIN pppd
        BY <2>1, <3>2, <4>2 DEF Inv, DialTypes, DialInv
      <4> QED
        BY <3>1, <4>1, <4>2 DEF Inv, DialTypes
    <3>4. DialTypes'
      BY <2>1, <3>1, <3>2 DEF Inv, DialTypes
    <3>5. DialInv'
      BY <2>1, <3>1, <3>2, <3>3 DEF Inv, DialInv, KillsOwnChild
    <3> QED
      BY <3>4, <3>5
  <2>2. CASE pppid_' = -1 /\ dial' = "idle" /\ UNCHANGED pppd
    BY <1>2, <2>2 DEF DialPPP_vfork, Idle, Inv, DialTypes, DialInv, KillsOwnChild
  <2> QED
    BY <1>2, <2>1, <2>2 DEF DialPPP_vfork
<1>3. CASE DialPPP_execvp
  <2>1. PICK s \in {"running", "zombie"} : pppd' = [pppd EXCEPT ![Len(pppd)] = s]
    BY Zenon, <1>3 DEF DialPPP_execvp
  <2>2. /\ dial = "vforked" /\ dial' = "forked" /\ handler = "none"
        /\ UNCHANGED <<pppid_, handler, found, killed, no_param>>
    BY <1>3 DEF DialPPP_execvp, Inv, DialInv
  <2>3. /\ pppd' \in Seq(ChildStates) /\ Len(pppd') = Len(pppd)
        /\ DOMAIN pppd' = DOMAIN pppd /\ Len(pppd) > 0
    BY <2>1, <2>2 DEF Inv, DialTypes, DialInv, ChildStates
  <2>4. \A n \in DOMAIN pppd' : pppd'[n] # "reaped"
    BY <2>1, <2>2, <2>3 DEF Inv, DialTypes, DialInv
  <2> QED
    BY <2>2, <2>3, <2>4 DEF Inv, DialTypes, DialInv, KillsOwnChild
<1>4. CASE DialPPP_return
  <2>1. Len(pppd) \in Nat
    BY DEF Inv, DialTypes
  <2> QED
    BY <1>4, <2>1 DEF DialPPP_return, Idle, Inv, DialTypes, DialInv, KillsOwnChild
<1> QED
  BY <1>1, <1>2, <1>3, <1>4 DEF DialPPP

\* SigHandler, begun.
LEMMA SigHandlerInv ==
  ASSUME Inv, SigHandler
  PROVE  DialTypes' /\ DialInv'
BY DEF SigHandler, Idle, Inv, DialTypes, DialInv, KillsOwnChild

\* A child other than a collected one is collected in no step but waitpid.
LEMMA NotReaped ==
  ASSUME DialTypes, NEW n \in DOMAIN pppd, NEW s \in ChildStates,
         pppd' = [pppd EXCEPT ![n] = s]
  PROVE  /\ pppd' \in Seq(ChildStates) /\ Len(pppd') = Len(pppd)
         /\ DOMAIN pppd' = DOMAIN pppd
         /\ pppd'[n] = s /\ \A k \in DOMAIN pppd : k # n => pppd'[k] = pppd[k]
BY DEF DialTypes

\* SigHandler, going on.
LEMMA HandlerStepInv ==
  ASSUME Inv, SigHandler_step
  PROVE  DialTypes' /\ DialInv'
<1>1. CASE SigPPPExist_kill
  <2>1. /\ handler = "kill" /\ handler' = "wait" /\ pppid_ = found /\ dial # "vforked"
        /\ UNCHANGED <<pppid_, dial, found, no_param>>
    BY <1>1 DEF SigPPPExist_kill, Inv, DialInv
  <2>2. CASE pppid_ > 0
    <3>1. pppid_ \in DOMAIN pppd
      BY <2>2 DEF Inv, DialTypes
    <3>2. pppd[pppid_] \in ChildStates /\ pppd[pppid_] # "reaped"
      BY <2>1, <3>1 DEF Inv, DialTypes, DialInv
    <3>3. PICK s \in ChildStates : s # "reaped" /\ pppd' = [pppd EXCEPT ![pppid_] = s]
      BY <1>1, <2>2, <3>1, <3>2 DEF SigPPPExist_kill, Killed, ChildStates
    <3>4. /\ pppd' \in Seq(ChildStates) /\ Len(pppd') = Len(pppd)
          /\ DOMAIN pppd' = DOMAIN pppd
          /\ pppd'[pppid_] = s
          /\ \A k \in DOMAIN pppd : k # pppid_ => pppd'[k] = pppd[k]
      BY Zenon, <3>1, <3>3, NotReaped DEF Inv
    <3>5. killed' = killed \cup {<<pppid_, pppd[pppid_]>>}
      BY <1>1, <2>2 DEF SigPPPExist_kill
    <3>6. \A n \in DOMAIN pppd' : pppd'[n] # "reaped"
      BY <2>1, <3>3, <3>4 DEF Inv, DialInv
    <3>7. killed' \subseteq (DOMAIN pppd') \X ChildStates
      BY <3>1, <3>2, <3>4, <3>5 DEF Inv, DialTypes
    <3>8. KillsOwnChild'
      BY <3>2, <3>5 DEF KillsOwnChild, Inv, DialInv
    <3>9. DialTypes'
      BY <2>1, <3>4, <3>7 DEF Inv, DialTypes
    <3>10. DialInv'
      BY <2>1, <3>4, <3>6, <3>8 DEF Inv, DialInv
    <3> QED
      BY <3>9, <3>10
  <2>3. CASE ~ (pppid_ > 0)
    BY <1>1, <2>1, <2>3 DEF SigPPPExist_kill, Inv, DialTypes, DialInv, KillsOwnChild
  <2> QED
    BY <2>2, <2>3
<1>2. CASE SigPPPExist_waitpid
  <2>1. /\ handler = "wait" /\ handler' = "exit" /\ pppid_ = found /\ dial # "vforked"
        /\ UNCHANGED <<dial, found, killed, no_param>>
    BY <1>2 DEF SigPPPExist_waitpid, AfterWait, Inv, DialInv
  <2>2. found > 0 => Waited = {found} /\ found \in DOMAIN pppd
    BY <2>1 DEF Waited, Children, Inv, DialTypes, DialInv
  <2>3. CASE Waited = {} /\ pppid_' = -1 /\ UNCHANGED pppd
    <3>1. ~ (found > 0)
      BY <2>2, <2>3
    <3> QED
      BY <2>1, <2>3, <3>1 DEF Inv, DialTypes, DialInv, KillsOwnChild
  <2>4. CASE \E n \in Waited : /\ pppd' = [pppd EXCEPT ![n] = "reaped"]
                               /\ pppid_' = n
    <3>1. PICK n \in Waited : pppd' = [pppd EXCEPT ![n] = "reaped"] /\ pppid_' = n
      BY Zenon, <2>4
    <3>2. n \in DOMAIN pppd /\ n \in 1 .. Len(pppd)
      BY DEF Waited, Children, Inv, DialTypes
    <3>3. "reaped" \in ChildStates
      BY DEF ChildStates
    <3>4. /\ pppd' \in Seq(ChildStates) /\ Len(pppd') = Len(pppd)
          /\ DOMAIN pppd' = DOMAIN pppd /\ pppd'[n] = "reaped"
      BY Zenon, <3>1, <3>2, <3>3, NotReaped DEF Inv
    <3>5. found > 0 => pppd'[found] = "reaped"
      BY <2>2, <3>4
    <3>6. DialTypes'
      BY <2>1, <3>1, <3>2, <3>4 DEF Inv, DialTypes
    <3>7. DialInv'
      BY <2>1, <3>4, <3>5 DEF Inv, DialInv, KillsOwnChild
    <3> QED
      BY <3>6, <3>7
  <2> QED
    BY <1>2, <2>3, <2>4 DEF SigPPPExist_waitpid
<1>3. CASE SigHandler_exit
  BY <1>3 DEF SigHandler_exit, Inv, DialTypes, DialInv, KillsOwnChild
<1> QED
  BY <1>1, <1>2, <1>3 DEF SigHandler_step

\* A pppd that ends by itself.
LEMMA PppdExitsInv ==
  ASSUME Inv, PppdExits
  PROVE  DialTypes' /\ DialInv'
<1>1. PICK n \in DOMAIN pppd : pppd[n] = "running" /\ pppd' = [pppd EXCEPT ![n] = "zombie"]
  BY Zenon DEF PppdExits
<1>2. "zombie" \in ChildStates
  BY DEF ChildStates
<1>3. /\ pppd' \in Seq(ChildStates) /\ Len(pppd') = Len(pppd)
      /\ DOMAIN pppd' = DOMAIN pppd /\ pppd'[n] = "zombie"
      /\ \A k \in DOMAIN pppd : k # n => pppd'[k] = pppd[k]
  BY Zenon, <1>1, <1>2, NotReaped DEF Inv
<1>4. UNCHANGED <<pppid_, dial, handler, found, killed, no_param>>
  BY DEF PppdExits
<1>5. \A k \in DOMAIN pppd : pppd'[k] = "reaped" <=> pppd[k] = "reaped"
  BY <1>1, <1>3
<1>6. found > 0 => found \in DOMAIN pppd
  BY DEF Inv, DialTypes
<1>7. DialTypes'
  BY <1>3, <1>4 DEF Inv, DialTypes
<1>8. DialInv'
  BY <1>3, <1>4, <1>5, <1>6 DEF Inv, DialInv, KillsOwnChild
<1> QED
  BY <1>7, <1>8

----------------------------------------------------------------------------
(* The theorems.                                                           *)

\* The state the constructors leave.
LEMMA InitInv == Init => Inv
<1> SUFFICES ASSUME Init PROVE Inv
  OBVIOUS
<1>1. ModemTypes /\ ModemInv
  BY Zenon DEF Init, ModemInit, ModemTypes, ModemInv, InstalledIsOpen, NetModes
<1>2. DialTypes /\ DialInv
  BY DEF Init, DialInit, DialTypes, DialInv, KillsOwnChild
<1> QED
  BY <1>1, <1>2 DEF Inv

\* Every step keeps the invariant.
LEMMA NextInv == Inv /\ [Next]_vars => Inv'
<1> SUFFICES ASSUME Inv, [Next]_vars PROVE Inv'
  OBVIOUS
<1>1. CASE ModemStep /\ UNCHANGED dialVars
  <2>1. ModemTypes' /\ ModemInv'
    BY <1>1, InitChecksInv, InitializeInv, ManagerInv DEF ModemStep, Inv
  <2>2. DialTypes' /\ DialInv'
    BY <1>1 DEF dialVars, Inv, DialTypes, DialInv, KillsOwnChild
  <2> QED
    BY <2>1, <2>2 DEF Inv
<1>2. CASE DialPPP \/ SigHandler \/ SigHandler_step \/ PppdExits
  <2>1. UNCHANGED modemVars
    BY <1>2 DEF DialPPP, DialPPP_select, DialPPP_vfork, DialPPP_execvp, DialPPP_return,
                SigHandler, SigHandler_step, SigPPPExist_kill, SigPPPExist_waitpid,
                SigHandler_exit, PppdExits
  <2>2. ModemTypes' /\ ModemInv'
    BY <2>1 DEF modemVars, Inv, ModemTypes, ModemInv, InstalledIsOpen
  <2>3. DialTypes' /\ DialInv'
    BY <1>2, DialPPPInv, SigHandlerInv, HandlerStepInv, PppdExitsInv
  <2> QED
    BY <2>2, <2>3 DEF Inv
<1>3. CASE UNCHANGED vars
  <2>1. ModemTypes' /\ ModemInv'
    BY <1>3 DEF vars, modemVars, Inv, ModemTypes, ModemInv, InstalledIsOpen
  <2>2. DialTypes' /\ DialInv'
    BY <1>3 DEF vars, dialVars, Inv, DialTypes, DialInv, KillsOwnChild
  <2> QED
    BY <2>1, <2>2 DEF Inv
<1> QED
  BY <1>1, <1>2, <1>3 DEF Next

\* The variables of the start-up and of dialling keep their types, the mode
\* MatchNetMode takes from a reply among them.
THEOREM DialTypeCorrect == Spec => []TypeOK
<1>1. Inv => TypeOK
  BY DEF Inv, ModemTypes, DialTypes, ChildStates, TypeOK
<1> QED
  BY <1>1, InitInv, NextInv, PTL DEF Spec

\* ReaderOpen: the event loop watches the open device or nothing.
THEOREM OpenCorrect == Spec => []InstalledIsOpen
<1>1. Inv => InstalledIsOpen
  BY DEF Inv, ModemInv
<1> QED
  BY <1>1, InitInv, NextInv, PTL DEF Spec

\* WriteLine: from the moment Initialize has called open, no line goes to a
\* descriptor that was never the device's.
THEOREM StrayCorrect == Spec => StrayWritesAreEarly
<1>1. Inv => [WriteLine /\ wrote' = "Stray" => loop = "queued"]_vars
  BY DEF WriteLine, Inv, ModemTypes, ModemInv
<1> QED
  BY <1>1, InitInv, NextInv, PTL DEF Spec, StrayWritesAreEarly

\* SigHandler sends SIGKILL only to a pppd that is not collected yet.
THEOREM KillCorrect == Spec => []KillsOwnChild
<1>1. Inv => KillsOwnChild
  BY DEF Inv, DialInv
<1> QED
  BY <1>1, InitInv, NextInv, PTL DEF Spec

\* SigHandler collects the pppd it has found before the process ends.
THEOREM QuitCorrect == Spec => []QuitReaps
<1>1. Inv => QuitReaps
  BY DEF Inv, DialInv, QuitReaps
<1> QED
  BY <1>1, InitInv, NextInv, PTL DEF Spec

=============================================================================
