------------------------------- MODULE Modem -------------------------------
(***************************************************************************)
(* The start-up of the modem (modem.cc): MobileApp::Start calls            *)
(* Modem::Init on the main thread, which looks for a modem and has the     *)
(* loop thread run ATChannel::Initialize while it goes on.                 *)
(*                                                                         *)
(*   host           what the machine shows: the serial driver modules,     *)
(*                  what lsusb lists, and the ttyUSB devices               *)
(*   main           where Modem::Init is, or what it returned              *)
(*   loop           where ATChannel::Initialize is on the loop thread      *)
(*   interrupted    ReaderOpen was called by a ReaderOpen that drops its   *)
(*                  result                                                 *)
(*   modem_         the index of the entry of kUSBModems, 0 before         *)
(*   read_fd_       NoFd, Device, or Stray: a descriptor of something else *)
(*   opened         the descriptor of the device is open                   *)
(*   installed      the descriptors the event loop watches                 *)
(*   wrote          where the last WriteLine went                          *)
(*   net_mode_      what the modem said of its network                     *)
(*                                                                         *)
(* errno_ of Modem is written and never read; it is left out.              *)
(***************************************************************************)
EXTENDS Integers, Sequences, FiniteSets

CONSTANTS
  kUSBModems,   \* sequence of [vendor_id_, product_id_, type, names, dbg_port_]:
                \* names are the model names that the one of the entry is part of
  Hosts,        \* set of [proc, modules, lsusb, ttys]
  Models        \* the model names a modem may reply

ASSUME ModemsAssumption == Len(kUSBModems) \in Nat

VARIABLES host, main, loop, interrupted, modem_, read_fd_, opened, installed,
          wrote, net_mode_

modemVars == <<host, main, loop, interrupted, modem_, read_fd_, opened,
               installed, wrote, net_mode_>>

Indices == 1 .. Len(kUSBModems)
NetModes == {"NONE", "CDMA1X", "GPRS", "EVDO", "WCDMA", "TDLTE", "FDDLTE", "TDSCDMA"}

\* The constructors leave read_fd_ and net_mode_ as they find them.
ModemInit ==
  /\ host \in Hosts
  /\ main = "init" /\ loop = "idle" /\ interrupted = FALSE
  /\ modem_ = 0
  /\ read_fd_ \in {"NoFd", "Stray"}
  /\ opened = FALSE /\ installed = {} /\ wrote = "nothing"
  /\ net_mode_ \in {"NONE", "EVDO"}

----------------------------------------------------------------------------
(* The three checks of Init.                                               *)

\* True for two modules of three, and for a file that cannot be read: -1.
CheckSerialMod(h) ==
  CASE h.proc = "missing" -> FALSE
    [] h.proc = "unreadable" -> TRUE
    [] h.proc = "readable" -> h.modules >= 2

CheckIdSupport(vendorId, productId) ==
  {i \in Indices : /\ kUSBModems[i].product_id_ = productId
                   /\ kUSBModems[i].vendor_id_ = vendorId}

\* The entries for the first listed device that has one.  Its vendor id is
\* passed for the product id as well.
CheckUsbDriver(h) ==
  LET found(k) == CheckIdSupport(h.lsusb[k].vendor, h.lsusb[k].vendor)
      hits == {k \in DOMAIN h.lsusb : found(k) # {}}
  IN IF hits = {} THEN {}
     ELSE found(CHOOSE k \in hits : \A l \in hits : k <= l)

FirstOf(S) == CHOOSE i \in S : \A j \in S : i <= j

CheckSerialPort(h, i) == kUSBModems[i].dbg_port_ \in h.ttys

\* Up to RunInLoop, which queues ATChannel::Initialize.
Init_checks ==
  /\ main = "init"
  /\ LET entries == CheckUsbDriver(host)
         usb == CheckSerialMod(host) /\ entries # {}
         ok == usb /\ CheckSerialPort(host, FirstOf(entries))
     IN /\ modem_' = IF usb THEN FirstOf(entries) ELSE modem_
        /\ main' = IF ok THEN "sleep" ELSE "false"
        /\ loop' = IF ok THEN "queued" ELSE loop
  /\ UNCHANGED <<host, interrupted, read_fd_, opened, installed, wrote, net_mode_>>

\* After usleep(500): the managers get their callbacks, and Init returns.
Init_register ==
  /\ main = "sleep"
  /\ main' = "true"
  /\ UNCHANGED <<host, loop, interrupted, modem_, read_fd_, opened, installed,
                 wrote, net_mode_>>

----------------------------------------------------------------------------
(* ATChannel::Initialize on the loop thread.                               *)

\* Faulty variant of FdAfterFailure: read_fd_ is set by a successful open only.
FdAfterFailureKept == read_fd_

\* open returned -1, and read_fd_ holds it.
FdAfterFailure == "NoFd"

\* The open of ReaderOpen.  An interrupted one is tried again by a call whose
\* result is dropped.
ReaderOpen_open ==
  /\ loop \in {"queued", "open"}
  /\ \/ /\ read_fd_' = "Device" /\ opened' = TRUE
        /\ loop' = "configure"
        /\ UNCHANGED interrupted
     \/ /\ read_fd_' = FdAfterFailure
        /\ \/ loop' = "open" /\ interrupted' = TRUE
           \/ loop' = "done" /\ UNCHANGED interrupted
        /\ UNCHANGED opened
  /\ UNCHANGED <<host, main, modem_, installed, wrote, net_mode_>>

\* Faulty variant of AfterConfigure: a failure leaves the descriptor open.
AfterConfigureOpen(ok) == [fd |-> IF ok THEN read_fd_ ELSE "NoFd", open |-> opened]

\* SetSerialBaud and SetSerialRawMode: a failure of either closes the device.
AfterConfigure(ok) == [fd |-> IF ok THEN read_fd_ ELSE "NoFd", open |-> ok]

ReaderOpen_configure ==
  /\ loop = "configure"
  /\ \E ok \in BOOLEAN :
       /\ read_fd_' = AfterConfigure(ok).fd
       /\ opened' = AfterConfigure(ok).open
       /\ loop' = IF ok /\ ~interrupted THEN "install" ELSE "done"
  /\ UNCHANGED <<host, main, interrupted, modem_, installed, wrote, net_mode_>>

\* install_at_handler_: UpdateEvent on the loop.
Initialize_install ==
  /\ loop = "install"
  /\ installed' = installed \cup {read_fd_}
  /\ loop' = "done"
  /\ UNCHANGED <<host, main, interrupted, modem_, read_fd_, opened, wrote, net_mode_>>

----------------------------------------------------------------------------
(* What the users of the managers call once Init has registered them.      *)

\* WriteLine: an open descriptor is not the same as the one of the device.
WriteLine ==
  /\ main = "true"
  /\ wrote' = IF read_fd_ = "NoFd" THEN "closed" ELSE read_fd_
  /\ UNCHANGED <<host, main, loop, interrupted, modem_, read_fd_, opened,
                 installed, net_mode_>>

\* The first entry with the ids of modem_ whose name is in the reply.
MatchModem(reply) ==
  LET match == {i \in Indices : /\ reply \in kUSBModems[i].names
                                /\ kUSBModems[i].product_id_ = kUSBModems[modem_].product_id_
                                /\ kUSBModems[i].vendor_id_ = kUSBModems[modem_].vendor_id_}
  IN /\ main = "true"
     /\ modem_' = IF match = {} THEN modem_ ELSE FirstOf(match)
     /\ UNCHANGED <<host, main, loop, interrupted, read_fd_, opened, installed,
                    wrote, net_mode_>>

\* Nothing assigns sim_operator_, and kUSBModems is static: it is 0.
sim_operator_ == "MOBILE"

\* The rows of kModeMath that strstr and sim_operator_ let through, by name.
kModeMath ==
  [name \in {"NONE", "LTE FDD", "LTE TDD", "UMTS", "HSUPA", "HSDPA", "EVDO",
             "TDSCDMA", "GPRS", "EDGE", "WCDMA"} |->
     CASE name = "LTE TDD" /\ sim_operator_ = "MOBILE" -> "TDLTE"
       [] name = "LTE FDD" /\ sim_operator_ \in {"UNICOM", "TELCOM"} -> "FDDLTE"
       [] name \in {"UMTS", "HSDPA", "TDSCDMA"} /\ sim_operator_ = "MOBILE" -> "TDSCDMA"
       [] name \in {"UMTS", "HSUPA", "WCDMA"} /\ sim_operator_ = "UNICOM" -> "WCDMA"
       [] name = "EVDO" /\ sim_operator_ = "TELCOM" -> "EVDO"
       [] name \in {"GPRS", "EDGE"} -> "GPRS"
       [] OTHER -> "NONE"]

\* Faulty variant of HuaweiMode: a mode that nothing else knows.
HuaweiModeOther(n) == IF n = 3 THEN "GSWCDMA" ELSE net_mode_

\* tmp[4] of the reply of a Huawei modem.
HuaweiMode(n) ==
  CASE n = 1 -> "GPRS"
    [] n = 3 -> "WCDMA"
    [] n = 4 -> "TDSCDMA"
    [] n = 6 -> IF sim_operator_ = "MOBILE" THEN "TDLTE" ELSE "FDDLTE"
    [] OTHER -> net_mode_

MatchNetMode ==
  /\ main = "true"
  /\ \/ /\ kUSBModems[modem_].type = "HUAWEI"
        /\ \E n \in {0, 1, 3, 4, 6} : net_mode_' = HuaweiMode(n)
     \/ /\ kUSBModems[modem_].type # "HUAWEI"
        /\ \E name \in DOMAIN kModeMath : net_mode_' = kModeMath[name]
  /\ UNCHANGED <<host, main, loop, interrupted, modem_, read_fd_, opened,
                 installed, wrote>>

=============================================================================
