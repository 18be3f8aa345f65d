------------------------------- MODULE MCDial -------------------------------
(***************************************************************************)
(* Module Dial on a table of modems with ids of identify.h.                *)
(***************************************************************************)
EXTENDS Dial

LONGCHEER == 7326   \* 0x1c9e
HUAWEI == 4817      \* 0x12d1
U8300 == 39685      \* 0x9b05, also of U8300W and U8300C
C7500 == 7326       \* 0x1c9e
ME909u == 5491      \* 0x1573

Entry(v, p, t, n, d) ==
  [vendor_id_ |-> v, product_id_ |-> p, type |-> t, names |-> n, dbg_port_ |-> d]

\* Two entries of kUSBModems, which CheckUsbDriver never finds, and entries
\* whose product id is the vendor id, which it does: the C7500 of identify.h,
\* with a second name and port as the U8300 has them, and one for Huawei.
MCModems ==
  <<Entry(LONGCHEER, U8300, "LONGSUNG", {"U8300", "U8300C"}, 2),
    Entry(HUAWEI, ME909u, "HUAWEI", {"ME909u_521"}, 1),
    Entry(LONGCHEER, C7500, "LONGSUNG", {"C7500"}, 2),
    Entry(LONGCHEER, C7500, "LONGSUNG", {"U8300C"}, 3),
    Entry(HUAWEI, HUAWEI, "HUAWEI", {"ME909u_521"}, 1)>>

MCModels == {"U8300", "U8300C", "C7500", "ME909u_521"}

Usb(v, p) == [vendor |-> v, product |-> p]

\* A hub that is no modem comes first.
MCHosts ==
  [proc : {"missing", "unreadable", "readable"}, modules : {1, 2},
   lsusb : {<<>>, <<Usb(7531, 2), Usb(LONGCHEER, U8300)>>, <<Usb(HUAWEI, ME909u)>>},
   ttys : {{}, {0, 1, 2, 3}}]

=============================================================================
