----------------------------- MODULE MCSmsText -----------------------------
(***************************************************************************)
(* Module SmsText with a few rows of kUnicodeGB2312Table: the first, rows  *)
(* around the one that is there twice, and the last.                       *)
(***************************************************************************)
EXTENDS SmsText

MCTable ==
  [n \in 0 .. 5 |->
     <<<<164, 41448>>, <<20013, 54992>>, <<40864, 64922>>,
       <<40869, 64923>>, <<40869, 64923>>, <<65509, 41892>>>>[n + 1]]

\* $, @, A, [, a control character, and GB characters of some rows.
MCCodes == {2, 36, 64, 65, 91, 41448, 54992, 64923, 41892, 50000}
MCTexts == UNION {[1 .. n -> MCCodes] : n \in 0 .. 2}
MCPhones == UNION {[1 .. n -> {"1", "2"}] : n \in 0 .. 3}

=============================================================================
