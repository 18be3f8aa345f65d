----------------------------- MODULE MCATCommand -----------------------------
(* Instances of ATCommand for TLC. *)
EXTENDS ATCommand

(* A lock state, flags, and lines with the tokens of an APN, complete or cut. *)
MCLines == {<<"READY">>, <<"SIM PUK">>, <<"PH-FSIM PIN">>, <<"0">>, <<"1">>,
            <<"1", "IP", "apn", "0.0.0.0">>, <<"2", "IP">>}

(* The lines that tell the tests of the failing operations apart. *)
MCFewLines == {<<"0">>, <<"1">>}
=============================================================================
