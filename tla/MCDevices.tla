------------------------------ MODULE MCDevices ------------------------------
(* Devices with small sets for TLC. *)
EXTENDS Devices

\* Keys with one code, with a prefix, and with a prefixed code that is also the one
\* of another key (Print Screen begins with E0 2A, Left Shift is 2A).
KeyCodes ==
  [LSHIFT |-> [press |-> <<"2A">>,       release |-> <<"AA">>],
   RCTRL  |-> [press |-> <<"E0", "1D">>, release |-> <<"E0", "9D">>],
   CAPSL  |-> [press |-> <<"3A">>,       release |-> <<"BA">>],
   A      |-> [press |-> <<"1E">>,       release |-> <<"9E">>],
   PRTSC  |-> [press |-> <<"E0", "2A">>, release |-> <<"E0", "AA">>]]

Plain   == ("1E" :> "a")
Shifted == ("1E" :> "A")

Boot ==
  {[codes |-> <<>>, pressed |-> {}],
   [codes |-> <<"1E", "E0", "1D">>, pressed |-> {"RCTRL"}]}

Flags == {{}, {"ONLY_ASCII"}, {"ONLY_LAST"}, {"ONLY_ASCII", "CLEAR_BUFFER"}}
Pushed == {<<CHAR("a"), NoKey, CHAR("A")>>}
SendTexts == {<<"x", "0", "x">>}

Symmetry == Permutations(Desc \ {Idle, Main})
=============================================================================
