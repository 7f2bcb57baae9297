--------------------------- MODULE MC_AlsaClient ---------------------------
(***************************************************************************)
(* Constants of AlsaClient for TLC.                                        *)
(*   Thru: client 14 "t x", port 0 "in", read and write (Midi Through).    *)
(*   Synth: client 20 "kb", port 0 "in", write only: a port with the same  *)
(*          name as Thru that cannot send.                                 *)
(* Our client is 128 "a" with the port "in".  The designations:           *)
(*   ""      no connection wanted;                                         *)
(*   "in"    by port name (Thru; Synth and our port carry the name too);   *)
(*   "14:0"  by numbers (Thru);                                            *)
(*   "a:in"  our own port, which match must refuse.                        *)
(***************************************************************************)
EXTENDS AlsaClient

MCThru == [client |-> 14, port |-> 0, clientName |-> <<"t", " ", "x">>,
           portName |-> <<"i", "n">>, caps |-> CapFlags]
MCSynth == [client |-> 20, port |-> 0, clientName |-> <<"k", "b">>,
            portName |-> <<"i", "n">>, caps |-> {"WRITE", "SUBS_WRITE"}]
MCPorts == {MCThru, MCSynth}
\* A keyboard, client 24 "kbd", port 0 "out": a second sender.
MCKeys == [client |-> 24, port |-> 0, clientName |-> <<"k", "b", "d">>,
           portName |-> <<"o", "u", "t">>, caps |-> {"READ", "SUBS_READ"}]
MCPortsWithKeys == MCPorts \cup {MCKeys}
\* No designation, "14:0" and "24:0" (the thru port and the keyboard by number).
MCSenderNumbers == {<<>>, <<"1", "4", ":", "0">>, <<"2", "4", ":", "0">>}
MCDesignations == {<<>>, <<"i", "n">>, <<"1", "4", ":", "0">>, <<"a", ":", "i", "n">>}
MCOwnClientName == <<"a">>
MCOwnPortName == <<"i", "n">>

=============================================================================
