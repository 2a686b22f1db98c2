---------------------------- MODULE MCFlowTable ----------------------------
(***************************************************************************)
(* Instances of FlowTable for TLC.                                         *)
(***************************************************************************)
EXTENDS FlowTable

\* A connection request and an acknowledgement.
Handshake == {{"syn"}, {"ack"}}

\* Address sets: one host; two interfaces and a replay
\* without local addresses.
Host == {{1}}
Roaming == {{}, {1}, {2}}

=============================================================================
