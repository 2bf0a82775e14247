------------------------------- MODULE MCRbcp -------------------------------
(***************************************************************************)
(* Instances of Rbcp for TLC.  The client h may make hop calls and is      *)
(* linked with the class RBCP; p is linked with any of the libraries.  The *)
(* board has two registers.  The lengths are both registers, 1 and 0 in 8  *)
(* bits, of which the first also runs over the relay's buffer, and one     *)
(* that does not fit the send buffer.                                      *)
(***************************************************************************)
EXTENDS Rbcp, TLC

CONSTANTS h, p

CallLimit == (h :> 2) @@ (p :> 1)
Linked == (h :> {"RBCP"}) @@ (p :> {"RBCP", "rbcp", "udpreg"})
Request(op, addr, len, hop) == [op |-> op, addr |-> addr, len |-> len, hop |-> hop]
Plain == {Request("read", 0, 2, FALSE), Request("write", 1, 513, FALSE),
          Request("write", 0, 256, FALSE), Request("write", 0, 2040, FALSE)}
Hops == {Request("read", 0, 2, TRUE), Request("write", 0, 2, TRUE)}
Calls == Plain \cup Hops
=============================================================================
