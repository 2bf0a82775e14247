-------------------------------- MODULE Rbcp --------------------------------
(***************************************************************************)
(* The register protocol over UDP: clients (class RBCP of rbcp.cxx, the    *)
(* functions of rbcp.c, udpreg.c), the relay (rbcprelay.cxx) and the       *)
(* server of a board (rbcpserver.cxx).  Each client has one socket for all *)
(* its calls; the relay opens a socket per request it passes on.           *)
(*                                                                         *)
(* The network delays and reorders datagrams, repeats up to MaxDups of     *)
(* them, and loses any: a datagram that is lost is one that is under way   *)
(* for ever.  A datagram is named by the call <<c, k>> it stems from; the  *)
(* code has no such name: its 8-bit id is compared by nobody.              *)
(***************************************************************************)
EXTENDS RegisterBus

CONSTANTS Libraries,  \* per client, the code it may be linked with
          MaxCalls,   \* bound: calls per client
          MaxDups     \* bound: datagrams the network repeats

ASSUME RbcpAssumption ==
  /\ Libraries \in [Clients -> SUBSET {"RBCP", "rbcp", "udpreg"}]
  /\ Requests \subseteq [op : {"read", "write"}, addr : Addrs, len : Nat, hop : BOOLEAN]
  /\ MaxCalls \in [Clients -> Nat]
  /\ MaxDups \in Nat

\* The board does not check addresses; requests reach registers that it has.
ASSUME CellsAssumption ==
  /\ Addrs \subseteq Nat
  /\ \A q \in Requests : q.op = "read" \/ q.len < 2048 - 8 => Cells(q) \subseteq Addrs

VARIABLES pc,         \* per client: "new", "idle", "wait" (in recvfrom) or "shut"
          host,       \* per client, whom it has connected its socket to
          library,    \* per client, the code it is linked with
          status,     \* per client, the return values of its calls
          toBoard, toRelay, fromBoard, toClient,   \* datagrams under way
          rpc,        \* the relay: "recv", "board" (waits for the board), "ended"
          stale,      \* the type field in the relay's buffer
          cur,        \* the call the relay took last; its sender gets the answer
          hops,       \* sockets the relay has opened
          dups        \* datagrams repeated so far

clientvars == <<pc, host, library, status>>
netvars == <<toBoard, toRelay, fromBoard, toClient>>
relayvars == <<rpc, stale, cur, hops>>
vars == <<busvars, clientvars, netvars, relayvars, dups>>

(***************************************************************************)
(* The library functions.  Each sends one datagram and waits for one.  What *)
(* tells them apart is what they can send - a write has to fit the send    *)
(* buffer of 2048 bytes behind a header of 8 or, for a hop, 16 - and what  *)
(* they return for an answer: a count, "ok", or the 0 of udpreg_read, which *)
(* says "error".  A hop needs a relay and the library that knows it.       *)
(***************************************************************************)
RBCP_read(q) == [sends |-> TRUE, returns |-> "ok"]
RBCP_write(q) == [sends |-> q.len < 2048 - 8, returns |-> "ok"]
RBCP_hopread(q) == [sends |-> TRUE, returns |-> "ok"]
RBCP_hopwrite(q) == [sends |-> q.len < 2048 - 16, returns |-> "ok"]
rbcp_read(q) == [sends |-> TRUE, returns |-> "ok"]
rbcp_write(q) == [sends |-> q.len < 2048 - 8, returns |-> "ok"]
udpreg_read(q) == [sends |-> TRUE, returns |-> "error"]
udpreg_write(q) == [sends |-> q.len < 2048 - 8, returns |-> "ok"]

Function(c, q) ==
  CASE q.hop /\ q.op = "read" -> RBCP_hopread(q)
    [] q.hop /\ q.op = "write" -> RBCP_hopwrite(q)
    [] library[c] = "RBCP" /\ ~q.hop -> IF q.op = "read" THEN RBCP_read(q) ELSE RBCP_write(q)
    [] library[c] = "rbcp" /\ ~q.hop -> IF q.op = "read" THEN rbcp_read(q) ELSE rbcp_write(q)
    [] OTHER -> IF q.op = "read" THEN udpreg_read(q) ELSE udpreg_write(q)

MayCall(c, q) == q.hop => host[c] = "relay" /\ library[c] = "RBCP"

Init ==
  /\ BusInit
  /\ pc = [c \in Clients |-> "new"]
  /\ host = [c \in Clients |-> "board"]
  /\ library \in {f \in [Clients -> UNION {Libraries[c] : c \in Clients}] :
                    \A c \in Clients : f[c] \in Libraries[c]}
  /\ status = [c \in Clients |-> <<>>]
  /\ toBoard = {} /\ toRelay = {} /\ fromBoard = {} /\ toClient = {}
  /\ rpc = "recv" /\ stale = "none" /\ cur = <<>> /\ hops = 0
  /\ dups = 0

\* A socket takes d out of net; the network may have a copy of it left.
Take(net, d, rest) ==
  /\ d \in net
  /\ \/ rest = net \ {d} /\ dups' = dups
     \/ rest = net /\ dups < MaxDups /\ dups' = dups + 1

(***************************************************************************)
(* Clients                                                                 *)
(***************************************************************************)
\* The socket is connected: to the board or to a relay.
Open(c) ==
  /\ pc[c] = "new"
  /\ pc' = [pc EXCEPT ![c] = "idle"]
  /\ \E at \in {"board", "relay"} : host' = [host EXCEPT ![c] = at]
  /\ UNCHANGED <<busvars, library, status, netvars, relayvars, dups>>

\* An unknown host, or no socket.  The programs look at neither and go on.
OpenFails(c) ==
  /\ pc[c] = "new"
  /\ pc' = [pc EXCEPT ![c] = "shut"]
  /\ UNCHANGED <<busvars, host, library, status, netvars, relayvars, dups>>

\* The datagram of call k, from the client's own socket, numbered 0.
Send(c, k) ==
  IF host[c] = "relay"
  THEN toRelay' = toRelay \cup {<<c, k>>} /\ toBoard' = toBoard
  ELSE toBoard' = toBoard \cup {<<c, k, 0>>} /\ toRelay' = toRelay

\* read, write, hopread, hopwrite up to the recvfrom.
Call(c) ==
  /\ pc[c] = "idle"
  /\ Len(calls[c]) < MaxCalls[c]
  /\ \E q \in Requests :
       /\ MayCall(c, q) /\ Function(c, q).sends
       /\ calls' = [calls EXCEPT ![c] = Append(@, q)]
  /\ pc' = [pc EXCEPT ![c] = "wait"]
  /\ Send(c, Len(calls[c]) + 1)
  /\ UNCHANGED <<result, mem, given, host, library, status, fromBoard, toClient, relayvars, dups>>

\* A write that does not fit, or a call on a socket that is not open.
Refuse(c) ==
  /\ Len(calls[c]) < MaxCalls[c]
  /\ \E q \in Requests :
       /\ pc[c] = "shut" \/ (pc[c] = "idle" /\ ~Function(c, q).sends)
       /\ MayCall(c, q)
       /\ calls' = [calls EXCEPT ![c] = Append(@, q)]
  /\ result' = [result EXCEPT ![c] = Append(@, Error)]
  /\ status' = [status EXCEPT ![c] = Append(@, "error")]
  /\ UNCHANGED <<mem, given, pc, host, library, netvars, relayvars, dups>>

Latest(c) == calls[c][Len(calls[c])]

\* The first datagram that comes is the answer.
Receive(c) ==
  /\ pc[c] = "wait"
  /\ \E d \in toClient :
       /\ d[1] = c
       /\ Take(toClient, d, toClient')
       /\ result' = [result EXCEPT ![c] = Append(@, d[2])]
  /\ status' = [status EXCEPT ![c] = Append(@, Function(c, Latest(c)).returns)]
  /\ pc' = [pc EXCEPT ![c] = "idle"]
  /\ UNCHANGED <<calls, mem, given, host, library, toBoard, toRelay, fromBoard, relayvars>>

\* What a call without an answer ends with; and a call that seems to be answered.
NoAnswer_silent(c) == [from |-> <<c, Len(calls[c])>>, data |-> Empty]
NoAnswer(c) == Error
\* Where the client is then; and one that receives again.
AfterTimeout_again == "wait"
AfterTimeout == "idle"

\* SO_RCVTIMEO: three seconds without a datagram.  The socket stays open.
Timeout(c) ==
  /\ pc[c] = "wait"
  /\ result' = [result EXCEPT ![c] = Append(@, NoAnswer(c))]
  /\ status' = [status EXCEPT ![c] = Append(@, "error")]
  /\ pc' = [pc EXCEPT ![c] = AfterTimeout]
  /\ UNCHANGED <<calls, mem, given, host, library, netvars, relayvars, dups>>

(***************************************************************************)
(* The board                                                               *)
(***************************************************************************)
\* server_recv_to_reg_mem: the registers after a request, and what the answer holds.
RegMem_first(d) ==
  LET q == calls[d[1]][d[2]] IN
  IF q.op = "write" /\ Length(q) > 0 THEN [mem EXCEPT ![q.addr] = <<d[1], d[2], 1>>] ELSE mem
RegMem(d) == Stored(d[1], d[2])
Payload_before(d) == [j \in 1..Length(calls[d[1]][d[2]]) |-> mem[calls[d[1]][d[2]].addr + j - 1]]
Payload(d) == Performed(d[1], d[2])

\* Perform a request and answer its sender.
Serve(d) ==
  /\ Take(toBoard, d, toBoard')
  /\ mem' = RegMem(d)
  /\ LET a == [from |-> <<d[1], d[2]>>, data |-> Payload(d)] IN
     /\ given' = given \cup {a}
     /\ IF d[3] = 0
        THEN /\ toClient' = toClient \cup {<<d[1], a>>}
             /\ fromBoard' = fromBoard
        ELSE /\ fromBoard' = fromBoard \cup {<<d[3], a>>}
             /\ toClient' = toClient
  /\ UNCHANGED <<calls, result, clientvars, toRelay, relayvars>>

(***************************************************************************)
(* The relay                                                               *)
(***************************************************************************)
\* A plain request is sent back to where it came from.
Reflected(d) ==
  /\ LET a == [from |-> d, data |-> Returned(d[1], d[2])] IN
     /\ given' = given \cup {a}
     /\ toClient' = toClient \cup {<<d[1], a>>}
  /\ stale' = "plain"
  /\ UNCHANGED <<toBoard, rpc, hops>>

\* The datagrams longer than the relay's buffer of 256 + 16 bytes.
Overruns(q) == q.op = "write" /\ q.len > 256 + 16 - (IF q.hop THEN 16 ELSE 8)

\* A hop request goes on through a socket of its own, its header rewritten to a
\* plain one in the buffer; if there is no socket the buffer keeps its header;
\* if the send fails relay() returns.
PassedOn(d) ==
  /\ \/ /\ toBoard' = toBoard \cup {<<d[1], d[2], hops + 1>>}
        /\ hops' = hops + 1 /\ rpc' = "board" /\ stale' = "plain"
     \/ /\ hops' = hops + 1 /\ rpc' = "ended" /\ stale' = "plain"
        /\ toBoard' = toBoard
     \/ /\ stale' = "hop"
        /\ UNCHANGED <<toBoard, rpc, hops>>
  /\ UNCHANGED <<given, toClient>>

\* One that runs over the buffer may end the process, or be served like the others.
RelayTakes(d) ==
  /\ rpc = "recv"
  /\ Take(toRelay, d, toRelay')
  /\ cur' = d
  /\ LET q == calls[d[1]][d[2]] IN
     \/ IF q.hop THEN PassedOn(d) ELSE Reflected(d)
     \/ Overruns(q) /\ rpc' = "ended" /\ UNCHANGED <<given, toClient, toBoard, stale, hops>>
  /\ UNCHANGED <<calls, result, mem, clientvars, fromBoard>>

\* serv.receive timed out and the result is not looked at.  A plain header left
\* in the buffer makes it send -1 bytes, which fails; with a hop header that had
\* found no socket it opens one now, cannot send -9 bytes, and returns.
RelayIdles ==
  /\ rpc = "recv" /\ stale = "hop"
  /\ hops' = hops + 1 /\ rpc' = "ended" /\ stale' = "plain"
  /\ UNCHANGED <<busvars, clientvars, netvars, cur, dups>>

\* Only answers to the socket that is open come in; and answers to any.
OnSocket_any(d) == TRUE
OnSocket(d) == d[1] = hops
\* The relay serves on; and waits for more.
Served_stays == "board"
Served == "recv"

\* The board's answer goes to the sender of the last datagram the relay took.
RelayForwards(d) ==
  /\ rpc = "board" /\ OnSocket(d)
  /\ Take(fromBoard, d, fromBoard')
  /\ toClient' = toClient \cup {<<cur[1], d[2]>>}
  /\ rpc' = Served
  /\ UNCHANGED <<busvars, clientvars, toBoard, toRelay, stale, cur, hops>>

\* No answer within three seconds: relay() returns and the process ends.
RelayGivesUp ==
  /\ rpc = "board"
  /\ rpc' = "ended"
  /\ UNCHANGED <<busvars, clientvars, netvars, stale, cur, hops, dups>>

Next ==
  \/ \E c \in Clients : Open(c) \/ OpenFails(c) \/ Call(c) \/ Refuse(c) \/ Receive(c) \/ Timeout(c)
  \/ \E d \in toBoard : Serve(d)
  \/ \E d \in toRelay : RelayTakes(d)
  \/ \E d \in fromBoard : RelayForwards(d)
  \/ RelayIdles \/ RelayGivesUp

Spec == Init /\ [][Next]_vars
-----------------------------------------------------------------------------
TypeOK ==
  /\ calls \in [Clients -> Seq(Requests)]
  /\ result \in [Clients -> Seq(Answers)]
  /\ status \in [Clients -> Seq({"ok", "error"})]
  /\ mem \in [Addrs -> Values]
  /\ given \subseteq Answers
  /\ pc \in [Clients -> {"new", "idle", "wait", "shut"}]
  /\ host \in [Clients -> {"board", "relay"}]
  /\ library \in [Clients -> {"RBCP", "rbcp", "udpreg"}]
  /\ \A c \in Clients :
       /\ Len(status[c]) = Len(result[c])
       /\ Len(calls[c]) = Len(result[c]) + (IF pc[c] = "wait" THEN 1 ELSE 0)
  /\ toBoard \subseteq Clients \X Nat \X Nat
  /\ toRelay \subseteq Clients \X Nat
  /\ fromBoard \subseteq Nat \X given
  /\ toClient \subseteq Clients \X given
  /\ rpc \in {"recv", "board", "ended"}
  /\ stale \in {"none", "plain", "hop"}
  /\ cur \in (Clients \X Nat) \cup {<<>>}
  /\ rpc = "board" => cur # <<>>
  /\ hops \in Nat /\ dups \in Nat

\* The first n calls of c were answered.
Undisturbed(c, n) == \A j \in 1..n : result[c][j].from # <<>>

\* As long as no call of a client has failed and the network has repeated
\* nothing, each of its calls ends with its own answer.  After a timeout this is
\* no longer so: the late answer is taken for the next one, and from then on every
\* answer is one call behind (RBCP::read, rbcp_read and their callers never
\* compare the id).
OwnAnswer ==
  dups = 0 =>
    \A c \in Clients : \A k \in DOMAIN result[c] :
      Undisturbed(c, k - 1) => result[c][k].from \in {<<>>, <<c, k>>}

\* Writes to register a that c made before its call k.
Writes(q, a) == q.op = "write" /\ a \in Cells(q)
WritesBefore(c, k, a) == {j \in 1..(k - 1) : Writes(calls[c][j], a)}

\* v is what the last of them wrote there.
LastWritten(c, k, a, v) ==
  LET W == WritesBefore(c, k, a) IN
  \/ W = {} /\ v = Zero
  \/ \E j \in W : (\A i \in W : i <= j) /\ v = <<c, j, Place(calls[c][j], a)>>

SoleWriter(c, a) ==
  \A e \in Clients \ {c} : \A j \in DOMAIN calls[e] : ~Writes(calls[e][j], a)

\* Under the same conditions a client that talks to its board, directly or with hop
\* calls through the relay, reads as many registers as the length modulo 256 says,
\* and in each that it is the only one to write the byte it wrote there last, however
\* its writes overlap: of a write that is longer only the first bytes are written, and
\* a length of 256 writes and reads nothing.
ReadYourWrites ==
  dups = 0 =>
    \A c \in Clients : \A k \in DOMAIN result[c] :
      LET q == calls[c][k]
          data == result[c][k].data
      IN  (/\ q.op = "read"
           /\ host[c] = "board" \/ \A j \in 1..k : calls[c][j].hop
           /\ Undisturbed(c, k))
          => /\ Len(data) = Length(q)
             /\ \A a \in Cells(q) : SoleWriter(c, a) => LastWritten(c, k, a, data[Place(q, a)])

\* The relay serves many clients through one socket, boards answer late and the
\* network repeats answers, but what the relay sends a client is always for that
\* client: rbcprelay.cxx opens a new socket per hop, and the answers to the closed
\* ones are dropped.
RelayNeverMixes == \A d \in toClient : d[2].from[1] = d[1]

\* When the relay has ended for want of an answer (rbcprelay.cxx:115), the call it
\* had in hand is not answered any more, neither by it nor by the board.
EndCostsCall ==
  dups = 0 /\ rpc = "ended" /\ cur # <<>> =>
    /\ \A d \in toClient : d[2].from # cur
    /\ \A j \in DOMAIN result[cur[1]] : result[cur[1]][j].from # cur
=============================================================================
