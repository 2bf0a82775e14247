----------------------------- MODULE RegisterBus -----------------------------
(***************************************************************************)
(* What the register protocol of rbcp/ promises its callers.  A client has *)
(* one call open at a time.  The board performs a call that was made, at   *)
(* any time after it was made and, if the network repeats a datagram, more *)
(* than once.  A call ends with an error or with an answer made for a call *)
(* of this client.  Which of its calls is not promised: nothing in an      *)
(* answer is compared with the request.                                    *)
(***************************************************************************)
EXTENDS Naturals, Sequences

CONSTANTS Clients,    \* programs that call the library
          Requests,   \* [op, addr, len, hop]: the calls a client may make
          Addrs,      \* the registers of the board, one byte each
          Zero        \* what a register holds at first

VARIABLES calls,      \* per client, the calls it has made
          result,     \* per client, what its finished calls ended with
          mem,        \* the registers of the board
          given       \* the answers to the calls that were performed or sent back

busvars == <<calls, result, mem, given>>

\* A length travels in 8 bits.
LengthMod == 256

\* The registers a request reaches from its address on: none if its length is 0 on the
\* wire.  The j-th of them goes with the j-th byte of the payload.
Length(q) == q.len % LengthMod
Cells(q) == q.addr..(q.addr + Length(q) - 1)
Place(q, a) == a - q.addr + 1

\* The j-th byte that call k of c writes is <<c, k, j>>.
Values == {Zero} \cup (Clients \X Nat \X Nat)
Payloads == Seq(Values)
Empty == <<>>

\* Nothing came back.
Error == [from |-> <<>>, data |-> Empty]
Answers == [from : (Clients \X Nat) \cup {<<>>}, data : Payloads]

\* What the board answers to call k of c: the bytes read, or those written.
Performed(c, k) ==
  LET q == calls[c][k] IN
  [j \in 1..Length(q) |-> IF q.op = "write" THEN <<c, k, j>> ELSE mem[q.addr + j - 1]]

\* The registers after it.
Stored(c, k) ==
  LET q == calls[c][k] IN
  [a \in Addrs |-> IF q.op = "write" /\ a \in Cells(q) THEN <<c, k, Place(q, a)>> ELSE mem[a]]

Waiting(c) == Len(calls[c]) = Len(result[c]) + 1

BusInit ==
  /\ calls = [c \in Clients |-> <<>>]
  /\ result = [c \in Clients |-> <<>>]
  /\ mem = [a \in Addrs |-> Zero]
  /\ given = {}

Ask(c) ==
  /\ Len(calls[c]) = Len(result[c])
  /\ \E q \in Requests : calls' = [calls EXCEPT ![c] = Append(@, q)]
  /\ UNCHANGED <<result, mem, given>>

\* A call the client cannot send ends with an error at once.
AskInVain(c) ==
  /\ Len(calls[c]) = Len(result[c])
  /\ \E q \in Requests : calls' = [calls EXCEPT ![c] = Append(@, q)]
  /\ result' = [result EXCEPT ![c] = Append(@, Error)]
  /\ UNCHANGED <<mem, given>>

Perform(c, k) ==
  /\ mem' = Stored(c, k)
  /\ given' = given \cup {[from |-> <<c, k>>, data |-> Performed(c, k)]}
  /\ UNCHANGED <<calls, result>>

\* What comes back when the request itself does: its data, of which the bytes beyond
\* the length in its header are left out here.
Returned(c, k) ==
  LET q == calls[c][k] IN
  IF q.op = "write" THEN [j \in 1..Length(q) |-> <<c, k, j>>] ELSE Empty

\* A relay that gets a plain call returns the call itself, which no board has
\* performed.
Reflect(c, k) ==
  /\ given' = given \cup {[from |-> <<c, k>>, data |-> Returned(c, k)]}
  /\ UNCHANGED <<calls, result, mem>>

Answer(c) ==
  /\ Waiting(c)
  /\ \E t \in given :
       /\ t.from[1] = c
       /\ result' = [result EXCEPT ![c] = Append(@, t)]
  /\ UNCHANGED <<calls, mem, given>>

Fail(c) ==
  /\ Waiting(c)
  /\ result' = [result EXCEPT ![c] = Append(@, Error)]
  /\ UNCHANGED <<calls, mem, given>>

BusNext ==
  \E c \in Clients :
    \/ Ask(c) \/ AskInVain(c) \/ Answer(c) \/ Fail(c)
    \/ \E k \in DOMAIN calls[c] : Perform(c, k) \/ Reflect(c, k)

BusSpec == BusInit /\ [][BusNext]_busvars
=============================================================================
