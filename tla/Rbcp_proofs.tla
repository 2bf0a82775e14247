----------------------------- MODULE Rbcp_proofs -----------------------------
(***************************************************************************)
(* Proofs about Rbcp, for any clients, requests and bounds.                *)
(*                                                                         *)
(* A datagram stems from a call that was made (Known), and what is under   *)
(* way to a client is for it, because the relay opens a socket per hop and *)
(* numbers rise (Mine): from these every step is a step of RegisterBus.    *)
(* While the network repeats nothing a call is in one place at most        *)
(* (Once): a client that has had the answers to its earlier calls can only *)
(* receive the one to its last call (OwnAnswer), and a call that the relay *)
(* holds is answered nowhere (Lost).  An undisturbed client has all its    *)
(* calls but the last performed, once, and so reads what it wrote (Fresh). *)
(***************************************************************************)
EXTENDS Rbcp, SequenceTheorems, TLAPS

\* Every datagram stems from a call that was made, and the sockets of the relay it
\* names have been opened.
Known ==
  /\ \A x \in toBoard : x[2] \in 1..Len(calls[x[1]]) /\ x[3] <= hops
  /\ \A x \in toRelay : x[2] \in 1..Len(calls[x[1]])
  /\ \A x \in fromBoard : x[1] \in 1..hops
  /\ \A a \in given : a.from \in Clients \X Nat /\ a.from[2] \in 1..Len(calls[a.from[1]])

TInv == TypeOK /\ Known

USE RbcpAssumption

-----------------------------------------------------------------------------
\* One client's sequence gets one element longer.
LEMMA Longer ==
  ASSUME NEW S, NEW f \in [Clients -> Seq(S)], NEW c \in Clients, NEW e \in S,
         NEW g, g = [f EXCEPT ![c] = Append(@, e)]
  PROVE  /\ g \in [Clients -> Seq(S)]
         /\ Len(g[c]) = Len(f[c]) + 1
         /\ g[c][Len(f[c]) + 1] = e
         /\ \A j \in 1..Len(f[c]) : g[c][j] = f[c][j]
         /\ \A x \in Clients : x # c => g[x] = f[x]
<1>1. f[c] \in Seq(S) /\ g[c] = Append(f[c], e)
  OBVIOUS
<1>2. /\ Append(f[c], e) \in Seq(S)
      /\ Len(Append(f[c], e)) = Len(f[c]) + 1
      /\ Append(f[c], e)[Len(f[c]) + 1] = e
      /\ \A j \in 1..Len(f[c]) : Append(f[c], e)[j] = f[c][j]
  BY <1>1
<1> QED
  BY <1>1, <1>2

\* So are the calls at any step: those made stay made, and unchanged.
LEMMA CallsGrow ==
  ASSUME TInv, [Next]_vars
  PROVE  \A c \in Clients :
           /\ Len(calls[c]) \in Nat /\ Len(calls'[c]) \in Nat /\ Len(calls[c]) <= Len(calls'[c])
           /\ \A j \in 1..Len(calls[c]) : calls'[c][j] = calls[c][j]
<1>1. calls \in [Clients -> Seq(Requests)] /\ \A c \in Clients : Len(calls[c]) \in Nat
  BY LenProperties DEF TInv, TypeOK
<1>2. CASE calls' = calls
  BY <1>1, <1>2
<1>3. ASSUME NEW c \in Clients, NEW q \in Requests, calls' = [calls EXCEPT ![c] = Append(@, q)]
      PROVE  \A x \in Clients :
               /\ Len(calls'[x]) \in Nat /\ Len(calls[x]) <= Len(calls'[x])
               /\ \A j \in 1..Len(calls[x]) : calls'[x][j] = calls[x][j]
  BY <1>1, <1>3, Longer
<1>4. \/ calls' = calls
      \/ \E c \in Clients : \E q \in Requests : calls' = [calls EXCEPT ![c] = Append(@, q)]
  BY DEF Next, Open, OpenFails, Call, Refuse, Receive, Timeout, Serve, RelayTakes, RelayForwards,
         RelayIdles, RelayGivesUp, vars, busvars
<1> QED
  BY <1>1, <1>2, <1>3, <1>4
-----------------------------------------------------------------------------
LEMMA ListIsSeq ==
  ASSUME NEW S, NEW n \in Nat, NEW s \in [1..n -> S]
  PROVE  s \in Seq(S)
BY SeqDef

LEMMA ErrorAnswer == Error \in Answers /\ Error.from = <<>>
<1>1. <<>> \in Payloads
  BY EmptySeq DEF Payloads
<1> QED
  BY <1>1 DEF Error, Answers, Empty

\* The registers a request reaches, and the bytes that go with them.
LEMMA CellsAre ==
  ASSUME NEW q \in Requests
  PROVE  /\ Length(q) \in Nat /\ q.addr \in Nat /\ q.op \in {"read", "write"}
         /\ \A a : a \in Cells(q) <=> a \in Nat /\ q.addr <= a /\ a < q.addr + Length(q)
         /\ \A a \in Cells(q) : Place(q, a) \in 1..Length(q) /\ q.addr + Place(q, a) - 1 = a
         /\ \A j \in 1..Length(q) : q.addr + j - 1 \in Cells(q)
         /\ q.op = "read" => Cells(q) \subseteq Addrs
<1>1. q.len \in Nat /\ q.addr \in Nat /\ q.op \in {"read", "write"}
  BY CellsAssumption
<1>2. PICK n : n = Length(q)
  OBVIOUS
<1>3. n \in Nat
  BY <1>1, <1>2 DEF Length, LengthMod
<1>4. PICK m \in Nat : m = q.addr
  BY <1>1
<1>5. q.op = "read" => Cells(q) \subseteq Addrs
  BY CellsAssumption
<1>6. Cells(q) = m..(m + n - 1) /\ \A a : Place(q, a) = a - m + 1
  BY <1>2, <1>4 DEF Cells, Place
<1>7. \A a : a \in m..(m + n - 1) <=> a \in Nat /\ m <= a /\ a < m + n
  BY <1>3
<1>8. \A a \in m..(m + n - 1) : a - m + 1 \in 1..n /\ m + (a - m + 1) - 1 = a
  BY <1>3
<1>9. \A j \in 1..n : m + j - 1 \in m..(m + n - 1)
  BY <1>3
<1> QED
  BY <1>1, <1>2, <1>3, <1>4, <1>5, <1>6, <1>7, <1>8, <1>9

\* What the board and the relay make of a call that was made.
LEMMA Performing ==
  ASSUME TInv, NEW c \in Clients, NEW k \in 1..Len(calls[c])
  PROVE  /\ calls[c][k] \in Requests
         /\ Stored(c, k) \in [Addrs -> Values]
         /\ Performed(c, k) \in Payloads /\ Returned(c, k) \in Payloads
         /\ Len(Performed(c, k)) = Length(calls[c][k])
         /\ [from |-> <<c, k>>, data |-> Performed(c, k)] \in Answers
         /\ [from |-> <<c, k>>, data |-> Returned(c, k)] \in Answers
<1>1. calls[c] \in Seq(Requests) /\ mem \in [Addrs -> Values] /\ Len(calls[c]) \in Nat
  BY LenProperties DEF TInv, TypeOK
<1>2. calls[c][k] \in Requests
  BY <1>1, ElementOfSeq
<1>3. PICK q \in Requests : q = calls[c][k]
  BY <1>2
<1>4. <<c, k>> \in Clients \X Nat /\ k \in Nat
  BY <1>1
<1>5. Stored(c, k) \in [Addrs -> Values]
  <2>1. \A a \in Addrs : a \in Cells(q) => <<c, k, Place(q, a)>> \in Values
    BY <1>4, CellsAre DEF Values
  <2> QED
    BY <1>1, <1>3, <2>1 DEF Stored
<1>6. PICK n \in Nat : n = Length(q)
  BY CellsAre
<1>7. Performed(c, k) \in Payloads /\ Len(Performed(c, k)) = n
  <2> DEFINE s == [j \in 1..n |-> IF q.op = "write" THEN <<c, k, j>> ELSE mem[q.addr + j - 1]]
  <2>1. ASSUME NEW j \in 1..n
        PROVE  (IF q.op = "write" THEN <<c, k, j>> ELSE mem[q.addr + j - 1]) \in Values
    <3>1. CASE q.op = "write"
      <4>1. j \in Nat
        OBVIOUS
      <4> QED
        BY <1>4, <3>1, <4>1 DEF Values
    <3>2. CASE q.op # "write"
      <4>1. q.addr + j - 1 \in Addrs
        BY <1>6, <3>2, CellsAre
      <4> QED
        BY <1>1, <3>2, <4>1
    <3> QED
      BY <3>1, <3>2
  <2>2. s \in [1..n -> Values]
    BY <2>1
  <2>3. s \in Seq(Values) /\ Performed(c, k) = s
    <3>1. Performed(c, k) = s
      BY <1>3, <1>6 DEF Performed
    <3> HIDE DEF s
    <3>2. s \in Seq(Values)
      BY <1>6, <2>2, ListIsSeq
    <3> QED
      BY <3>1, <3>2
  <2>4. DOMAIN s = 1..n
    OBVIOUS
  <2> HIDE DEF s
  <2>5. Len(s) = n
    BY <1>6, <2>3, <2>4, LenProperties
  <2> QED
    BY <2>3, <2>5 DEF Payloads
<1>8. Returned(c, k) \in Payloads
  <2>1. CASE q.op = "write"
    <3> DEFINE s == [j \in 1..n |-> <<c, k, j>>]
    <3>1. \A j \in 1..n : <<c, k, j>> \in Values
      BY <1>4 DEF Values
    <3>2. s \in [1..n -> Values]
      BY <3>1
    <3>3. Returned(c, k) = s
      BY <1>3, <1>6, <2>1 DEF Returned
    <3> HIDE DEF s
    <3>4. s \in Seq(Values)
      BY <1>6, <3>2, ListIsSeq
    <3> QED
      BY <3>3, <3>4 DEF Payloads
  <2>2. CASE q.op # "write"
    BY <1>3, <2>2, EmptySeq DEF Returned, Payloads, Empty
  <2> QED
    BY <2>1, <2>2
<1> QED
  BY <1>2, <1>3, <1>4, <1>5, <1>6, <1>7, <1>8 DEF Answers

LEMMA InitTyped == Init => TInv
<1> SUFFICES ASSUME Init PROVE TInv
  OBVIOUS
<1>1. /\ calls \in [Clients -> Seq(Requests)] /\ result \in [Clients -> Seq(Answers)]
      /\ status \in [Clients -> Seq({"ok", "error"})]
      /\ \A c \in Clients : calls[c] = <<>> /\ result[c] = <<>> /\ status[c] = <<>>
  BY EmptySeq DEF Init, BusInit
<1>2. /\ mem \in [Addrs -> Values] /\ given \subseteq Answers
      /\ pc \in [Clients -> {"new", "idle", "wait", "shut"}]
      /\ \A c \in Clients : pc[c] = "new"
      /\ host \in [Clients -> {"board", "relay"}]
  BY DEF Init, BusInit, Values
<1>3. library \in [Clients -> {"RBCP", "rbcp", "udpreg"}]
  <2>1. PICK f \in [Clients -> UNION {Libraries[c] : c \in Clients}] : library = f
    BY DEF Init
  <2>2. UNION {Libraries[c] : c \in Clients} \subseteq {"RBCP", "rbcp", "udpreg"}
    OBVIOUS
  <2> QED
    BY <2>1, <2>2
<1>4. Len(<<>>) = 0
  OBVIOUS
<1>5. TypeOK
  BY <1>1, <1>2, <1>3, <1>4 DEF TypeOK, Init
<1>6. Known
  BY DEF Known, Init, BusInit
<1> QED
  BY <1>5, <1>6 DEF TInv

\* The steps of the clients.
LEMMA ClientTyped ==
  ASSUME TInv, NEW c \in Clients,
         Open(c) \/ OpenFails(c) \/ Call(c) \/ Refuse(c) \/ Receive(c) \/ Timeout(c)
  PROVE  TInv'
<1> USE DEF TInv
<1>1. /\ calls \in [Clients -> Seq(Requests)] /\ result \in [Clients -> Seq(Answers)]
      /\ status \in [Clients -> Seq({"ok", "error"})]
      /\ \A x \in Clients : /\ Len(calls[x]) \in Nat /\ Len(result[x]) \in Nat
                            /\ Len(status[x]) = Len(result[x])
                            /\ Len(calls[x]) = Len(result[x]) + (IF pc[x] = "wait" THEN 1 ELSE 0)
  BY LenProperties DEF TypeOK
<1>2. CASE Open(c)
  <2>1. TypeOK'
    BY <1>2 DEF Open, busvars, netvars, relayvars, TypeOK
  <2>2. Known'
    BY <1>2 DEF Open, busvars, netvars, relayvars, Known
  <2> QED
    BY <2>1, <2>2
<1>3. CASE OpenFails(c)
  <2>1. TypeOK'
    BY <1>3 DEF OpenFails, busvars, netvars, relayvars, TypeOK
  <2>2. Known'
    BY <1>3 DEF OpenFails, busvars, netvars, relayvars, Known
  <2> QED
    BY <2>1, <2>2
<1>4. CASE Call(c)
  <2>1. PICK q \in Requests : calls' = [calls EXCEPT ![c] = Append(@, q)]
    BY <1>4 DEF Call
  <2>2. /\ calls' \in [Clients -> Seq(Requests)]
        /\ Len(calls'[c]) = Len(calls[c]) + 1
        /\ \A x \in Clients : x # c => calls'[x] = calls[x]
    BY <1>1, <2>1, Longer
  <2>3. pc[c] = "idle" /\ pc' = [pc EXCEPT ![c] = "wait"]
    BY <1>4 DEF Call
  <2>4. /\ toBoard' \subseteq toBoard \cup {<<c, Len(calls[c]) + 1, 0>>}
        /\ toRelay' \subseteq toRelay \cup {<<c, Len(calls[c]) + 1>>}
    BY <1>4 DEF Call, Send
  <2>5. UNCHANGED <<result, mem, given, host, library, status, fromBoard, toClient, rpc, stale, cur, hops, dups>>
    BY <1>4 DEF Call, relayvars
  <2>6. toBoard' \subseteq Clients \X Nat \X Nat /\ toRelay' \subseteq Clients \X Nat
    BY <1>1, <2>4 DEF TypeOK
  <2>7. pc' \in [Clients -> {"new", "idle", "wait", "shut"}]
    BY <2>3 DEF TypeOK
  <2>8. ASSUME NEW x \in Clients
        PROVE  Len(calls'[x]) = Len(result'[x]) + (IF pc'[x] = "wait" THEN 1 ELSE 0)
    <3>1. CASE x = c
      <4>1. pc'[x] = "wait" /\ pc[x] # "wait"
        BY <2>3, <3>1 DEF TypeOK
      <4>2. Len(calls[x]) = Len(result[x])
        BY <1>1, <4>1
      <4> QED
        BY <2>2, <2>5, <3>1, <4>1, <4>2
    <3>2. CASE x # c
      <4>1. pc'[x] = pc[x]
        BY <2>3, <3>2 DEF TypeOK
      <4> QED
        BY <1>1, <2>2, <2>5, <3>2, <4>1
    <3> QED
      BY <3>1, <3>2
  <2>9. \A x \in Clients : Len(calls[x]) \in Nat /\ Len(calls'[x]) \in {Len(calls[x]), Len(calls[x]) + 1}
    BY <1>1, <2>2
  <2>10. TypeOK'
    BY <1>1, <2>2, <2>5, <2>6, <2>7, <2>8 DEF TypeOK
  <2>11. ASSUME NEW x \in Clients, NEW j \in 1..Len(calls[x]) PROVE j \in 1..Len(calls'[x])
    <3>1. Len(calls[x]) \in Nat /\ Len(calls'[x]) \in {Len(calls[x]), Len(calls[x]) + 1}
      BY <2>9
    <3> QED
      BY <3>1
  <2>12. Len(calls[c]) + 1 \in 1..Len(calls'[c]) /\ 0 <= hops
    BY <1>1, <2>2 DEF TypeOK
  <2>13. Known'
    <3>1. \A x \in toBoard' : x[2] \in 1..Len(calls'[x[1]]) /\ x[3] <= hops
      <4>1. \A x \in toBoard : x[1] \in Clients /\ x[2] \in 1..Len(calls[x[1]]) /\ x[3] <= hops
        BY DEF TypeOK, Known
      <4>2. \A x \in toBoard : x[2] \in 1..Len(calls'[x[1]]) /\ x[3] <= hops
        BY <2>11, <4>1
      <4>3. LET x == <<c, Len(calls[c]) + 1, 0>> IN x[2] \in 1..Len(calls'[x[1]]) /\ x[3] <= hops
        BY <2>12
      <4> QED
        BY <2>4, <4>2, <4>3
    <3>2. \A x \in toRelay' : x[2] \in 1..Len(calls'[x[1]])
      BY <2>4, <2>11, <2>12 DEF TypeOK, Known
    <3>3. \A a \in given : a.from \in Clients \X Nat /\ a.from[2] \in 1..Len(calls'[a.from[1]])
      BY <2>11 DEF Known
    <3> QED
      BY <2>5, <3>1, <3>2, <3>3 DEF Known
  <2> QED
    BY <2>10, <2>13
<1>5. CASE Refuse(c)
  <2>1. PICK q \in Requests : calls' = [calls EXCEPT ![c] = Append(@, q)]
    BY <1>5 DEF Refuse
  <2>2. Error \in Answers
    BY ErrorAnswer
  <2>3. /\ calls' \in [Clients -> Seq(Requests)]
        /\ Len(calls'[c]) = Len(calls[c]) + 1
        /\ \A x \in Clients : x # c => calls'[x] = calls[x]
    BY <1>1, <2>1, Longer
  <2>4. result' = [result EXCEPT ![c] = Append(@, Error)] /\ status' = [status EXCEPT ![c] = Append(@, "error")]
    BY <1>5 DEF Refuse
  <2>5. /\ result' \in [Clients -> Seq(Answers)]
        /\ Len(result'[c]) = Len(result[c]) + 1
        /\ \A x \in Clients : x # c => result'[x] = result[x]
    BY <1>1, <2>2, <2>4, Longer
  <2>6. /\ status' \in [Clients -> Seq({"ok", "error"})]
        /\ Len(status'[c]) = Len(status[c]) + 1
        /\ \A x \in Clients : x # c => status'[x] = status[x]
    BY <1>1, <2>4, Longer
  <2>7. UNCHANGED <<mem, given, pc, host, library, toBoard, toRelay, fromBoard, toClient, rpc, stale, cur, hops, dups>>
    BY <1>5 DEF Refuse, netvars, relayvars
  <2>8. ASSUME NEW x \in Clients
        PROVE  /\ Len(status'[x]) = Len(result'[x])
               /\ Len(calls'[x]) = Len(result'[x]) + (IF pc'[x] = "wait" THEN 1 ELSE 0)
    <3>1. CASE x = c
      BY <1>1, <2>3, <2>5, <2>6, <2>7, <3>1
    <3>2. CASE x # c
      BY <1>1, <2>3, <2>5, <2>6, <2>7, <3>2
    <3> QED
      BY <3>1, <3>2
  <2>9. \A x \in Clients : Len(calls[x]) \in Nat /\ Len(calls'[x]) \in {Len(calls[x]), Len(calls[x]) + 1}
    BY <1>1, <2>3
  <2>10. TypeOK'
    BY <2>3, <2>5, <2>6, <2>7, <2>8 DEF TypeOK
  <2>11. ASSUME NEW x \in Clients, NEW j \in 1..Len(calls[x]) PROVE j \in 1..Len(calls'[x])
    <3>1. Len(calls[x]) \in Nat /\ Len(calls'[x]) \in {Len(calls[x]), Len(calls[x]) + 1}
      BY <2>9
    <3> QED
      BY <3>1
  <2>12. Known'
    BY <2>7, <2>11 DEF Known, TypeOK
  <2> QED
    BY <2>10, <2>12
<1>6. ASSUME NEW t \in Answers, NEW s \in {"ok", "error"}, pc[c] = "wait",
             result' = [result EXCEPT ![c] = Append(@, t)],
             status' = [status EXCEPT ![c] = Append(@, s)],
             pc' = [pc EXCEPT ![c] = "idle"], toClient' \subseteq toClient, dups' \in Nat,
             UNCHANGED <<calls, mem, given, host, library, toBoard, toRelay, fromBoard,
                         rpc, stale, cur, hops>>
      PROVE  TInv'
  <2>1. /\ result' \in [Clients -> Seq(Answers)]
        /\ Len(result'[c]) = Len(result[c]) + 1
        /\ \A x \in Clients : x # c => result'[x] = result[x]
    BY <1>1, <1>6, Longer
  <2>2. /\ status' \in [Clients -> Seq({"ok", "error"})]
        /\ Len(status'[c]) = Len(status[c]) + 1
        /\ \A x \in Clients : x # c => status'[x] = status[x]
    BY <1>1, <1>6, Longer
  <2>3. pc' \in [Clients -> {"new", "idle", "wait", "shut"}]
    BY <1>6 DEF TypeOK
  <2>4. ASSUME NEW x \in Clients
        PROVE  /\ Len(status'[x]) = Len(result'[x])
               /\ Len(calls'[x]) = Len(result'[x]) + (IF pc'[x] = "wait" THEN 1 ELSE 0)
    <3>1. CASE x = c
      <4>1. pc'[x] = "idle" /\ calls'[x] = calls[x]
        BY <1>6, <3>1 DEF TypeOK
      <4>2. Len(calls[x]) = Len(result[x]) + 1
        BY <1>1, <1>6, <3>1
      <4> QED
        BY <1>1, <2>1, <2>2, <3>1, <4>1, <4>2
    <3>2. CASE x # c
      <4>1. pc'[x] = pc[x] /\ calls'[x] = calls[x]
        BY <1>6, <3>2 DEF TypeOK
      <4> QED
        BY <1>1, <2>1, <2>2, <3>2, <4>1
    <3> QED
      BY <3>1, <3>2
  <2>5. TypeOK'
    BY <1>6, <2>1, <2>2, <2>3, <2>4 DEF TypeOK
  <2>6. Known'
    BY <1>6 DEF Known
  <2> QED
    BY <2>5, <2>6
<1>7. CASE Receive(c)
  <2>1. PICK a \in toClient : /\ a[1] = c /\ Take(toClient, a, toClient')
                              /\ result' = [result EXCEPT ![c] = Append(@, a[2])]
    BY <1>7 DEF Receive
  <2>2. a[2] \in Answers /\ toClient' \subseteq toClient /\ dups' \in Nat
    BY <2>1 DEF Take, TypeOK
  <2>3. Function(c, Latest(c)).returns \in {"ok", "error"}
    BY DEF Function, RBCP_read, RBCP_write, RBCP_hopread, RBCP_hopwrite, rbcp_read, rbcp_write,
           udpreg_read, udpreg_write
  <2> QED
    BY <1>6, <1>7, <2>1, <2>2, <2>3 DEF Receive, relayvars
<1>8. CASE Timeout(c)
  <2>1. Error \in Answers
    BY ErrorAnswer
  <2> QED
    BY <1>6, <1>8, <2>1 DEF Timeout, NoAnswer, AfterTimeout, netvars, relayvars, TypeOK
<1> QED
  BY <1>2, <1>3, <1>4, <1>5, <1>7, <1>8
\* The board's step.
LEMMA BoardTyped ==
  ASSUME TInv, NEW x \in toBoard, Serve(x) PROVE TInv'
<1> USE DEF TInv
<1>1. /\ x[1] \in Clients /\ x[2] \in 1..Len(calls[x[1]]) /\ x[3] \in Nat /\ x[3] <= hops
      /\ hops \in Nat
  BY DEF TypeOK, Known
<1> DEFINE a == [from |-> <<x[1], x[2]>>, data |-> Performed(x[1], x[2])]
<1>2. a \in Answers /\ Stored(x[1], x[2]) \in [Addrs -> Values]
  BY <1>1, Performing
<1>3. /\ toBoard' \subseteq toBoard /\ dups' \in Nat
      /\ mem' = Stored(x[1], x[2]) /\ given' = given \cup {a}
      /\ UNCHANGED <<calls, result, pc, host, library, status, toRelay, rpc, stale, cur, hops>>
  BY DEF Serve, Take, TypeOK, RegMem, Payload, clientvars, relayvars
<1>4. \/ toClient' = toClient \cup {<<x[1], a>>} /\ fromBoard' = fromBoard
      \/ toClient' = toClient /\ fromBoard' = fromBoard \cup {<<x[3], a>>} /\ x[3] # 0
  BY DEF Serve, Payload
<1> HIDE DEF a
<1>5. toClient' \subseteq Clients \X given' /\ fromBoard' \subseteq Nat \X given'
  BY <1>1, <1>3, <1>4 DEF TypeOK
<1>6. TypeOK'
  BY <1>2, <1>3, <1>5 DEF TypeOK
<1>7. a.from \in Clients \X Nat /\ a.from[1] = x[1] /\ a.from[2] = x[2]
  BY <1>1 DEF a
<1>8. Known'
  <2>1. \A y \in fromBoard' : y[1] \in 1..hops
    <3>1. x[3] # 0 => <<x[3], a>>[1] \in 1..hops
      BY <1>1
    <3> QED
      BY <1>4, <3>1 DEF Known
  <2>2. \A b \in given' : b.from \in Clients \X Nat /\ b.from[2] \in 1..Len(calls[b.from[1]])
    BY <1>1, <1>3, <1>7 DEF Known
  <2> QED
    BY <1>3, <2>1, <2>2 DEF Known
<1> QED
  BY <1>6, <1>8

\* What RelayTakes does: it reflects the datagram, passes it on, or loses it.
LEMMA RelayCases ==
  ASSUME TInv, NEW x \in toRelay, RelayTakes(x)
  PROVE  /\ x[1] \in Clients /\ x[2] \in Nat /\ x[2] \in 1..Len(calls[x[1]]) /\ x = <<x[1], x[2]>>
         /\ toRelay' \subseteq toRelay /\ dups' \in Nat
         /\ cur' = x /\ rpc = "recv" /\ rpc' \in {"recv", "board", "ended"}
         /\ stale' \in {"plain", "hop", stale} /\ hops' \in {hops, hops + 1}
         /\ UNCHANGED <<calls, result, mem, pc, host, library, status, fromBoard>>
         /\ \/ /\ given' = given \cup {[from |-> x, data |-> Returned(x[1], x[2])]}
               /\ toClient' = toClient \cup {<<x[1], [from |-> x, data |-> Returned(x[1], x[2])]>>}
               /\ rpc' = "recv" /\ stale' = "plain"
               /\ UNCHANGED <<toBoard, hops>>
            \/ /\ toBoard' = toBoard \cup {<<x[1], x[2], hops + 1>>}
               /\ hops' = hops + 1 /\ rpc' = "board" /\ stale' = "plain"
               /\ UNCHANGED <<given, toClient>>
            \/ /\ rpc' \in {"recv", "ended"}
               /\ UNCHANGED <<given, toClient, toBoard>>
<1>1. x[1] \in Clients /\ x[2] \in Nat /\ x[2] \in 1..Len(calls[x[1]]) /\ x = <<x[1], x[2]>>
  BY DEF TInv, TypeOK, Known
<1>2. /\ toRelay' \subseteq toRelay /\ dups' \in Nat /\ cur' = x /\ rpc = "recv"
      /\ UNCHANGED <<calls, result, mem, pc, host, library, status, fromBoard>>
  <2>1. dups \in Nat
    BY DEF TInv, TypeOK
  <2>2. /\ Take(toRelay, x, toRelay') /\ cur' = x /\ rpc = "recv"
        /\ UNCHANGED <<calls, result, mem, pc, host, library, status, fromBoard>>
    BY DEF RelayTakes, clientvars
  <2> QED
    BY <2>1, <2>2 DEF Take
<1>3. \/ PassedOn(x) \/ Reflected(x)
      \/ rpc' = "ended" /\ UNCHANGED <<given, toClient, toBoard, stale, hops>>
  BY DEF RelayTakes
<1>4. CASE PassedOn(x)
  BY <1>1, <1>2, <1>4 DEF PassedOn
<1>5. CASE Reflected(x)
  BY <1>1, <1>2, <1>5 DEF Reflected
<1>6. CASE rpc' = "ended" /\ UNCHANGED <<given, toClient, toBoard, stale, hops>>
  BY <1>1, <1>2, <1>6
<1> QED
  BY <1>3, <1>4, <1>5, <1>6

\* The steps of the relay.
LEMMA RelayTyped ==
  ASSUME TInv,
         \/ \E x \in toRelay : RelayTakes(x)
         \/ \E x \in fromBoard : RelayForwards(x)
         \/ RelayIdles \/ RelayGivesUp
  PROVE  TInv'
<1> USE DEF TInv
<1>1. hops \in Nat
  BY DEF TypeOK
<1>2. ASSUME NEW x \in toRelay, RelayTakes(x) PROVE TInv'
  <2> DEFINE a == [from |-> x, data |-> Returned(x[1], x[2])]
  <2>1. a \in Answers
    BY <1>2, RelayCases, Performing
  <2>2. x[1] \in Clients /\ x[2] \in Nat /\ x[2] \in 1..Len(calls[x[1]]) /\ x = <<x[1], x[2]>>
    BY <1>2, RelayCases
  <2>3. /\ given' \subseteq given \cup {a} /\ given \subseteq given'
        /\ toBoard' \subseteq toBoard \cup {<<x[1], x[2], hops + 1>>}
        /\ hops' \in Nat /\ hops <= hops' /\ (toBoard' \subseteq toBoard \/ hops' = hops + 1)
    BY <1>1, <1>2, RelayCases
  <2>4. toClient' \subseteq Clients \X given'
    <3>1. \/ toClient' = toClient
          \/ toClient' = toClient \cup {<<x[1], a>>} /\ a \in given'
      BY <1>2, RelayCases
    <3>2. toClient \subseteq Clients \X given'
      BY <2>3 DEF TypeOK
    <3> QED
      BY <2>2, <3>1, <3>2
  <2>5. /\ UNCHANGED <<calls, result, mem, pc, host, library, status, fromBoard>>
        /\ toRelay' \subseteq toRelay /\ dups' \in Nat /\ cur' \in Clients \X Nat
        /\ rpc' \in {"recv", "board", "ended"} /\ stale' \in {"none", "plain", "hop"}
    BY <1>2, <2>2, RelayCases DEF TypeOK
  <2>6. cur' # <<>>
    <3>1. \A n, k : <<n, k>> # <<>>
      OBVIOUS
    <3> QED
      BY <1>2, <2>2, <3>1, RelayCases
  <2> HIDE DEF a
  <2>7. /\ toBoard' \subseteq Clients \X Nat \X Nat /\ toRelay' \subseteq Clients \X Nat
        /\ fromBoard' \subseteq Nat \X given' /\ given' \subseteq Answers
    <3>1. given' \subseteq Answers
      BY <2>1, <2>3 DEF TypeOK
    <3>2. toRelay' \subseteq Clients \X Nat
      BY <2>5 DEF TypeOK
    <3>3. fromBoard' \subseteq Nat \X given'
      BY <2>3, <2>5 DEF TypeOK
    <3>4. <<x[1], x[2], hops + 1>> \in Clients \X Nat \X Nat
      BY <1>1, <2>2
    <3>5. toBoard' \subseteq Clients \X Nat \X Nat
      BY <2>3, <3>4 DEF TypeOK
    <3> QED
      BY <3>1, <3>2, <3>3, <3>5
  <2>8. TypeOK'
    BY <2>3, <2>4, <2>5, <2>6, <2>7 DEF TypeOK
  <2>9. \A y \in toBoard' : y[2] \in 1..Len(calls[y[1]]) /\ y[3] <= hops'
    <3>1. \A y \in toBoard : y[2] \in 1..Len(calls[y[1]]) /\ y[3] <= hops'
      BY <1>1, <2>3 DEF Known, TypeOK
    <3>2. hops' = hops + 1 =>
            LET y == <<x[1], x[2], hops + 1>> IN y[2] \in 1..Len(calls[y[1]]) /\ y[3] <= hops'
      BY <1>1, <2>2
    <3> QED
      BY <2>3, <3>1, <3>2
  <2>10. \A y \in fromBoard : y[1] \in 1..hops'
    BY <1>1, <2>3 DEF Known, TypeOK
  <2>11. \A b \in given' : b.from \in Clients \X Nat /\ b.from[2] \in 1..Len(calls[b.from[1]])
    <3>1. a.from \in Clients \X Nat /\ a.from[2] \in 1..Len(calls[a.from[1]])
      BY <2>2 DEF a
    <3> QED
      BY <2>3, <3>1 DEF Known
  <2>12. Known'
    BY <2>5, <2>9, <2>10, <2>11 DEF Known
  <2> QED
    BY <2>8, <2>12
<1>3. ASSUME NEW x \in fromBoard, RelayForwards(x) PROVE TInv'
  <2>1. /\ x[2] \in given /\ cur[1] \in Clients
        /\ fromBoard' \subseteq fromBoard /\ dups' \in Nat
        /\ toClient' = toClient \cup {<<cur[1], x[2]>>} /\ rpc' = "recv"
        /\ UNCHANGED <<calls, result, mem, given, pc, host, library, status, toBoard, toRelay,
                       stale, cur, hops>>
    BY <1>3 DEF RelayForwards, Take, Served, TypeOK, busvars, clientvars
  <2>2. TypeOK'
    <3>1. <<cur[1], x[2]>> \in Clients \X given
      BY <2>1
    <3>2. toClient' \subseteq Clients \X given' /\ fromBoard' \subseteq Nat \X given'
      BY <2>1, <3>1 DEF TypeOK
    <3> QED
      BY <2>1, <3>2 DEF TypeOK
  <2>3. Known'
    BY <2>1 DEF Known
  <2> QED
    BY <2>2, <2>3
<1>4. CASE RelayIdles
  <2>1. TypeOK'
    BY <1>1, <1>4 DEF RelayIdles, busvars, clientvars, netvars, TypeOK
  <2>2. Known'
    BY <1>1, <1>4 DEF RelayIdles, busvars, clientvars, netvars, TypeOK, Known
  <2> QED
    BY <2>1, <2>2
<1>5. CASE RelayGivesUp
  <2>1. TypeOK'
    BY <1>5 DEF RelayGivesUp, busvars, clientvars, netvars, TypeOK
  <2>2. Known'
    BY <1>5 DEF RelayGivesUp, busvars, clientvars, netvars, Known
  <2> QED
    BY <2>1, <2>2
<1> QED
  BY <1>2, <1>3, <1>4, <1>5

LEMMA StutterTyped == ASSUME TInv, UNCHANGED vars PROVE TInv'
<1>1. TypeOK'
  BY DEF TInv, vars, busvars, clientvars, netvars, relayvars, TypeOK
<1>2. Known'
  BY DEF TInv, vars, busvars, clientvars, netvars, relayvars, Known
<1> QED
  BY <1>1, <1>2 DEF TInv

LEMMA StepTyped == TInv /\ [Next]_vars => TInv'
BY ClientTyped, BoardTyped, RelayTyped, StutterTyped DEF Next

\* Types of the clients, the board, the relay and the datagrams.
THEOREM RbcpTyping == Spec => []TypeOK
<1>1. Spec => []TInv
  BY InitTyped, StepTyped, PTL DEF Spec
<1>2. TInv => TypeOK
  BY DEF TInv
<1> QED
  BY <1>1, <1>2, PTL
-----------------------------------------------------------------------------
\* What is under way on the socket the relay has open is its current call, and what
\* is under way to a client is for it.
Mine ==
  /\ \A x \in toClient : x[2].from[1] = x[1]
  /\ rpc = "board" =>
       /\ hops >= 1
       /\ \A x \in toBoard : x[3] = hops => <<x[1], x[2]>> = cur
       /\ \A x \in fromBoard : x[1] = hops => x[2].from = cur

LEMMA MineStep == TInv /\ Mine /\ [Next]_vars => Mine'
<1> SUFFICES ASSUME TInv, Mine, [Next]_vars PROVE Mine'
  OBVIOUS
<1>1. hops \in Nat /\ toBoard \subseteq Clients \X Nat \X Nat
  BY DEF TInv, TypeOK
<1>2. ASSUME NEW c \in Clients,
             Open(c) \/ OpenFails(c) \/ Call(c) \/ Refuse(c) \/ Receive(c) \/ Timeout(c)
      PROVE  Mine'
  <2>1. /\ toBoard' \subseteq toBoard \cup {<<c, Len(calls[c]) + 1, 0>>}
        /\ toClient' \subseteq toClient
        /\ UNCHANGED <<fromBoard, rpc, cur, hops>>
    BY <1>2 DEF Open, OpenFails, Call, Send, Refuse, Receive, Take, Timeout, netvars, relayvars
  <2>2. <<c, Len(calls[c]) + 1, 0>>[3] = 0
    OBVIOUS
  <2> QED
    BY <1>1, <2>1, <2>2 DEF Mine
<1>3. ASSUME NEW x \in toBoard, Serve(x) PROVE Mine'
  <2> DEFINE a == [from |-> <<x[1], x[2]>>, data |-> Payload(x)]
  <2>1. /\ toBoard' \subseteq toBoard /\ UNCHANGED <<rpc, cur, hops>>
        /\ \/ toClient' = toClient \cup {<<x[1], a>>} /\ fromBoard' = fromBoard
           \/ toClient' = toClient /\ fromBoard' = fromBoard \cup {<<x[3], a>>}
    BY <1>3 DEF Serve, Take, relayvars
  <2>2. a.from = <<x[1], x[2]>>
    OBVIOUS
  <2> HIDE DEF a
  <2>3. \A y \in toClient' : y[2].from[1] = y[1]
    BY <2>1, <2>2 DEF Mine
  <2>4. rpc = "board" => \A y \in fromBoard' : y[1] = hops => y[2].from = cur
    BY <2>1, <2>2 DEF Mine
  <2> QED
    BY <2>1, <2>3, <2>4 DEF Mine
<1>4. ASSUME NEW x \in toRelay, RelayTakes(x) PROVE Mine'
  <2> DEFINE a == [from |-> x, data |-> Returned(x[1], x[2])]
  <2>1. a.from = x /\ x = <<x[1], x[2]>> /\ cur' = x /\ fromBoard' = fromBoard
    BY <1>4, RelayCases
  <2>2. \/ toClient' = toClient \cup {<<x[1], a>>} /\ rpc' = "recv"
        \/ /\ toClient' = toClient /\ rpc' = "board" /\ hops' = hops + 1
           /\ toBoard' = toBoard \cup {<<x[1], x[2], hops + 1>>}
        \/ toClient' = toClient /\ rpc' # "board"
    BY <1>4, RelayCases
  <2> HIDE DEF a
  <2>3. \A y \in toClient' : y[2].from[1] = y[1]
    BY <2>1, <2>2 DEF Mine
  <2>4. ASSUME rpc' = "board"
        PROVE  /\ hops' >= 1
               /\ \A y \in toBoard' : y[3] = hops' => <<y[1], y[2]>> = cur'
               /\ \A y \in fromBoard' : y[1] = hops' => y[2].from = cur'
    <3>1. hops' = hops + 1 /\ toBoard' = toBoard \cup {<<x[1], x[2], hops + 1>>}
      BY <2>2, <2>4
    <3>2. \A y \in toBoard : y[3] \in Nat /\ y[3] <= hops
      BY <1>1 DEF TInv, Known
    <3>3. \A y \in fromBoard : y[1] \in 1..hops
      BY DEF TInv, Known
    <3> QED
      BY <1>1, <2>1, <3>1, <3>2, <3>3
  <2> QED
    BY <2>3, <2>4 DEF Mine
<1>5. ASSUME NEW x \in fromBoard, RelayForwards(x) PROVE Mine'
  <2>1. /\ x[2].from = cur /\ toClient' = toClient \cup {<<cur[1], x[2]>>} /\ rpc' = "recv"
    BY <1>5 DEF RelayForwards, OnSocket, Served, Mine
  <2> QED
    BY <2>1 DEF Mine
<1>6. CASE RelayIdles \/ RelayGivesUp
  BY <1>6 DEF RelayIdles, RelayGivesUp, netvars, Mine
<1>7. CASE UNCHANGED vars
  BY <1>7 DEF vars, netvars, relayvars, Mine
<1> QED
  BY <1>2, <1>3, <1>4, <1>5, <1>6, <1>7 DEF Next

\* What the relay sends a client is always for that client.
THEOREM NeverMixes == Spec => []RelayNeverMixes
<1>1. Init => Mine
  BY DEF Init, Mine
<1>2. Mine => RelayNeverMixes
  BY DEF Mine, RelayNeverMixes
<1>3. Spec => [](TInv /\ Mine)
  BY <1>1, InitTyped, StepTyped, MineStep, PTL DEF Spec
<1> QED
  BY <1>2, <1>3, PTL
-----------------------------------------------------------------------------
\* What the clients do to the bus.
LEMMA ClientOnBus ==
  ASSUME TInv, Mine, NEW c \in Clients,
         Open(c) \/ OpenFails(c) \/ Call(c) \/ Refuse(c) \/ Receive(c) \/ Timeout(c)
  PROVE  Ask(c) \/ AskInVain(c) \/ Answer(c) \/ Fail(c) \/ UNCHANGED busvars
<1>1. /\ Len(calls[c]) = Len(result[c]) + (IF pc[c] = "wait" THEN 1 ELSE 0)
      /\ Len(result[c]) \in Nat /\ result[c] \in Seq(Answers)
  BY LenProperties DEF TInv, TypeOK
<1>2. CASE Open(c) \/ OpenFails(c)
  BY <1>2 DEF Open, OpenFails
<1>3. CASE Call(c)
  <2>1. pc[c] # "wait"
    BY <1>3 DEF Call
  <2>2. \E q \in Requests : calls' = [calls EXCEPT ![c] = Append(@, q)]
    BY <1>3 DEF Call
  <2>3. UNCHANGED <<result, mem, given>>
    BY <1>3 DEF Call
  <2>4. Len(calls[c]) = Len(result[c])
    BY <1>1, <2>1
  <2> QED
    BY <2>2, <2>3, <2>4 DEF Ask
<1>4. CASE Refuse(c)
  <2>1. pc[c] # "wait"
    BY <1>4 DEF Refuse
  <2>2. \E q \in Requests : calls' = [calls EXCEPT ![c] = Append(@, q)]
    BY <1>4 DEF Refuse
  <2>3. result' = [result EXCEPT ![c] = Append(@, Error)] /\ UNCHANGED <<mem, given>>
    BY <1>4 DEF Refuse
  <2>4. Len(calls[c]) = Len(result[c])
    BY <1>1, <2>1
  <2> QED
    BY <2>2, <2>3, <2>4 DEF AskInVain
<1>5. CASE Receive(c)
  <2>1. PICK x \in toClient : x[1] = c /\ result' = [result EXCEPT ![c] = Append(@, x[2])]
    BY <1>5 DEF Receive
  <2>2. x[2] \in given /\ x[2].from[1] = c
    BY <2>1 DEF TInv, TypeOK, Mine
  <2>3. Waiting(c)
    BY <1>1, <1>5 DEF Receive, Waiting
  <2> QED
    BY <1>5, <2>1, <2>2, <2>3 DEF Receive, Answer
<1>6. CASE Timeout(c)
  <2>1. Waiting(c)
    BY <1>1, <1>6 DEF Timeout, Waiting
  <2> QED
    BY <1>6, <2>1 DEF Timeout, NoAnswer, Fail
<1> QED
  BY <1>2, <1>3, <1>4, <1>5, <1>6

\* Every step of clients, board and relay is a step of the bus, or none.
LEMMA StepOnBus == TInv /\ Mine /\ [Next]_vars => [BusNext]_busvars
<1> SUFFICES ASSUME TInv, Mine, [Next]_vars PROVE [BusNext]_busvars
  OBVIOUS
<1>1. ASSUME NEW c \in Clients, NEW k \in 1..Len(calls[c]) PROVE k \in DOMAIN calls[c]
  <2>1. calls[c] \in Seq(Requests)
    BY DEF TInv, TypeOK
  <2> QED
    BY <2>1
<1>2. ASSUME NEW c \in Clients,
             Open(c) \/ OpenFails(c) \/ Call(c) \/ Refuse(c) \/ Receive(c) \/ Timeout(c)
      PROVE  [BusNext]_busvars
  BY <1>2, ClientOnBus DEF BusNext
<1>3. ASSUME NEW x \in toBoard, Serve(x) PROVE [BusNext]_busvars
  <2>1. x[1] \in Clients /\ x[2] \in 1..Len(calls[x[1]])
    BY DEF TInv, TypeOK, Known
  <2>2. Perform(x[1], x[2])
    BY <1>3 DEF Serve, RegMem, Payload, Perform
  <2>3. x[2] \in DOMAIN calls[x[1]]
    BY <1>1, <2>1
  <2> QED
    BY <2>1, <2>2, <2>3 DEF BusNext
<1>4. ASSUME NEW x \in toRelay, RelayTakes(x) PROVE [BusNext]_busvars
  <2>1. x[1] \in Clients /\ x[2] \in 1..Len(calls[x[1]]) /\ x = <<x[1], x[2]>>
    BY <1>4, RelayCases
  <2>2. x[2] \in DOMAIN calls[x[1]]
    BY <1>1, <2>1
  <2>3. UNCHANGED <<calls, result, mem>>
    BY <1>4, RelayCases
  <2>4. \/ given' = given
        \/ given' = given \cup {[from |-> <<x[1], x[2]>>, data |-> Returned(x[1], x[2])]}
    BY <1>4, <2>1, RelayCases
  <2>5. Reflect(x[1], x[2]) \/ UNCHANGED busvars
    BY <2>3, <2>4 DEF Reflect, busvars
  <2> QED
    BY <2>1, <2>2, <2>5 DEF BusNext
<1>5. ASSUME NEW x \in fromBoard, RelayForwards(x) PROVE [BusNext]_busvars
  BY <1>5 DEF RelayForwards
<1>6. CASE RelayIdles \/ RelayGivesUp
  BY <1>6 DEF RelayIdles, RelayGivesUp
<1>7. CASE UNCHANGED vars
  BY <1>7 DEF vars
<1> QED
  BY <1>2, <1>3, <1>4, <1>5, <1>6, <1>7 DEF Next

\* The clients, the relay and the board implement the register bus, over a network
\* that loses, delays, reorders and repeats.
THEOREM ImplementsBus == Spec => BusSpec
<1>1. Init => BusInit /\ Mine
  BY DEF Init, Mine
<1> QED
  BY <1>1, InitTyped, StepTyped, MineStep, StepOnBus, PTL DEF Spec, BusSpec
-----------------------------------------------------------------------------
\* Where a call's datagram or its answer is: <<call, place, what>>.  As long as the
\* network repeats nothing a call is in one place at most.
Answered ==
  {p \in Clients \X Nat : p[2] \in 1..Len(result[p[1]]) /\ result[p[1]][p[2]].from # <<>>}
BoardTokens == {<<<<x[1], x[2]>>, "toBoard", x>> : x \in toBoard}
RelayTokens == {<<x, "toRelay", x>> : x \in toRelay}
BackTokens == {<<x[2].from, "fromBoard", x>> : x \in fromBoard}
ClientTokens == {<<x[2].from, "toClient", x>> : x \in toClient}
DoneTokens == {<<result[p[1]][p[2]].from, "result", p>> : p \in Answered}
Tokens == BoardTokens \cup RelayTokens \cup BackTokens \cup ClientTokens \cup DoneTokens

Once == dups = 0 => \A s, t \in Tokens : s[1] = t[1] => s = t

\* A finished call ended with an error or with something the board or the relay gave.
ResultsGiven == \A c \in Clients : \A j \in 1..Len(result[c]) : result[c][j] \in given \cup {Error}

LEMMA ResultsStep == TInv /\ ResultsGiven /\ [Next]_vars => ResultsGiven'
<1> SUFFICES ASSUME TInv, ResultsGiven, [Next]_vars PROVE ResultsGiven'
  OBVIOUS
<1>1. result \in [Clients -> Seq(Answers)] /\ \A c \in Clients : Len(result[c]) \in Nat
  BY LenProperties DEF TInv, TypeOK
<1>2. given \subseteq given'
  BY RelayCases DEF Next, Open, OpenFails, Call, Refuse, Receive, Timeout, Serve, RelayForwards,
     RelayIdles, RelayGivesUp, busvars, vars
<1>3. \/ result' = result
      \/ \E c \in Clients : \E t \in given \cup {Error} : result' = [result EXCEPT ![c] = Append(@, t)]
  <2>1. ASSUME NEW c \in Clients, Receive(c)
        PROVE  \E t \in given \cup {Error} : result' = [result EXCEPT ![c] = Append(@, t)]
    BY <2>1 DEF Receive, TInv, TypeOK
  <2> QED
    BY <2>1, RelayCases DEF Next, Open, OpenFails, Call, Refuse, Timeout, NoAnswer, Serve,
       RelayForwards, RelayIdles, RelayGivesUp, busvars, vars
<1>4. CASE result' = result
  BY <1>2, <1>4 DEF ResultsGiven
<1>5. ASSUME NEW c \in Clients, NEW t \in given \cup {Error},
             result' = [result EXCEPT ![c] = Append(@, t)]
      PROVE  ResultsGiven'
  <2>1. t \in Answers
    BY ErrorAnswer DEF TInv, TypeOK
  <2>2. /\ Len(result'[c]) = Len(result[c]) + 1
        /\ result'[c][Len(result[c]) + 1] = t
        /\ \A j \in 1..Len(result[c]) : result'[c][j] = result[c][j]
        /\ \A x \in Clients : x # c => result'[x] = result[x]
    BY <1>1, <1>5, <2>1, Longer
  <2>3. \A j \in 1..Len(result'[c]) : result'[c][j] \in given \cup {Error}
    BY <1>1, <2>2 DEF ResultsGiven
  <2> QED
    BY <1>2, <2>2, <2>3 DEF ResultsGiven
<1> QED
  BY <1>3, <1>4, <1>5

\* A token is about a call that was made.
LEMMA TokensKnown ==
  ASSUME TInv, ResultsGiven
  PROVE  \A t \in Tokens : t[1] \in Clients \X Nat /\ t[1][2] \in 1..Len(calls[t[1][1]])
<1>1. \A t \in BoardTokens \cup RelayTokens :
        t[1] \in Clients \X Nat /\ t[1][2] \in 1..Len(calls[t[1][1]])
  BY DEF BoardTokens, RelayTokens, TInv, TypeOK, Known
<1>2. \A t \in BackTokens \cup ClientTokens :
        t[1] \in Clients \X Nat /\ t[1][2] \in 1..Len(calls[t[1][1]])
  BY DEF BackTokens, ClientTokens, TInv, TypeOK, Known
<1>3. ASSUME NEW t \in DoneTokens
      PROVE  t[1] \in Clients \X Nat /\ t[1][2] \in 1..Len(calls[t[1][1]])
  <2>1. PICK p \in Answered : t[1] = result[p[1]][p[2]].from
    BY <1>3 DEF DoneTokens
  <2>2. result[p[1]][p[2]] \in given
    BY <2>1 DEF Answered, ResultsGiven, Error
  <2> QED
    BY <2>1, <2>2 DEF TInv, Known
<1> QED
  BY <1>1, <1>2, <1>3 DEF Tokens

\* One that leaves its place for another, and one that comes into being.
Moves(s, t) == s \in Tokens /\ t[1] = s[1] /\ Tokens' \subseteq (Tokens \ {s}) \cup {t}
Appears(t) == (\A s \in Tokens : s[1] # t[1]) /\ Tokens' \subseteq Tokens \cup {t}

LEMMA ClientTokensMove ==
  ASSUME TInv, ResultsGiven, dups' = 0, NEW c \in Clients,
         Open(c) \/ OpenFails(c) \/ Call(c) \/ Refuse(c) \/ Receive(c) \/ Timeout(c)
  PROVE  Tokens' \subseteq Tokens \/ (\E s, t : Moves(s, t)) \/ (\E t : Appears(t))
<1>1. /\ result \in [Clients -> Seq(Answers)] /\ dups \in Nat
      /\ \A x \in Clients : Len(result[x]) \in Nat /\ Len(calls[x]) \in Nat
  BY LenProperties DEF TInv, TypeOK
<1>2. CASE Open(c) \/ OpenFails(c)
  BY <1>2 DEF Open, OpenFails, busvars, netvars, Tokens, BoardTokens, RelayTokens, BackTokens,
     ClientTokens, DoneTokens, Answered
<1>3. CASE Call(c)
  <2> DEFINE k == Len(calls[c]) + 1
             i == <<c, k>>
  <2>1. UNCHANGED <<result, fromBoard, toClient>>
    BY <1>3 DEF Call
  <2>2. UNCHANGED <<BackTokens, ClientTokens, DoneTokens>>
    BY <2>1 DEF BackTokens, ClientTokens, DoneTokens, Answered
  <2>3. \A s \in Tokens : s[1] # i
    BY <1>1, TokensKnown
  <2>4. CASE toRelay' = toRelay \cup {i} /\ toBoard' = toBoard
    <3>1. BoardTokens' = BoardTokens /\ RelayTokens' = RelayTokens \cup {<<i, "toRelay", i>>}
      BY <2>4 DEF BoardTokens, RelayTokens
    <3>2. Appears(<<i, "toRelay", i>>)
      BY <2>2, <2>3, <3>1 DEF Appears, Tokens
    <3> QED
      BY <3>2
  <2>5. CASE toBoard' = toBoard \cup {<<c, k, 0>>} /\ toRelay' = toRelay
    <3>1. RelayTokens' = RelayTokens /\ BoardTokens' = BoardTokens \cup {<<i, "toBoard", <<c, k, 0>>>>}
      BY <2>5 DEF BoardTokens, RelayTokens
    <3>2. Appears(<<i, "toBoard", <<c, k, 0>>>>)
      BY <2>2, <2>3, <3>1 DEF Appears, Tokens
    <3> QED
      BY <3>2
  <2> QED
    BY <1>3, <2>4, <2>5 DEF Call, Send
<1>4. ASSUME NEW t \in Answers, result' = [result EXCEPT ![c] = Append(@, t)]
      PROVE  /\ t.from = <<>> => DoneTokens' = DoneTokens
             /\ DoneTokens' \subseteq DoneTokens \cup {<<t.from, "result", <<c, Len(result[c]) + 1>>>>}
  <2> DEFINE q == <<c, Len(result[c]) + 1>>
  <2>1. /\ Len(result'[c]) = Len(result[c]) + 1
        /\ result'[c][Len(result[c]) + 1] = t
        /\ \A j \in 1..Len(result[c]) : result'[c][j] = result[c][j]
        /\ \A x \in Clients : x # c => result'[x] = result[x]
    BY <1>1, <1>4, Longer
  <2>2. ASSUME NEW p \in Clients \X Nat, p[2] \in 1..Len(result[p[1]])
        PROVE  p[2] \in 1..Len(result'[p[1]]) /\ result'[p[1]][p[2]] = result[p[1]][p[2]]
    BY <1>1, <2>1, <2>2
  <2>3. ASSUME NEW p \in Clients \X Nat, p[2] \in 1..Len(result'[p[1]])
        PROVE  p[2] \in 1..Len(result[p[1]]) \/ (p = q /\ result'[p[1]][p[2]] = t)
    <3>1. p = <<p[1], p[2]>> /\ p[1] \in Clients /\ p[2] \in Nat
      OBVIOUS
    <3> QED
      BY <1>1, <2>1, <2>3, <3>1
  <2>4. Answered \subseteq Answered' /\ Answered' \subseteq Answered \cup {q}
    BY <2>2, <2>3 DEF Answered
  <2>5. t.from = <<>> => Answered' = Answered
    BY <2>2, <2>3 DEF Answered
  <2>6. \A p \in Answered : result'[p[1]][p[2]].from = result[p[1]][p[2]].from
    BY <2>2 DEF Answered
  <2>7. result'[q[1]][q[2]].from = t.from
    BY <2>1
  <2> HIDE DEF q
  <2> QED
    BY <2>4, <2>5, <2>6, <2>7 DEF DoneTokens, q
<1>5. CASE Refuse(c)
  <2>1. Error \in Answers /\ Error.from = <<>>
    BY ErrorAnswer
  <2>2. DoneTokens' = DoneTokens
    BY <1>4, <1>5, <2>1 DEF Refuse
  <2> QED
    BY <1>5, <2>2 DEF Refuse, netvars, Tokens, BoardTokens, RelayTokens, BackTokens, ClientTokens
<1>6. CASE Receive(c)
  <2>1. PICK x \in toClient : Take(toClient, x, toClient') /\ result' = [result EXCEPT ![c] = Append(@, x[2])]
    BY <1>6 DEF Receive
  <2>2. toClient' = toClient \ {x}
    BY <1>1, <2>1 DEF Take
  <2>3. x[2] \in Answers
    BY DEF TInv, TypeOK
  <2> DEFINE s == <<x[2].from, "toClient", x>>
             t == <<x[2].from, "result", <<c, Len(result[c]) + 1>>>>
  <2>4. s \in ClientTokens /\ ClientTokens' \subseteq ClientTokens \ {s}
    BY <2>2 DEF ClientTokens
  <2>5. DoneTokens' \subseteq DoneTokens \cup {t}
    BY <1>4, <2>1, <2>3
  <2>6. BoardTokens' = BoardTokens /\ RelayTokens' = RelayTokens /\ BackTokens' = BackTokens
    BY <1>6 DEF Receive, BoardTokens, RelayTokens, BackTokens
  <2>7. s[1] = t[1] /\ s \notin BoardTokens \cup RelayTokens \cup BackTokens \cup DoneTokens
    BY DEF BoardTokens, RelayTokens, BackTokens, DoneTokens
  <2> HIDE DEF s, t
  <2>8. Moves(s, t)
    BY <2>4, <2>5, <2>6, <2>7 DEF Moves, Tokens
  <2> QED
    BY <2>8
<1>7. CASE Timeout(c)
  <2>1. Error \in Answers /\ Error.from = <<>>
    BY ErrorAnswer
  <2>2. DoneTokens' = DoneTokens
    BY <1>4, <1>7, <2>1 DEF Timeout, NoAnswer
  <2> QED
    BY <1>7, <2>2 DEF Timeout, netvars, Tokens, BoardTokens, RelayTokens, BackTokens, ClientTokens
<1> QED
  BY <1>2, <1>3, <1>5, <1>6, <1>7

LEMMA BoardTokensMove ==
  ASSUME TInv, dups' = 0, NEW x \in toBoard, Serve(x)
  PROVE  \E s, t : Moves(s, t)
<1> DEFINE i == <<x[1], x[2]>>
           a == [from |-> i, data |-> Payload(x)]
           s == <<i, "toBoard", x>>
<1>1. toBoard' = toBoard \ {x} /\ UNCHANGED <<result, toRelay>>
  BY DEF Serve, Take, TInv, TypeOK
<1>2. \/ toClient' = toClient \cup {<<x[1], a>>} /\ fromBoard' = fromBoard
      \/ toClient' = toClient /\ fromBoard' = fromBoard \cup {<<x[3], a>>}
  BY DEF Serve
<1>3. s \in BoardTokens /\ BoardTokens' \subseteq BoardTokens \ {s}
  BY <1>1 DEF BoardTokens
<1>4. RelayTokens' = RelayTokens /\ DoneTokens' = DoneTokens
  BY <1>1 DEF RelayTokens, DoneTokens, Answered
<1>5. s \notin RelayTokens \cup BackTokens \cup ClientTokens \cup DoneTokens
  BY DEF RelayTokens, BackTokens, ClientTokens, DoneTokens
<1>6. a.from = i
  OBVIOUS
<1> HIDE DEF a
<1>7. CASE toClient' = toClient \cup {<<x[1], a>>} /\ fromBoard' = fromBoard
  <2>1. BackTokens' = BackTokens /\ ClientTokens' = ClientTokens \cup {<<i, "toClient", <<x[1], a>>>>}
    BY <1>6, <1>7 DEF BackTokens, ClientTokens
  <2>2. Moves(s, <<i, "toClient", <<x[1], a>>>>)
    BY <1>3, <1>4, <1>5, <2>1 DEF Moves, Tokens
  <2> QED
    BY <2>2
<1>8. CASE toClient' = toClient /\ fromBoard' = fromBoard \cup {<<x[3], a>>}
  <2>1. ClientTokens' = ClientTokens /\ BackTokens' = BackTokens \cup {<<i, "fromBoard", <<x[3], a>>>>}
    BY <1>6, <1>8 DEF BackTokens, ClientTokens
  <2>2. Moves(s, <<i, "fromBoard", <<x[3], a>>>>)
    BY <1>3, <1>4, <1>5, <2>1 DEF Moves, Tokens
  <2> QED
    BY <2>2
<1> QED
  BY <1>2, <1>7, <1>8

LEMMA RelayTokensMove ==
  ASSUME TInv, dups' = 0,
         \/ \E x \in toRelay : RelayTakes(x)
         \/ \E x \in fromBoard : RelayForwards(x)
         \/ RelayIdles \/ RelayGivesUp
  PROVE  Tokens' \subseteq Tokens \/ \E s, t : Moves(s, t)
<1>1. ASSUME NEW x \in toRelay, RelayTakes(x)
      PROVE  Tokens' \subseteq Tokens \/ \E s, t : Moves(s, t)
  <2> DEFINE a == [from |-> x, data |-> Returned(x[1], x[2])]
             s == <<x, "toRelay", x>>
  <2>1. toRelay' = toRelay \ {x}
    BY <1>1 DEF RelayTakes, Take, TInv, TypeOK
  <2>2. UNCHANGED <<result, fromBoard>> /\ x = <<x[1], x[2]>>
    BY <1>1, RelayCases
  <2>3. /\ s \in RelayTokens /\ RelayTokens' \subseteq RelayTokens \ {s}
        /\ BackTokens' = BackTokens /\ DoneTokens' = DoneTokens
    BY <2>1, <2>2 DEF RelayTokens, BackTokens, DoneTokens, Answered
  <2>4. s \notin BoardTokens \cup BackTokens \cup ClientTokens \cup DoneTokens
    BY DEF BoardTokens, BackTokens, ClientTokens, DoneTokens
  <2>5. \/ toClient' = toClient \cup {<<x[1], a>>} /\ toBoard' = toBoard
        \/ toClient' = toClient /\ toBoard' = toBoard \cup {<<x[1], x[2], hops + 1>>}
        \/ toClient' = toClient /\ toBoard' = toBoard
    BY <1>1, RelayCases
  <2>6. a.from = x
    OBVIOUS
  <2> HIDE DEF a
  <2>7. CASE toClient' = toClient \cup {<<x[1], a>>} /\ toBoard' = toBoard
    <3>1. BoardTokens' = BoardTokens /\ ClientTokens' = ClientTokens \cup {<<x, "toClient", <<x[1], a>>>>}
      BY <2>6, <2>7 DEF BoardTokens, ClientTokens
    <3>2. Moves(s, <<x, "toClient", <<x[1], a>>>>)
      BY <2>3, <2>4, <3>1 DEF Moves, Tokens
    <3> QED
      BY <3>2
  <2>8. CASE toClient' = toClient /\ toBoard' = toBoard \cup {<<x[1], x[2], hops + 1>>}
    <3> DEFINE t == <<x, "toBoard", <<x[1], x[2], hops + 1>>>>
    <3>1. ClientTokens' = ClientTokens /\ BoardTokens' = BoardTokens \cup {t}
      BY <2>2, <2>8 DEF BoardTokens, ClientTokens
    <3>2. Moves(s, t)
      BY <2>3, <2>4, <3>1 DEF Moves, Tokens
    <3> QED
      BY <3>2
  <2>9. CASE toClient' = toClient /\ toBoard' = toBoard
    <3>1. ClientTokens' = ClientTokens /\ BoardTokens' = BoardTokens
      BY <2>9 DEF BoardTokens, ClientTokens
    <3> QED
      BY <2>3, <3>1 DEF Tokens
  <2> QED
    BY <2>5, <2>7, <2>8, <2>9
<1>2. ASSUME NEW x \in fromBoard, RelayForwards(x) PROVE \E s, t : Moves(s, t)
  <2> DEFINE s == <<x[2].from, "fromBoard", x>>
             t == <<x[2].from, "toClient", <<cur[1], x[2]>>>>
  <2>1. fromBoard' = fromBoard \ {x}
    BY <1>2 DEF RelayForwards, Take, TInv, TypeOK
  <2>2. toClient' = toClient \cup {<<cur[1], x[2]>>} /\ UNCHANGED <<result, toBoard, toRelay>>
    BY <1>2 DEF RelayForwards, busvars
  <2>3. /\ s \in BackTokens /\ BackTokens' \subseteq BackTokens \ {s}
        /\ ClientTokens' = ClientTokens \cup {t}
    BY <2>1, <2>2 DEF BackTokens, ClientTokens
  <2>4. BoardTokens' = BoardTokens /\ RelayTokens' = RelayTokens /\ DoneTokens' = DoneTokens
    BY <2>2 DEF BoardTokens, RelayTokens, DoneTokens, Answered
  <2>5. s \notin BoardTokens \cup RelayTokens \cup ClientTokens \cup DoneTokens /\ s[1] = t[1]
    BY DEF BoardTokens, RelayTokens, ClientTokens, DoneTokens
  <2> HIDE DEF s, t
  <2>6. Moves(s, t)
    BY <2>3, <2>4, <2>5 DEF Moves, Tokens
  <2> QED
    BY <2>6
<1>3. CASE RelayIdles \/ RelayGivesUp
  BY <1>3 DEF RelayIdles, RelayGivesUp, busvars, netvars, Tokens, BoardTokens, RelayTokens,
     BackTokens, ClientTokens, DoneTokens, Answered
<1> QED
  BY <1>1, <1>2, <1>3

\* The network does not take a repetition back.
LEMMA DupsGrow == ASSUME TInv, [Next]_vars, dups' = 0 PROVE dups = 0
<1>1. dups \in Nat
  BY DEF TInv, TypeOK
<1>2. dups' = dups \/ dups' = dups + 1
  BY DEF Next, Open, OpenFails, Call, Refuse, Receive, Timeout, Serve, RelayTakes,
     RelayForwards, RelayIdles, RelayGivesUp, Take, vars
<1> QED
  BY <1>1, <1>2

LEMMA OnceStep == TInv /\ ResultsGiven /\ Once /\ [Next]_vars => Once'
<1> SUFFICES ASSUME TInv, ResultsGiven, Once, [Next]_vars, dups' = 0
             PROVE  \A s, t \in Tokens' : s[1] = t[1] => s = t
  BY DEF Once
<1>1. \A s, t \in Tokens : s[1] = t[1] => s = t
  BY DupsGrow DEF Once
<1>2. Tokens' \subseteq Tokens \/ (\E s, t : Moves(s, t)) \/ (\E t : Appears(t))
  <2>1. CASE UNCHANGED vars
    BY <2>1 DEF vars, busvars, netvars, Tokens, BoardTokens, RelayTokens, BackTokens, ClientTokens,
       DoneTokens, Answered
  <2> QED
    BY <2>1, ClientTokensMove, BoardTokensMove, RelayTokensMove DEF Next
<1>3. ASSUME NEW s, NEW t, Moves(s, t) PROVE \A u, v \in Tokens' : u[1] = v[1] => u = v
  BY <1>1, <1>3 DEF Moves
<1>4. ASSUME NEW t, Appears(t) PROVE \A u, v \in Tokens' : u[1] = v[1] => u = v
  BY <1>1, <1>4 DEF Appears
<1> QED
  BY <1>1, <1>2, <1>3, <1>4

LEMMA OwnStep ==
  TInv /\ Mine /\ ResultsGiven /\ Once /\ OwnAnswer /\ [Next]_vars => OwnAnswer'
<1> SUFFICES ASSUME TInv, Mine, ResultsGiven, Once, OwnAnswer, [Next]_vars, dups' = 0
             PROVE  \A c \in Clients : \A k \in DOMAIN result'[c] :
                      (\A j \in 1..(k - 1) : result'[c][j].from # <<>>)
                        => result'[c][k].from \in {<<>>, <<c, k>>}
  BY DEF OwnAnswer, Undisturbed
<1>1. /\ result \in [Clients -> Seq(Answers)] /\ result' \in [Clients -> Seq(Answers)]
      /\ \A x \in Clients : Len(result[x]) \in Nat /\ Len(calls[x]) \in Nat
  BY StepTyped, LenProperties DEF TInv, TypeOK
<1>2. dups = 0 /\ \A s, t \in Tokens : s[1] = t[1] => s = t
  BY DupsGrow DEF Once
<1>3. ASSUME NEW c \in Clients, NEW k \in 1..Len(result[c]),
             \A j \in 1..(k - 1) : result[c][j].from # <<>>
      PROVE  result[c][k].from \in {<<>>, <<c, k>>}
  <2>1. k \in DOMAIN result[c]
    BY <1>1
  <2> QED
    BY <1>2, <1>3, <2>1 DEF OwnAnswer, Undisturbed
<1>4. CASE result' = result
  <2>1. \A c \in Clients : DOMAIN result'[c] = 1..Len(result[c])
    BY <1>1, <1>4
  <2> QED
    BY <1>3, <1>4, <2>1
<1>5. ASSUME NEW c \in Clients, NEW t \in Answers, result' = [result EXCEPT ![c] = Append(@, t)],
             \/ t.from = <<>>
             \/ (\A j \in 1..Len(result[c]) : result[c][j].from # <<>>)
                  => t.from = <<c, Len(result[c]) + 1>>
      PROVE  \A x \in Clients : \A k \in DOMAIN result'[x] :
               (\A j \in 1..(k - 1) : result'[x][j].from # <<>>)
                 => result'[x][k].from \in {<<>>, <<x, k>>}
  <2>1. /\ Len(result'[c]) = Len(result[c]) + 1
        /\ result'[c][Len(result[c]) + 1] = t
        /\ \A j \in 1..Len(result[c]) : result'[c][j] = result[c][j]
        /\ \A x \in Clients : x # c => result'[x] = result[x]
    BY <1>1, <1>5, Longer
  <2>2. ASSUME NEW k \in 1..Len(result'[c]), \A j \in 1..(k - 1) : result'[c][j].from # <<>>
        PROVE  result'[c][k].from \in {<<>>, <<c, k>>}
    <3>1. CASE k \in 1..Len(result[c])
      <4>1. \A j \in 1..(k - 1) : j \in 1..Len(result[c])
        BY <1>1, <3>1
      <4>2. \A j \in 1..(k - 1) : result[c][j].from # <<>>
        BY <2>1, <2>2, <4>1
      <4> QED
        BY <1>3, <2>1, <3>1, <4>2
    <3>2. CASE k = Len(result[c]) + 1
      <4>1. \A j \in 1..Len(result[c]) : result[c][j].from # <<>>
        BY <1>1, <2>1, <2>2, <3>2
      <4> QED
        BY <1>5, <2>1, <3>2, <4>1
    <3> QED
      BY <1>1, <2>1, <3>1, <3>2
  <2>3. \A x \in Clients : DOMAIN result'[x] = 1..Len(result'[x])
    BY <1>1
  <2> QED
    BY <1>3, <2>1, <2>2, <2>3
<1>6. ASSUME NEW c \in Clients, Receive(c)
      PROVE  \E t \in Answers :
               /\ result' = [result EXCEPT ![c] = Append(@, t)]
               /\ (\A j \in 1..Len(result[c]) : result[c][j].from # <<>>)
                    => t.from = <<c, Len(result[c]) + 1>>
  <2>1. PICK x \in toClient : x[1] = c /\ result' = [result EXCEPT ![c] = Append(@, x[2])]
    BY <1>6 DEF Receive
  <2>2. x[2] \in Answers /\ x[2] \in given
    BY DEF TInv, TypeOK
  <2>3. x[2].from = <<c, x[2].from[2]>> /\ x[2].from[2] \in 1..(Len(result[c]) + 1)
    <3>1. x[2].from \in Clients \X Nat /\ x[2].from[2] \in 1..Len(calls[x[2].from[1]])
      BY <2>2 DEF TInv, Known
    <3>2. x[2].from[1] = c
      BY <2>1 DEF Mine
    <3>3. Len(calls[c]) = Len(result[c]) + 1
      BY <1>6 DEF Receive, TInv, TypeOK
    <3> QED
      BY <3>1, <3>2, <3>3
  <2>4. ASSUME \A j \in 1..Len(result[c]) : result[c][j].from # <<>>,
               NEW m \in 1..Len(result[c]), x[2].from = <<c, m>>
        PROVE  FALSE
    <3>1. result[c][m].from = <<c, m>>
      <4>1. \A j \in 1..(m - 1) : result[c][j].from # <<>>
        BY <1>1, <2>4
      <4> QED
        BY <1>3, <2>4, <4>1
    <3>2. <<c, m>> \in Answered
      BY <1>1, <2>4 DEF Answered
    <3>3. <<result[c][m].from, "result", <<c, m>>>> \in Tokens
      BY <3>2 DEF DoneTokens, Tokens
    <3>4. <<x[2].from, "toClient", x>> \in Tokens
      BY DEF ClientTokens, Tokens
    <3> QED
      BY <1>2, <2>4, <3>1, <3>3, <3>4
  <2>5. (\A j \in 1..Len(result[c]) : result[c][j].from # <<>>)
          => x[2].from = <<c, Len(result[c]) + 1>>
    <3>1. x[2].from[2] \in 1..Len(result[c]) \/ x[2].from[2] = Len(result[c]) + 1
      BY <1>1, <2>3
    <3> QED
      BY <2>3, <2>4, <3>1
  <2> QED
    BY <2>1, <2>2, <2>5
<1>7. Error \in Answers /\ Error.from = <<>>
  BY ErrorAnswer
<1>8. ASSUME NEW c \in Clients, Refuse(c) \/ Timeout(c)
      PROVE  result' = [result EXCEPT ![c] = Append(@, Error)]
  BY <1>8 DEF Refuse, Timeout, NoAnswer
<1>9. \/ result' = result
      \/ \E c \in Clients : Receive(c) \/ Refuse(c) \/ Timeout(c)
  BY RelayCases DEF Next, Open, OpenFails, Call, Serve, RelayForwards, RelayIdles, RelayGivesUp,
     busvars, vars
<1> QED
  BY <1>4, <1>5, <1>6, <1>7, <1>8, <1>9

LEMMA AllStep ==
  ASSUME TInv, Mine, ResultsGiven, Once, OwnAnswer, [Next]_vars
  PROVE  TInv' /\ Mine' /\ ResultsGiven' /\ Once' /\ OwnAnswer'
BY StepTyped, MineStep, ResultsStep, OnceStep, OwnStep

LEMMA InitAll == Init => TInv /\ Mine /\ ResultsGiven /\ Once /\ OwnAnswer
<1> SUFFICES ASSUME Init PROVE TInv /\ Mine /\ ResultsGiven /\ Once /\ OwnAnswer
  OBVIOUS
<1>1. /\ toBoard = {} /\ toRelay = {} /\ fromBoard = {} /\ toClient = {}
      /\ \A c \in Clients : result[c] = <<>>
  BY DEF Init, BusInit
<1>2. TInv /\ Mine
  BY <1>1, InitTyped DEF Init, Mine
<1>3. \A c \in Clients : Len(result[c]) = 0 /\ DOMAIN result[c] = {}
  <2>1. Len(<<>>) = 0 /\ DOMAIN <<>> = {}
    OBVIOUS
  <2> QED
    BY <1>1, <2>1
<1>4. Answered = {}
  BY <1>3 DEF Answered
<1>5. Tokens = {}
  BY <1>1, <1>4 DEF Tokens, BoardTokens, RelayTokens, BackTokens, ClientTokens, DoneTokens
<1> QED
  BY <1>2, <1>3, <1>5 DEF ResultsGiven, Once, OwnAnswer

\* Until a call of a client fails each of its calls gets its own answer, if the
\* network repeats nothing.
THEOREM OwnAnswers == Spec => []OwnAnswer
<1> DEFINE All == TInv /\ Mine /\ ResultsGiven /\ Once /\ OwnAnswer
<1>1. Init => All
  BY InitAll
<1>2. All /\ [Next]_vars => All'
  BY AllStep
<1>3. All => OwnAnswer
  OBVIOUS
<1> QED
  BY <1>1, <1>2, <1>3, PTL DEF Spec
-----------------------------------------------------------------------------
\* The call the relay has passed on, or has no socket for, is answered nowhere, and
\* is at the board only through the relay.
Unanswered(i) ==
  /\ \A x \in toClient : x[2].from # i
  /\ \A c \in Clients : \A j \in 1..Len(result[c]) : result[c][j].from # i
  /\ \A x \in toBoard : <<x[1], x[2]>> = i => x[3] # 0

Lost ==
  /\ cur # <<>> => cur \in Clients \X Nat /\ cur[2] \in 1..Len(calls[cur[1]])
  /\ rpc = "board" => stale = "plain"
  /\ dups = 0 /\ cur # <<>> /\ (rpc # "recv" \/ stale = "hop") => Unanswered(cur)

LEMMA LostByClient ==
  ASSUME TInv, Lost, NEW c \in Clients,
         Open(c) \/ OpenFails(c) \/ Call(c) \/ Refuse(c) \/ Receive(c) \/ Timeout(c)
  PROVE  Lost'
<1>1. /\ result \in [Clients -> Seq(Answers)]
      /\ \A x \in Clients : Len(result[x]) \in Nat /\ Len(calls[x]) \in Nat
  BY LenProperties DEF TInv, TypeOK
<1>2. /\ UNCHANGED <<cur, rpc, stale>> /\ toClient' \subseteq toClient
      /\ toBoard' \subseteq toBoard \cup {<<c, Len(calls[c]) + 1, 0>>}
  BY DEF Open, OpenFails, Call, Send, Refuse, Receive, Take, Timeout, netvars, relayvars
<1>3. \/ result' = result
      \/ \E t \in Answers : /\ result' = [result EXCEPT ![c] = Append(@, t)]
                            /\ t.from = <<>> \/ \E x \in toClient : t = x[2]
  <2>1. Error \in Answers /\ Error.from = <<>>
    BY ErrorAnswer
  <2>2. \A x \in toClient : x[2] \in Answers
    BY DEF TInv, TypeOK
  <2> QED
    BY <2>1, <2>2 DEF Open, OpenFails, Call, Refuse, Receive, Timeout, NoAnswer, busvars
<1>4. cur # <<>> => cur \in Clients \X Nat /\ cur[2] \in 1..Len(calls'[cur[1]])
  <2>1. \A x \in Clients : Len(calls'[x]) \in Nat /\ Len(calls[x]) <= Len(calls'[x])
    BY CallsGrow DEF Next
  <2> QED
    BY <1>1, <2>1 DEF Lost
<1>5. ASSUME dups' = 0, cur # <<>>, rpc # "recv" \/ stale = "hop"
      PROVE  Unanswered(cur)'
  <2>1. Unanswered(cur)
    BY <1>5, DupsGrow DEF Lost, Next
  <2>2. ASSUME NEW x \in toBoard', <<x[1], x[2]>> = cur PROVE x[3] # 0
    <3>1. <<c, Len(calls[c]) + 1>> # cur
      BY <1>1, <1>5 DEF Lost
    <3> QED
      BY <1>2, <2>1, <2>2, <3>1 DEF Unanswered
  <2>3. \A x \in Clients : \A j \in 1..Len(result'[x]) : result'[x][j].from # cur
    <3>1. CASE result' = result
      BY <2>1, <3>1 DEF Unanswered
    <3>2. ASSUME NEW t \in Answers, result' = [result EXCEPT ![c] = Append(@, t)],
                 t.from = <<>> \/ \E x \in toClient : t = x[2]
          PROVE  \A x \in Clients : \A j \in 1..Len(result'[x]) : result'[x][j].from # cur
      <4>1. /\ Len(result'[c]) = Len(result[c]) + 1
            /\ result'[c][Len(result[c]) + 1] = t
            /\ \A j \in 1..Len(result[c]) : result'[c][j] = result[c][j]
            /\ \A x \in Clients : x # c => result'[x] = result[x]
        BY <1>1, <3>2, Longer
      <4>2. t.from # cur
        BY <1>5, <2>1, <3>2 DEF Unanswered
      <4>3. \A j \in 1..Len(result'[c]) : j \in 1..Len(result[c]) \/ j = Len(result[c]) + 1
        BY <1>1, <4>1
      <4>4. \A j \in 1..Len(result'[c]) : result'[c][j].from # cur
        BY <2>1, <4>1, <4>2, <4>3 DEF Unanswered
      <4>5. ASSUME NEW x \in Clients, x # c
            PROVE  \A j \in 1..Len(result'[x]) : result'[x][j].from # cur
        BY <2>1, <4>1, <4>5 DEF Unanswered
      <4> QED
        BY <4>4, <4>5
    <3> QED
      BY <1>3, <3>1, <3>2
  <2> QED
    BY <1>2, <2>1, <2>2, <2>3 DEF Unanswered
<1> QED
  BY <1>2, <1>4, <1>5 DEF Lost

LEMMA LostStep == TInv /\ Once /\ Lost /\ [Next]_vars => Lost'
<1> SUFFICES ASSUME TInv, Once, Lost, [Next]_vars PROVE Lost'
  OBVIOUS
<1>1. ASSUME NEW x \in toBoard, Serve(x) PROVE Lost'
  <2> DEFINE a == [from |-> <<x[1], x[2]>>, data |-> Payload(x)]
  <2>1. /\ UNCHANGED <<calls, result, cur, rpc, stale>> /\ toBoard' \subseteq toBoard
        /\ x[3] = 0 => toClient' = toClient \cup {<<x[1], a>>}
        /\ x[3] # 0 => toClient' = toClient
    BY <1>1 DEF Serve, Take, relayvars
  <2>2. a.from = <<x[1], x[2]>>
    OBVIOUS
  <2> HIDE DEF a
  <2>3. ASSUME Unanswered(cur) PROVE Unanswered(cur)'
    <3>1. \A y \in toClient' : y[2].from # cur
      BY <2>1, <2>2, <2>3 DEF Unanswered
    <3> QED
      BY <2>1, <2>3, <3>1 DEF Unanswered
  <2> QED
    BY <2>1, <2>3, DupsGrow DEF Lost
<1>2. ASSUME NEW x \in toRelay, RelayTakes(x) PROVE Lost'
  <2>1. /\ x[1] \in Clients /\ x[2] \in Nat /\ x[2] \in 1..Len(calls[x[1]]) /\ x = <<x[1], x[2]>>
        /\ cur' = x /\ rpc = "recv" /\ UNCHANGED <<calls, result>>
    BY <1>2, RelayCases
  <2>2. \/ rpc' = "recv" /\ stale' = "plain"
        \/ rpc' = "board" /\ stale' = "plain" /\ toClient' = toClient
             /\ toBoard' = toBoard \cup {<<x[1], x[2], hops + 1>>}
        \/ rpc' # "board" /\ toClient' = toClient /\ toBoard' = toBoard
    BY <1>2, RelayCases
  <2>3. ASSUME dups' = 0 PROVE Unanswered(x)
    <3>1. \A t \in Tokens : t[1] = x => t = <<x, "toRelay", x>>
      <4>1. <<x, "toRelay", x>> \in Tokens
        BY DEF Tokens, RelayTokens
      <4> QED
        BY <2>3, <4>1, DupsGrow DEF Once
    <3>2. ASSUME NEW y \in toClient, y[2].from = x PROVE FALSE
      <4>1. <<y[2].from, "toClient", y>> \in Tokens
        BY DEF Tokens, ClientTokens
      <4> QED
        BY <3>1, <3>2, <4>1
    <3>3. ASSUME NEW y \in toBoard, <<y[1], y[2]>> = x PROVE FALSE
      <4>1. <<<<y[1], y[2]>>, "toBoard", y>> \in Tokens
        BY DEF Tokens, BoardTokens
      <4> QED
        BY <3>1, <3>3, <4>1
    <3>4. ASSUME NEW c \in Clients, NEW j \in 1..Len(result[c]), result[c][j].from = x PROVE FALSE
      <4>1. j \in Nat
        <5>1. Len(result[c]) \in Nat
          BY LenProperties DEF TInv, TypeOK
        <5> QED
          BY <5>1
      <4>2. x # <<>>
        <5>1. \A m, n : <<m, n>> # <<>>
          OBVIOUS
        <5> QED
          BY <2>1, <5>1
      <4>3. <<c, j>> \in Answered
        BY <3>4, <4>1, <4>2 DEF Answered
      <4>4. <<result[c][j].from, "result", <<c, j>>>> \in Tokens
        BY <4>3 DEF Tokens, DoneTokens
      <4> QED
        BY <3>1, <3>4, <4>4
    <3> QED
      BY <3>2, <3>3, <3>4 DEF Unanswered
  <2>4. hops + 1 # 0
    BY DEF TInv, TypeOK
  <2>5. ASSUME dups' = 0, rpc' # "recv" \/ stale' = "hop" PROVE Unanswered(x)'
    <3>1. toClient' = toClient /\ toBoard' \subseteq toBoard \cup {<<x[1], x[2], hops + 1>>}
      BY <2>2, <2>5
    <3> QED
      BY <2>1, <2>3, <2>4, <2>5, <3>1 DEF Unanswered
  <2>6. rpc' = "board" => stale' = "plain"
    BY <2>2
  <2>7. x \in Clients \X Nat
    BY <2>1
  <2>8. dups' = 0 /\ cur' # <<>> /\ (rpc' # "recv" \/ stale' = "hop") => Unanswered(cur)'
    BY <2>1, <2>5 DEF Unanswered
  <2> QED
    BY <2>1, <2>6, <2>7, <2>8 DEF Lost
<1>3. ASSUME NEW x \in fromBoard, RelayForwards(x) PROVE Lost'
  BY <1>3 DEF RelayForwards, Served, busvars, Lost
<1>4. CASE RelayIdles
  BY <1>4 DEF RelayIdles, busvars, netvars, Lost, Unanswered
<1>5. CASE RelayGivesUp
  BY <1>5 DEF RelayGivesUp, busvars, netvars, Lost, Unanswered
<1>6. CASE UNCHANGED vars
  BY <1>6 DEF vars, busvars, netvars, relayvars, Lost, Unanswered
<1> QED
  BY <1>1, <1>2, <1>3, <1>4, <1>5, <1>6, LostByClient DEF Next

\* A relay that has ended answers the call it had in hand no more, nor does the board.
THEOREM EndCosts == Spec => []EndCostsCall
<1> DEFINE All == TInv /\ Mine /\ ResultsGiven /\ Once /\ OwnAnswer /\ Lost
<1>1. Init => All
  BY InitAll DEF Init, Lost
<1>2. All /\ [Next]_vars => All'
  BY AllStep, LostStep
<1>3. All => EndCostsCall
  <2> SUFFICES ASSUME All, dups = 0, rpc = "ended", cur # <<>>
               PROVE  /\ \A x \in toClient : x[2].from # cur
                      /\ \A j \in DOMAIN result[cur[1]] : result[cur[1]][j].from # cur
    BY DEF EndCostsCall
  <2>1. Unanswered(cur) /\ cur[1] \in Clients
    BY DEF Lost
  <2>2. DOMAIN result[cur[1]] = 1..Len(result[cur[1]])
    BY <2>1 DEF TInv, TypeOK
  <2> QED
    BY <2>1, <2>2 DEF Unanswered
<1> QED
  BY <1>1, <1>2, <1>3, PTL DEF Spec
-----------------------------------------------------------------------------
\* The board has one value per register.  A call it has performed, or the relay has
\* sent back, is on its way to the client or among its results, and is at the board
\* no more (GivenKept, Once): so while no call of c has failed, at most its last call
\* can still be performed, and the register of which c is the sole writer holds what
\* c wrote last, that call included or not (Fresh).
Ended(i) == \E c \in Clients : \E j \in 1..Len(result[c]) : result[c][j].from = i

GivenKept ==
  \A t \in given :
    \/ \E x \in fromBoard : x[2].from = t.from
    \/ \E x \in toClient : x[2].from = t.from
    \/ Ended(t.from)

\* Only who is connected to the relay has datagrams there, and nobody calls before
\* it is connected.
AtRelay ==
  /\ \A x \in toRelay : host[x[1]] = "relay"
  /\ \A c \in Clients : pc[c] = "new" => Len(calls[c]) = 0

Alone(c, a) ==
  /\ SoleWriter(c, a)
  /\ host[c] = "board" \/ \A j \in 1..Len(calls[c]) : calls[c][j].hop
  /\ Undisturbed(c, Len(result[c]))

Given(c, k) == \E t \in given : t.from = <<c, k>>

ReadsAt(c, k, a) == calls[c][k].op = "read" /\ a \in Cells(calls[c][k])

UpToDate(c, k, a) ==
  /\ \A v : v = mem[a] => /\ Given(c, k) => LastWritten(c, k + 1, a, v)
                          /\ ~Given(c, k) => LastWritten(c, k, a, v)
  /\ \A t \in given : \A v :
       t.from = <<c, k>> /\ ReadsAt(c, k, a) /\ v = t.data[Place(calls[c][k], a)]
         => LastWritten(c, k, a, v)

Fresh ==
  dups = 0 =>
    \A c \in Clients, a \in Addrs, n \in Nat :
      n = Len(calls[c]) /\ Alone(c, a) => UpToDate(c, n, a)

\* An answer to a read that the board has performed holds a byte per register.
Sized ==
  \A t \in given : \A c \in Clients, k \in Nat :
    t.from = <<c, k>> /\ calls[c][k].op = "read" /\ (host[c] = "board" \/ calls[c][k].hop)
      => Len(t.data) = Length(calls[c][k])

\* The last write before call k + 1 is call k or the last one before it.
LEMMA LastWriteNext ==
  ASSUME TInv, NEW c \in Clients, NEW k \in 1..Len(calls[c]), NEW a, NEW v
  PROVE  /\ Writes(calls[c][k], a) /\ v = <<c, k, Place(calls[c][k], a)>>
             => LastWritten(c, k + 1, a, v)
         /\ ~Writes(calls[c][k], a) /\ LastWritten(c, k, a, v) => LastWritten(c, k + 1, a, v)
<1>1. Len(calls[c]) \in Nat /\ k \in Nat
  <2>1. Len(calls[c]) \in Nat
    BY LenProperties DEF TInv, TypeOK
  <2> QED
    BY <2>1
<1>2. WritesBefore(c, k + 1, a)
        = WritesBefore(c, k, a) \cup (IF Writes(calls[c][k], a) THEN {k} ELSE {})
  <2>1. 1..((k + 1) - 1) = 1..(k - 1) \cup {k}
    BY <1>1
  <2> QED
    BY <2>1 DEF WritesBefore
<1>3. CASE ~Writes(calls[c][k], a)
  <2>1. WritesBefore(c, k + 1, a) = WritesBefore(c, k, a)
    BY <1>2, <1>3
  <2> QED
    BY <1>3, <2>1 DEF LastWritten
<1>4. CASE Writes(calls[c][k], a)
  <2> DEFINE W == WritesBefore(c, k + 1, a)
  <2>1. k \in W /\ \A i \in W : i <= k
    BY <1>1, <1>2, <1>4 DEF WritesBefore
  <2> QED
    BY <1>4, <2>1 DEF LastWritten
<1> QED
  BY <1>3, <1>4

\* No step changes what was written before a call that is made, or comes next.
LEMMA LastWriteStays ==
  ASSUME TInv, [Next]_vars, NEW c \in Clients, NEW k \in Nat, k <= Len(calls[c]) + 1, NEW a,
         NEW v
  PROVE  LastWritten(c, k, a, v)' <=> LastWritten(c, k, a, v)
<1>1. /\ Len(calls[c]) \in Nat
      /\ \A j \in 1..Len(calls[c]) : calls'[c][j] = calls[c][j]
  BY CallsGrow
<1>2. \A j \in 1..(k - 1) : calls'[c][j] = calls[c][j]
  BY <1>1
<1>3. WritesBefore(c, k, a)' = WritesBefore(c, k, a)
  BY <1>2 DEF WritesBefore
<1>4. \A j \in WritesBefore(c, k, a) : calls'[c][j] = calls[c][j]
  BY <1>2 DEF WritesBefore
<1> QED
  BY <1>3, <1>4 DEF LastWritten

\* The results of a client grow as its calls do.
LEMMA ResultsGrow ==
  ASSUME TInv, [Next]_vars
  PROVE  \A c \in Clients :
           /\ Len(result[c]) \in Nat /\ Len(result'[c]) \in Nat /\ Len(result[c]) <= Len(result'[c])
           /\ \A j \in 1..Len(result[c]) : result'[c][j] = result[c][j]
<1>1. result \in [Clients -> Seq(Answers)] /\ \A c \in Clients : Len(result[c]) \in Nat
  BY LenProperties DEF TInv, TypeOK
<1>2. CASE result' = result
  BY <1>1, <1>2
<1>3. ASSUME NEW c \in Clients, NEW t \in Answers, result' = [result EXCEPT ![c] = Append(@, t)]
      PROVE  \A x \in Clients :
               /\ Len(result'[x]) \in Nat /\ Len(result[x]) <= Len(result'[x])
               /\ \A j \in 1..Len(result[x]) : result'[x][j] = result[x][j]
  BY <1>1, <1>3, Longer
<1>4. \/ result' = result
      \/ \E c \in Clients : \E t \in Answers : result' = [result EXCEPT ![c] = Append(@, t)]
  <2>1. Error \in Answers
    BY ErrorAnswer
  <2>2. \A x \in toClient : x[2] \in Answers
    BY DEF TInv, TypeOK
  <2> QED
    BY <2>1, <2>2, RelayCases DEF Next, Open, OpenFails, Call, Refuse, Receive, Timeout, NoAnswer,
       Serve, RelayForwards, RelayIdles, RelayGivesUp, busvars, vars
<1> QED
  BY <1>1, <1>2, <1>3, <1>4

LEMMA AtRelayStep == TInv /\ AtRelay /\ [Next]_vars => AtRelay'
<1> SUFFICES ASSUME TInv, AtRelay, [Next]_vars PROVE AtRelay'
  OBVIOUS
<1>1. /\ pc \in [Clients -> {"new", "idle", "wait", "shut"}]
      /\ host \in [Clients -> {"board", "relay"}]
      /\ calls \in [Clients -> Seq(Requests)]
      /\ \A x \in toRelay : x[1] \in Clients /\ x[2] \in 1..Len(calls[x[1]])
  BY DEF TInv, TypeOK, Known
<1>2. ASSUME NEW c \in Clients, Open(c) PROVE AtRelay'
  <2>1. Len(calls[c]) = 0
    BY <1>2 DEF Open, AtRelay
  <2>2. ASSUME NEW x \in toRelay PROVE x[1] # c
    <3>1. x[2] \in 1..Len(calls[x[1]]) /\ 1..0 = {}
      BY <1>1
    <3> QED
      BY <2>1, <3>1
  <2>3. UNCHANGED <<toRelay, calls>> /\ \A x \in Clients : x # c => host'[x] = host[x] /\ pc'[x] = pc[x]
    BY <1>1, <1>2 DEF Open, busvars, netvars
  <2>4. pc'[c] = "idle"
    BY <1>1, <1>2 DEF Open
  <2> QED
    BY <1>1, <2>2, <2>3, <2>4 DEF AtRelay
<1>3. ASSUME NEW c \in Clients, Call(c) PROVE AtRelay'
  <2>1. \A x \in toRelay' : host[x[1]] = "relay"
    BY <1>3 DEF Call, Send, AtRelay
  <2>2. \A x \in Clients : pc'[x] = "new" => pc[x] = "new" /\ calls'[x] = calls[x]
    BY <1>1, <1>3 DEF Call
  <2> QED
    BY <1>3, <2>1, <2>2 DEF Call, AtRelay
<1>4. ASSUME NEW c \in Clients, Refuse(c) PROVE AtRelay'
  <2>1. \A x \in Clients : pc[x] = "new" => calls'[x] = calls[x]
    BY <1>1, <1>4 DEF Refuse
  <2> QED
    BY <1>4, <2>1 DEF Refuse, netvars, AtRelay
<1>5. ASSUME UNCHANGED <<calls, host>>, toRelay' \subseteq toRelay,
             \A x \in Clients : pc'[x] = "new" => pc[x] = "new"
      PROVE  AtRelay'
  BY <1>5 DEF AtRelay
<1>6. ASSUME NEW c \in Clients, OpenFails(c) \/ Receive(c) \/ Timeout(c) PROVE AtRelay'
  <2>1. \A x \in Clients : pc'[x] = "new" => pc[x] = "new"
    BY <1>1, <1>6 DEF OpenFails, Receive, Timeout, AfterTimeout
  <2> QED
    BY <1>5, <1>6, <2>1 DEF OpenFails, Receive, Timeout, busvars, netvars
<1>7. ASSUME NEW x \in toRelay, RelayTakes(x) PROVE AtRelay'
  BY <1>5, <1>7, RelayCases
<1>8. CASE \/ \E x \in toBoard : Serve(x)
           \/ \E x \in fromBoard : RelayForwards(x)
           \/ RelayIdles \/ RelayGivesUp \/ UNCHANGED vars
  BY <1>5, <1>8 DEF Serve, RelayForwards, RelayIdles, RelayGivesUp, vars, busvars, clientvars, netvars
<1> QED
  BY <1>2, <1>3, <1>4, <1>6, <1>7, <1>8 DEF Next

LEMMA GivenKeptStep == TInv /\ GivenKept /\ [Next]_vars => GivenKept'
<1> SUFFICES ASSUME TInv, GivenKept, [Next]_vars PROVE GivenKept'
  OBVIOUS
<1>1. /\ result \in [Clients -> Seq(Answers)]
      /\ \A x \in Clients : Len(result[x]) \in Nat /\ Len(calls[x]) \in Nat
  BY LenProperties DEF TInv, TypeOK
<1>2. ASSUME NEW i, Ended(i) PROVE Ended(i)'
  <2>1. PICK c \in Clients : \E j \in 1..Len(result[c]) : result[c][j].from = i
    BY <1>2 DEF Ended
  <2>2. PICK j \in 1..Len(result[c]) : result[c][j].from = i
    BY <2>1
  <2>3. /\ Len(result[c]) \in Nat /\ Len(result'[c]) \in Nat /\ Len(result[c]) <= Len(result'[c])
        /\ result'[c][j] = result[c][j]
    BY ResultsGrow
  <2>4. j \in 1..Len(result'[c])
    BY <2>3
  <2> QED
    BY <2>2, <2>3, <2>4 DEF Ended
<1>3. ASSUME given' = given, fromBoard \subseteq fromBoard', toClient \subseteq toClient'
      PROVE  GivenKept'
  BY <1>2, <1>3 DEF GivenKept
<1>4. ASSUME NEW c \in Clients, Receive(c) PROVE GivenKept'
  <2>1. PICK x \in toClient : Take(toClient, x, toClient') /\ result' = [result EXCEPT ![c] = Append(@, x[2])]
    BY <1>4 DEF Receive
  <2>2. x[2] \in Answers
    BY DEF TInv, TypeOK
  <2>3. Len(result'[c]) = Len(result[c]) + 1 /\ result'[c][Len(result[c]) + 1] = x[2]
    BY <1>1, <2>1, <2>2, Longer
  <2>4. Ended(x[2].from)'
    <3>1. Len(result[c]) + 1 \in 1..Len(result'[c])
      BY <1>1, <2>3
    <3> QED
      BY <2>3, <3>1 DEF Ended
  <2>5. \A y \in toClient : y \in toClient' \/ y = x
    BY <2>1 DEF Take
  <2>6. given' = given /\ fromBoard' = fromBoard
    BY <1>4 DEF Receive
  <2> QED
    BY <1>2, <2>4, <2>5, <2>6 DEF GivenKept
<1>5. ASSUME NEW c \in Clients, Open(c) \/ OpenFails(c) \/ Call(c) \/ Refuse(c) \/ Timeout(c)
      PROVE  GivenKept'
  BY <1>3, <1>5 DEF Open, OpenFails, Call, Refuse, Timeout, busvars, netvars
<1>6. ASSUME NEW x \in toBoard, Serve(x) PROVE GivenKept'
  <2> DEFINE a == [from |-> <<x[1], x[2]>>, data |-> Payload(x)]
  <2>1. /\ given' = given \cup {a} /\ fromBoard \subseteq fromBoard' /\ toClient \subseteq toClient'
        /\ <<x[1], a>> \in toClient' \/ <<x[3], a>> \in fromBoard'
    BY <1>6 DEF Serve
  <2> HIDE DEF a
  <2>2. (\E y \in toClient' : y[2].from = a.from) \/ (\E y \in fromBoard' : y[2].from = a.from)
    BY <2>1
  <2> QED
    BY <1>2, <2>1, <2>2 DEF GivenKept
<1>7. ASSUME NEW x \in toRelay, RelayTakes(x) PROVE GivenKept'
  <2> DEFINE a == [from |-> x, data |-> Returned(x[1], x[2])]
  <2>1. /\ fromBoard' = fromBoard
        /\ \/ given' = given \cup {a} /\ toClient' = toClient \cup {<<x[1], a>>}
           \/ given' = given /\ toClient' = toClient
    BY <1>7, RelayCases
  <2> HIDE DEF a
  <2>2. <<x[1], a>>[2] = a
    OBVIOUS
  <2> QED
    BY <1>2, <2>1, <2>2 DEF GivenKept
<1>8. ASSUME NEW x \in fromBoard, RelayForwards(x) PROVE GivenKept'
  <2>1. /\ given' = given /\ toClient' = toClient \cup {<<cur[1], x[2]>>}
        /\ \A y \in fromBoard : y \in fromBoard' \/ y = x
    BY <1>8 DEF RelayForwards, Take, busvars
  <2>2. \E y \in toClient' : y[2].from = x[2].from
    <3> DEFINE y == <<cur[1], x[2]>>
    <3>1. y[2] = x[2] /\ y \in toClient'
      BY <2>1
    <3> HIDE DEF y
    <3> QED
      BY <3>1
  <2> QED
    BY <1>2, <2>1, <2>2 DEF GivenKept
<1>9. CASE RelayIdles \/ RelayGivesUp \/ UNCHANGED vars
  BY <1>3, <1>9 DEF RelayIdles, RelayGivesUp, vars, busvars, netvars
<1> QED
  BY <1>4, <1>5, <1>6, <1>7, <1>8, <1>9 DEF Next

\* Whose calls were all answered has the answers to them.
LEMMA AnsweredOwn ==
  ASSUME TInv, ResultsGiven, OwnAnswer, dups = 0,
         NEW c \in Clients, NEW m \in 0..Len(result[c]), Undisturbed(c, m), NEW k \in 1..m
  PROVE  result[c][k].from = <<c, k>> /\ result[c][k] \in given
<1>1. Len(result[c]) \in Nat /\ DOMAIN result[c] = 1..Len(result[c])
  BY LenProperties DEF TInv, TypeOK
<1>2. k \in DOMAIN result[c] /\ \A j \in 1..(k - 1) : j \in 1..m
  BY <1>1
<1>3. Undisturbed(c, k - 1) /\ result[c][k].from # <<>>
  BY <1>2 DEF Undisturbed
<1> QED
  BY <1>1, <1>2, <1>3 DEF OwnAnswer, ResultsGiven, Error

\* What the board can still perform of the calls of such a client is its last call,
\* and that for the first time.
LEMMA OnlyLastAtBoard ==
  ASSUME TInv, ResultsGiven, Once, OwnAnswer, GivenKept, dups = 0,
         NEW x \in toBoard, Undisturbed(x[1], Len(result[x[1]]))
  PROVE  x[2] = Len(calls[x[1]]) /\ ~Given(x[1], x[2])
<1> DEFINE c == x[1]
           s == <<<<x[1], x[2]>>, "toBoard", x>>
<1>1. /\ c \in Clients /\ x[2] \in Nat /\ x[2] \in 1..Len(calls[c])
      /\ Len(result[c]) \in Nat /\ Len(calls[c]) \in {Len(result[c]), Len(result[c]) + 1}
  BY LenProperties DEF TInv, TypeOK, Known
<1>2. s \in Tokens
  BY DEF Tokens, BoardTokens
<1>3. ASSUME NEW t \in Tokens, t[1] = <<x[1], x[2]>>, t[2] # "toBoard" PROVE FALSE
  <2>1. s[1] = <<x[1], x[2]>> /\ s[2] = "toBoard"
    OBVIOUS
  <2> HIDE DEF s
  <2> QED
    BY <1>2, <1>3, <2>1 DEF Once
<1>4. ASSUME NEW e \in Clients, NEW j \in 1..Len(result[e]), result[e][j].from = <<x[1], x[2]>>
      PROVE  FALSE
  <2>1. j \in Nat /\ <<x[1], x[2]>> # <<>>
    <3>1. Len(result[e]) \in Nat
      BY LenProperties DEF TInv, TypeOK
    <3>2. \A m, n : <<m, n>> # <<>>
      OBVIOUS
    <3> QED
      BY <3>1, <3>2
  <2>2. <<e, j>> \in Answered
    BY <1>4, <2>1 DEF Answered
  <2>3. <<result[e][j].from, "result", <<e, j>>>> \in Tokens
    BY <2>2 DEF Tokens, DoneTokens
  <2> QED
    BY <1>3, <1>4, <2>3
<1>5. x[2] \notin 1..Len(result[c])
  <2> SUFFICES ASSUME x[2] \in 1..Len(result[c]) PROVE FALSE
    OBVIOUS
  <2>1. result[c][x[2]].from = <<c, x[2]>>
    BY <1>1, AnsweredOwn
  <2> QED
    BY <1>1, <1>4, <2>1
<1>6. x[2] = Len(calls[c])
  <2>1. PICK m, n, l : m = x[2] /\ n = Len(calls[c]) /\ l = Len(result[c])
    OBVIOUS
  <2>2. n \in Nat /\ l \in Nat /\ n \in {l, l + 1}
    <3>1. Len(calls[c]) \in Nat
      BY LenProperties DEF TInv, TypeOK
    <3> QED
      BY <1>1, <2>1, <3>1
  <2>3. m \in 1..n
    BY <1>1, <2>1
  <2>4. m \notin 1..l
    BY <1>5, <2>1
  <2>5. m = n
    BY <2>2, <2>3, <2>4
  <2> QED
    BY <2>1, <2>5
<1>7. ASSUME NEW t \in given, t.from = <<x[1], x[2]>> PROVE FALSE
  <2>1. ASSUME NEW y \in fromBoard, y[2].from = t.from PROVE FALSE
    <3>1. <<y[2].from, "fromBoard", y>> \in Tokens
      BY DEF Tokens, BackTokens
    <3> QED
      BY <1>3, <1>7, <2>1, <3>1
  <2>2. ASSUME NEW y \in toClient, y[2].from = t.from PROVE FALSE
    <3>1. <<y[2].from, "toClient", y>> \in Tokens
      BY DEF Tokens, ClientTokens
    <3> QED
      BY <1>3, <1>7, <2>2, <3>1
  <2>3. ~Ended(t.from)
    BY <1>4, <1>7 DEF Ended
  <2> QED
    BY <2>1, <2>2, <2>3 DEF GivenKept
<1> QED
  BY <1>6, <1>7 DEF Given

\* A sole writer was one before, and a client that has made calls stays connected to
\* whom it is.
LEMMA SoleBefore ==
  ASSUME TInv, [Next]_vars, NEW c \in Clients, NEW a, SoleWriter(c, a)'
  PROVE  SoleWriter(c, a)
<1>1. calls \in [Clients -> Seq(Requests)] /\ calls' \in [Clients -> Seq(Requests)]
  BY StepTyped DEF TInv, TypeOK
<1>2. \A e \in Clients : /\ calls[e] \in Seq(Requests) /\ calls'[e] \in Seq(Requests)
                         /\ Len(calls[e]) \in Nat /\ Len(calls'[e]) \in Nat
                         /\ Len(calls[e]) <= Len(calls'[e])
                         /\ \A j \in 1..Len(calls[e]) : calls'[e][j] = calls[e][j]
  BY <1>1, CallsGrow
<1>3. ASSUME NEW e \in Clients, NEW j \in DOMAIN calls[e]
      PROVE  j \in DOMAIN calls'[e] /\ calls'[e][j] = calls[e][j]
  <2>1. DOMAIN calls[e] = 1..Len(calls[e]) /\ DOMAIN calls'[e] = 1..Len(calls'[e])
    BY <1>2
  <2>2. j \in 1..Len(calls[e]) /\ j \in 1..Len(calls'[e])
    BY <1>2, <2>1
  <2> QED
    BY <1>2, <2>1, <2>2
<1> QED
  BY <1>3 DEF SoleWriter

LEMMA HostStays ==
  ASSUME TInv, AtRelay, [Next]_vars, NEW c \in Clients
  PROVE  host'[c] = host[c] \/ Len(calls[c]) = 0
<1>1. host' = host \/ \E e \in Clients : Open(e)
  BY RelayCases DEF Next, OpenFails, Call, Refuse, Receive, Timeout, Serve, RelayForwards,
     RelayIdles, RelayGivesUp, vars, clientvars
<1>2. CASE Open(c)
  BY <1>2 DEF Open, AtRelay
<1>3. ASSUME NEW e \in Clients, Open(e), e # c PROVE host'[c] = host[c]
  BY <1>3 DEF Open, TInv, TypeOK
<1> QED
  BY <1>1, <1>2, <1>3

\* A client that is alone now was alone before.
LEMMA AloneBefore ==
  ASSUME TInv, AtRelay, [Next]_vars, NEW c \in Clients, NEW a, Alone(c, a)'
  PROVE  Alone(c, a)
<1>1. SoleWriter(c, a)
  BY SoleBefore DEF Alone
<1>2. host[c] = "board" \/ \A j \in 1..Len(calls[c]) : calls[c][j].hop
  <2>1. CASE Len(calls[c]) = 0
    <3>1. 1..0 = {}
      OBVIOUS
    <3> QED
      BY <2>1, <3>1
  <2>2. CASE host'[c] = host[c]
    <3>1. /\ Len(calls[c]) \in Nat /\ Len(calls'[c]) \in Nat /\ Len(calls[c]) <= Len(calls'[c])
          /\ \A j \in 1..Len(calls[c]) : calls'[c][j] = calls[c][j]
      BY CallsGrow
    <3>2. \A j \in 1..Len(calls[c]) : j \in 1..Len(calls'[c])
      BY <3>1
    <3> QED
      BY <2>2, <3>1, <3>2 DEF Alone
  <2> QED
    BY <2>1, <2>2, HostStays
<1>3. Undisturbed(c, Len(result[c]))
  <2>1. /\ Len(result[c]) \in Nat /\ Len(result'[c]) \in Nat /\ Len(result[c]) <= Len(result'[c])
        /\ \A j \in 1..Len(result[c]) : result'[c][j] = result[c][j]
    BY ResultsGrow
  <2>2. \A j \in 1..Len(result[c]) : j \in 1..Len(result'[c]) /\ result'[c][j] = result[c][j]
    BY <2>1
  <2> QED
    BY <2>2 DEF Alone, Undisturbed
<1> QED
  BY <1>1, <1>2, <1>3 DEF Alone

\* What a step that neither asks nor performs leaves as it was.
LEMMA FreshKept ==
  ASSUME TInv, [Next]_vars, NEW c \in Clients, NEW a, NEW n \in Nat, n = Len(calls[c]),
         UpToDate(c, n, a), mem'[a] = mem[a], calls'[c] = calls[c], given \subseteq given',
         \A t \in given' : t \in given \/ t.from[1] # c
  PROVE  UpToDate(c, n, a)'
<1>1. \A v : /\ LastWritten(c, n + 1, a, v)' <=> LastWritten(c, n + 1, a, v)
             /\ LastWritten(c, n, a, v)' <=> LastWritten(c, n, a, v)
  <2>1. n + 1 \in Nat /\ n + 1 <= Len(calls[c]) + 1 /\ n <= Len(calls[c]) + 1
    OBVIOUS
  <2> QED
    BY <2>1, LastWriteStays
<1>2. \A t \in given' : t.from = <<c, n>> => t \in given
  OBVIOUS
<1>3. Given(c, n)' <=> Given(c, n)
  BY <1>2 DEF Given
<1>4. ReadsAt(c, n, a)' <=> ReadsAt(c, n, a)
  BY DEF ReadsAt
<1> QED
  BY <1>1, <1>2, <1>3, <1>4 DEF UpToDate

\* A client's next call finds its last one performed.
LEMMA FreshAsked ==
  ASSUME TInv, ResultsGiven, OwnAnswer, [Next]_vars, dups = 0, NEW c \in Clients, NEW a \in Addrs,
         Call(c), Undisturbed(c, Len(result[c])),
         NEW n \in Nat, n = Len(calls[c]), UpToDate(c, n, a)
  PROVE  Len(calls'[c]) = n + 1 /\ UpToDate(c, n + 1, a)'
<1>1. /\ Len(result[c]) = n /\ calls \in [Clients -> Seq(Requests)] /\ UNCHANGED <<mem, given>>
  BY LenProperties DEF Call, TInv, TypeOK
<1>2. Len(calls'[c]) = n + 1
  <2>1. PICK q \in Requests : calls' = [calls EXCEPT ![c] = Append(@, q)]
    BY DEF Call
  <2> QED
    BY <1>1, <2>1, Longer
<1>3. \A v : v = mem[a] => /\ Given(c, n) => LastWritten(c, n + 1, a, v)
                           /\ ~Given(c, n) => LastWritten(c, n, a, v)
  BY DEF UpToDate
<1>4. \A v : v = mem[a] => LastWritten(c, n + 1, a, v)
  <2>1. CASE n = 0
    <3>1. WritesBefore(c, n + 1, a) = {} /\ WritesBefore(c, n, a) = {}
      <4>1. 1..((n + 1) - 1) = {} /\ 1..(n - 1) = {}
        BY <2>1
      <4> QED
        BY <4>1 DEF WritesBefore
    <3>2. \A v : LastWritten(c, n, a, v) => LastWritten(c, n + 1, a, v)
      BY <3>1 DEF LastWritten
    <3>3. ASSUME NEW v, v = mem[a] PROVE LastWritten(c, n + 1, a, v)
      <4>1. /\ Given(c, n) => LastWritten(c, n + 1, a, v)
            /\ ~Given(c, n) => LastWritten(c, n, a, v)
        BY <1>3, <3>3
      <4> QED
        BY <3>2, <4>1
    <3> QED
      BY <3>3
  <2>2. CASE n # 0
    <3>1. n \in 1..n /\ n \in 0..Len(result[c])
      BY <1>1, <2>2
    <3>2. result[c][n].from = <<c, n>> /\ result[c][n] \in given
      BY <1>1, <3>1, AnsweredOwn
    <3>3. Given(c, n)
      BY <3>2 DEF Given
    <3> QED
      BY <1>3, <3>3
  <2> QED
    BY <2>1, <2>2
<1>5. \A v : LastWritten(c, n + 1, a, v)' <=> LastWritten(c, n + 1, a, v)
  <2>1. n + 1 \in Nat /\ n + 1 <= Len(calls[c]) + 1
    OBVIOUS
  <2> QED
    BY <2>1, LastWriteStays
<1>6. ASSUME NEW t \in given', t.from = <<c, n + 1>> PROVE FALSE
  <2>1. t.from[2] \in 1..n
    BY <1>1, <1>6 DEF TInv, Known
  <2> QED
    BY <1>1, <1>6, <2>1
<1>7. ~Given(c, n + 1)'
  BY <1>6 DEF Given
<1> QED
  BY <1>1, <1>2, <1>4, <1>5, <1>6, <1>7 DEF UpToDate

\* The board performs the last call of a client that is alone.
LEMMA FreshServed ==
  ASSUME TInv, ResultsGiven, Once, OwnAnswer, GivenKept, [Next]_vars, dups = 0,
         NEW x \in toBoard, Serve(x), NEW a \in Addrs, Alone(x[1], a),
         NEW n \in Nat, n = Len(calls[x[1]]), UpToDate(x[1], n, a)
  PROVE  UpToDate(x[1], n, a)'
<1> DEFINE c == x[1]
           q == calls[c][n]
           new == [from |-> <<x[1], x[2]>>, data |-> Performed(x[1], x[2])]
<1>1. c \in Clients /\ n \in 1..Len(calls[c]) /\ q \in Requests /\ mem \in [Addrs -> Values]
  <2>1. x[1] \in Clients /\ x[2] \in 1..Len(calls[x[1]]) /\ x[2] = n /\ mem \in [Addrs -> Values]
    BY OnlyLastAtBoard DEF Alone, TInv, TypeOK, Known
  <2> QED
    BY <2>1, Performing
<1>2. x[2] = n /\ ~Given(c, n)
  BY OnlyLastAtBoard DEF Alone
<1>3. mem' = Stored(c, n) /\ given' = given \cup {new} /\ UNCHANGED calls
  BY <1>2 DEF Serve, RegMem, Payload
<1>4. \A v : v = mem[a] => LastWritten(c, n, a, v)
  BY <1>2 DEF UpToDate
<1>5. \A v : /\ LastWritten(c, n + 1, a, v)' <=> LastWritten(c, n + 1, a, v)
             /\ LastWritten(c, n, a, v)' <=> LastWritten(c, n, a, v)
  <2>1. n + 1 \in Nat /\ n + 1 <= Len(calls[c]) + 1 /\ n <= Len(calls[c]) + 1
    OBVIOUS
  <2> QED
    BY <1>1, <2>1, LastWriteStays
<1>6. \A v : v = mem'[a] => LastWritten(c, n + 1, a, v)
  <2>1. mem'[a] = IF Writes(q, a) THEN <<c, n, Place(q, a)>> ELSE mem[a]
    BY <1>1, <1>3 DEF Stored, Writes
  <2>2. \A v : /\ Writes(q, a) /\ v = <<c, n, Place(q, a)>> => LastWritten(c, n + 1, a, v)
               /\ ~Writes(q, a) /\ LastWritten(c, n, a, v) => LastWritten(c, n + 1, a, v)
    BY <1>1, LastWriteNext
  <2>3. CASE Writes(q, a)
    <3>1. mem'[a] = <<c, n, Place(q, a)>>
      BY <2>1, <2>3
    <3>2. LastWritten(c, n + 1, a, <<c, n, Place(q, a)>>)
      BY <2>2, <2>3
    <3> QED
      BY <3>1, <3>2
  <2>4. CASE ~Writes(q, a)
    <3>1. mem'[a] = mem[a]
      BY <2>1, <2>4
    <3> QED
      BY <1>4, <2>2, <2>4, <3>1
  <2> QED
    BY <2>3, <2>4
<1>7. ASSUME NEW t \in given', NEW v, t.from = <<c, n>>, ReadsAt(c, n, a), v = t.data[Place(q, a)]
      PROVE  LastWritten(c, n, a, v)
  <2>1. t = new
    BY <1>2, <1>3, <1>7 DEF Given
  <2>2. q.op = "read" /\ a \in Cells(q)
    BY <1>7 DEF ReadsAt
  <2>3. Place(q, a) \in 1..Length(q) /\ q.addr + Place(q, a) - 1 = a
    BY <1>1, <2>2, CellsAre
  <2>4. Performed(c, n)[Place(q, a)] = mem[a]
    BY <2>2, <2>3 DEF Performed
  <2> QED
    BY <1>2, <1>4, <1>7, <2>1, <2>4
<1>8. ReadsAt(c, n, a)' <=> ReadsAt(c, n, a)
  BY <1>3 DEF ReadsAt
<1>9. Given(c, n)'
  <2>1. new \in given' /\ new.from = <<c, n>>
    BY <1>2, <1>3
  <2> HIDE DEF new
  <2> QED
    BY <2>1 DEF Given
<1> HIDE DEF c
<1>10. UpToDate(c, n, a)'
  BY <1>3, <1>5, <1>6, <1>7, <1>8, <1>9 DEF UpToDate
<1> QED
  BY <1>10 DEF c

LEMMA FreshStep ==
  TInv /\ ResultsGiven /\ Once /\ OwnAnswer /\ AtRelay /\ GivenKept /\ Fresh /\ [Next]_vars => Fresh'
<1> SUFFICES ASSUME TInv, ResultsGiven, Once, OwnAnswer, AtRelay, GivenKept, Fresh, [Next]_vars,
                    dups' = 0, NEW c \in Clients, NEW a \in Addrs, NEW n \in Nat,
                    n = Len(calls'[c]), Alone(c, a)'
             PROVE  UpToDate(c, n, a)'
  BY DEF Fresh
<1>1. /\ dups = 0 /\ Alone(c, a)
      /\ calls \in [Clients -> Seq(Requests)] /\ result \in [Clients -> Seq(Answers)]
      /\ mem \in [Addrs -> Values] /\ Len(calls[c]) \in Nat /\ Len(result[c]) \in Nat
  BY DupsGrow, AloneBefore, LenProperties DEF TInv, TypeOK
<1>2. PICK m \in Nat : m = Len(calls[c])
  BY <1>1
<1>3. UpToDate(c, m, a)
  BY <1>1, <1>2 DEF Fresh
<1>4. ASSUME calls'[c] = calls[c], mem'[a] = mem[a], given \subseteq given',
             \A t \in given' : t \in given \/ t.from[1] # c
      PROVE  UpToDate(c, n, a)'
  BY <1>2, <1>3, <1>4, FreshKept
<1>5. ASSUME NEW e \in Clients, Call(e) PROVE UpToDate(c, n, a)'
  <2>1. CASE e = c
    <3>1. Undisturbed(c, Len(result[c]))
      BY <1>1 DEF Alone
    <3>2. Len(calls'[c]) = m + 1 /\ UpToDate(c, m + 1, a)'
      BY <1>1, <1>2, <1>3, <1>5, <2>1, <3>1, FreshAsked
    <3> QED
      BY <3>2
  <2>2. CASE e # c
    BY <1>1, <1>4, <1>5, <2>2 DEF Call
  <2> QED
    BY <2>1, <2>2
<1>6. ASSUME NEW e \in Clients, Refuse(e) PROVE UpToDate(c, n, a)'
  <2>1. CASE e = c
    <3>1. Error \in Answers /\ Error.from = <<>>
      BY ErrorAnswer
    <3>2. result' = [result EXCEPT ![c] = Append(@, Error)]
      BY <1>6, <2>1 DEF Refuse
    <3>3. Len(result'[c]) = Len(result[c]) + 1 /\ result'[c][Len(result[c]) + 1] = Error
      BY <1>1, <3>1, <3>2, Longer
    <3>4. Len(result[c]) + 1 \in 1..Len(result'[c])
      BY <1>1, <3>3
    <3> QED
      BY <3>1, <3>3, <3>4 DEF Alone, Undisturbed
  <2>2. CASE e # c
    BY <1>1, <1>4, <1>6, <2>2 DEF Refuse
  <2> QED
    BY <2>1, <2>2
<1>7. ASSUME NEW x \in toBoard, Serve(x) PROVE UpToDate(c, n, a)'
  <2>1. calls' = calls
    BY <1>7 DEF Serve
  <2>2. CASE x[1] = c
    <3>1. n = m
      BY <1>2, <2>1
    <3> QED
      BY <1>1, <1>2, <1>3, <1>7, <2>2, <3>1, FreshServed
  <2>3. CASE x[1] # c
    <3>1. x[1] \in Clients \ {c} /\ x[2] \in DOMAIN calls[x[1]] /\ calls[x[1]][x[2]] \in Requests
      <4>1. x[1] \in Clients /\ x[2] \in 1..Len(calls[x[1]])
        BY DEF TInv, TypeOK, Known
      <4>2. DOMAIN calls[x[1]] = 1..Len(calls[x[1]])
        BY <1>1, <4>1
      <4> QED
        BY <2>3, <4>1, <4>2, Performing
    <3>2. mem'[a] = mem[a]
      <4>1. ~Writes(calls[x[1]][x[2]], a)
        BY <1>1, <3>1 DEF Alone, SoleWriter
      <4> QED
        BY <1>1, <1>7, <3>1, <4>1 DEF Serve, RegMem, Stored, Writes
    <3>3. given' = given \cup {[from |-> <<x[1], x[2]>>, data |-> Payload(x)]}
      BY <1>7 DEF Serve
    <3> QED
      BY <1>4, <2>1, <2>3, <3>2, <3>3
  <2> QED
    BY <2>2, <2>3
<1>8. ASSUME NEW x \in toRelay, RelayTakes(x) PROVE UpToDate(c, n, a)'
  <2>1. /\ UNCHANGED <<calls, mem>> /\ x[1] \in Clients /\ x[2] \in 1..Len(calls[x[1]])
        /\ \/ given' = given \cup {[from |-> x, data |-> Returned(x[1], x[2])]}
           \/ given' = given
    BY <1>8, RelayCases
  <2>2. CASE x[1] = c
    <3>1. calls[x[1]][x[2]].hop
      BY <1>1, <2>1, <2>2 DEF Alone, AtRelay
    <3>2. given' = given
      BY <1>8, <3>1 DEF RelayTakes, PassedOn
    <3> QED
      BY <1>4, <2>1, <3>2
  <2>3. CASE x[1] # c
    BY <1>4, <2>1, <2>3
  <2> QED
    BY <2>2, <2>3
<1>9. ASSUME UNCHANGED <<calls, mem, given>> PROVE UpToDate(c, n, a)'
  BY <1>4, <1>9
<1>10. CASE \/ \E e \in Clients : Open(e) \/ OpenFails(e) \/ Receive(e) \/ Timeout(e)
            \/ \E x \in fromBoard : RelayForwards(x)
            \/ RelayIdles \/ RelayGivesUp \/ UNCHANGED vars
  BY <1>9, <1>10 DEF Open, OpenFails, Receive, Timeout, RelayForwards, RelayIdles, RelayGivesUp,
     vars, busvars
<1>11. \/ \E e \in Clients : Call(e) \/ Refuse(e)
       \/ \E x \in toBoard : Serve(x)
       \/ \E x \in toRelay : RelayTakes(x)
       \/ \E e \in Clients : Open(e) \/ OpenFails(e) \/ Receive(e) \/ Timeout(e)
       \/ \E x \in fromBoard : RelayForwards(x)
       \/ RelayIdles \/ RelayGivesUp \/ UNCHANGED vars
  BY DEF Next
<1>12. CASE \E e \in Clients : Call(e) \/ Refuse(e)
  BY <1>5, <1>6, <1>12
<1>13. CASE \E x \in toBoard : Serve(x)
  BY <1>7, <1>13
<1>14. CASE \E x \in toRelay : RelayTakes(x)
  BY <1>8, <1>14
<1> QED
  BY <1>10, <1>11, <1>12, <1>13, <1>14

LEMMA SizedStep == TInv /\ AtRelay /\ Sized /\ [Next]_vars => Sized'
<1> SUFFICES ASSUME TInv, AtRelay, Sized, [Next]_vars, NEW t \in given', NEW c \in Clients,
                    NEW k \in Nat, t.from = <<c, k>>, calls'[c][k].op = "read",
                    host'[c] = "board" \/ calls'[c][k].hop
             PROVE  Len(t.data) = Length(calls'[c][k])
  BY DEF Sized
<1>1. /\ Len(calls[c]) \in Nat
      /\ \A j \in 1..Len(calls[c]) : calls'[c][j] = calls[c][j]
  BY CallsGrow
<1>2. CASE t \in given
  <2>1. k \in 1..Len(calls[c])
    BY <1>2 DEF TInv, Known
  <2>2. calls'[c][k] = calls[c][k] /\ host'[c] = host[c]
    BY <1>1, <2>1, HostStays
  <2> QED
    BY <1>2, <2>2 DEF Sized
<1>3. CASE t \notin given
  <2>1. \/ \E x \in toBoard : Serve(x)
        \/ \E x \in toRelay : RelayTakes(x)
    BY <1>3 DEF Next, Open, OpenFails, Call, Refuse, Receive, Timeout, RelayForwards, RelayIdles,
       RelayGivesUp, vars, busvars
  <2>2. ASSUME NEW x \in toBoard, Serve(x) PROVE Len(t.data) = Length(calls'[c][k])
    <3>1. t = [from |-> <<x[1], x[2]>>, data |-> Performed(x[1], x[2])] /\ calls' = calls
      BY <1>3, <2>2 DEF Serve, Payload
    <3>2. x[1] = c /\ x[2] = k /\ t.data = Performed(x[1], x[2])
      BY <3>1
    <3>3. k \in 1..Len(calls[c])
      BY <3>2 DEF TInv, Known
    <3>4. Len(Performed(c, k)) = Length(calls[c][k])
      BY <3>3, Performing
    <3> QED
      BY <3>1, <3>2, <3>4
  <2>3. ASSUME NEW x \in toRelay, RelayTakes(x) PROVE FALSE
    <3>1. /\ x = <<x[1], x[2]>> /\ UNCHANGED <<calls, host>>
          /\ given' = given \cup {[from |-> x, data |-> Returned(x[1], x[2])]}
      BY <1>3, <2>3, RelayCases
    <3>2. x[1] = c /\ x[2] = k
      BY <1>3, <3>1
    <3>3. ~calls[c][k].hop
      BY <1>3, <2>3, <3>2 DEF RelayTakes, PassedOn
    <3>4. host[c] = "relay"
      BY <3>2 DEF AtRelay
    <3> QED
      BY <3>1, <3>3, <3>4
  <2> QED
    BY <2>1, <2>2, <2>3
<1> QED
  BY <1>2, <1>3

\* ReadYourWrites for one call, address and byte.
Back(c, k, a, v) ==
  (/\ k \in 1..Len(result[c]) /\ ReadsAt(c, k, a) /\ SoleWriter(c, a)
   /\ host[c] = "board" \/ \A j \in 1..k : calls[c][j].hop
   /\ Undisturbed(c, k) /\ v = result[c][k].data[Place(calls[c][k], a)])
  => LastWritten(c, k, a, v)
ReadsBack == dups = 0 => \A c \in Clients, k \in Nat, a \in Addrs : \A v : Back(c, k, a, v)

LEMMA ReadStep ==
  /\ TInv /\ ResultsGiven /\ Once /\ OwnAnswer /\ OwnAnswer' /\ AtRelay /\ Fresh
  /\ ReadsBack /\ [Next]_vars
  => ReadsBack'
<1> SUFFICES ASSUME TInv, ResultsGiven, Once, OwnAnswer, OwnAnswer', AtRelay, Fresh, ReadsBack,
                    [Next]_vars, dups' = 0, NEW c \in Clients, NEW k \in Nat, NEW a \in Addrs,
                    k \in 1..Len(result'[c]), ReadsAt(c, k, a)', SoleWriter(c, a)',
                    host'[c] = "board" \/ \A j \in 1..k : calls'[c][j].hop,
                    Undisturbed(c, k)', NEW v, v = result'[c][k].data[Place(calls'[c][k], a)]
             PROVE  LastWritten(c, k, a, v)'
  <2> SUFFICES ASSUME TInv, ResultsGiven, Once, OwnAnswer, OwnAnswer', AtRelay, Fresh, ReadsBack,
                      [Next]_vars, dups' = 0, NEW c \in Clients, NEW k \in Nat, NEW a \in Addrs,
                      NEW v
               PROVE  Back(c, k, a, v)'
    BY Zenon DEF ReadsBack
  <2> QED
    BY Zenon DEF Back
<1>1. /\ dups = 0 /\ SoleWriter(c, a)
      /\ Len(calls[c]) = Len(result[c]) + (IF pc[c] = "wait" THEN 1 ELSE 0)
  BY DupsGrow, SoleBefore DEF TInv, TypeOK
<1>2. /\ result \in [Clients -> Seq(Answers)] /\ result'[c] \in Seq(Answers)
      /\ Len(result[c]) \in Nat /\ Len(result'[c]) \in Nat /\ Len(result[c]) <= Len(result'[c])
      /\ \A j \in 1..Len(result[c]) : result'[c][j] = result[c][j]
  BY ResultsGrow, StepTyped DEF TInv, TypeOK
<1>3. Len(calls[c]) \in Nat /\ \A j \in 1..Len(calls[c]) : calls'[c][j] = calls[c][j]
  BY CallsGrow
<1>4. ASSUME k <= Len(calls[c])
      PROVE  /\ ReadsAt(c, k, a) /\ (LastWritten(c, k, a, v)' <=> LastWritten(c, k, a, v))
             /\ calls'[c][k] = calls[c][k]
             /\ host[c] = "board" \/ \A j \in 1..k : calls[c][j].hop
  <2>1. k \in 1..Len(calls[c]) /\ Len(calls[c]) # 0 /\ k <= Len(calls[c]) + 1
    BY <1>2, <1>3, <1>4
  <2>2. \A j \in 1..k : calls'[c][j] = calls[c][j]
    BY <1>3, <1>4
  <2> QED
    BY <1>3, <2>1, <2>2, HostStays, LastWriteStays DEF ReadsAt
<1>5. CASE k \in 1..Len(result[c])
  <2>1. \A j \in 1..k : result'[c][j] = result[c][j]
    BY <1>2, <1>5
  <2>2. Undisturbed(c, k) /\ result'[c][k] = result[c][k]
    BY <1>2, <1>5, <2>1 DEF Undisturbed
  <2>3. k <= Len(calls[c])
    BY <1>1, <1>2, <1>5
  <2> QED
    BY <1>1, <1>4, <1>5, <2>2, <2>3 DEF ReadsBack, Back
<1>6. CASE k \notin 1..Len(result[c])
  <2>1. ASSUME NEW t \in Answers, result' = [result EXCEPT ![c] = Append(@, t)]
        PROVE  k = Len(result[c]) + 1 /\ result'[c][k] = t
    <3>1. Len(result'[c]) = Len(result[c]) + 1 /\ result'[c][Len(result[c]) + 1] = t
      BY <1>2, <2>1, Longer
    <3> QED
      BY <1>2, <1>6, <3>1
  <2>2. Error \in Answers /\ Error.from = <<>>
    BY ErrorAnswer
  <2>3. result'[c][k].from # <<>>
    BY <1>2 DEF Undisturbed
  <2>4. ASSUME Receive(c) PROVE LastWritten(c, k, a, v)'
    <3>1. PICK x \in toClient : result' = [result EXCEPT ![c] = Append(@, x[2])]
      BY <2>4 DEF Receive
    <3>2. x[2] \in given /\ x[2] \in Answers
      BY DEF TInv, TypeOK
    <3>3. k = Len(result[c]) + 1 /\ result'[c][k] = x[2] /\ k = Len(calls[c])
      BY <1>1, <2>1, <2>4, <3>1, <3>2 DEF Receive
    <3>4. \A j \in 1..Len(result[c]) : j \in 1..k
      BY <1>2, <3>3
    <3>5. Undisturbed(c, Len(result[c]))
      BY <1>2, <3>4 DEF Undisturbed
    <3>6. x[2].from = <<c, k>>
      <4>1. \A j \in 1..(k - 1) : j \in 1..k
        BY <1>2
      <4>2. Undisturbed(c, k - 1)' /\ k \in DOMAIN result'[c]
        BY <1>2, <4>1 DEF Undisturbed
      <4> QED
        BY <2>3, <3>3, <4>2 DEF OwnAnswer
    <3>7. /\ ReadsAt(c, k, a) /\ (LastWritten(c, k, a, v)' <=> LastWritten(c, k, a, v))
          /\ calls'[c][k] = calls[c][k]
          /\ host[c] = "board" \/ \A j \in 1..k : calls[c][j].hop
      <4>1. k <= Len(calls[c])
        BY <1>3, <3>3
      <4> QED
        BY <1>4, <4>1
    <3>8. Alone(c, a)
      BY <1>1, <3>3, <3>5, <3>7 DEF Alone
    <3>9. UpToDate(c, k, a)
      BY <1>1, <3>3, <3>8 DEF Fresh
    <3> QED
      BY <3>2, <3>3, <3>6, <3>7, <3>9 DEF UpToDate
  <2>5. ASSUME Refuse(c) \/ Timeout(c) PROVE FALSE
    BY <2>1, <2>2, <2>3, <2>5 DEF Refuse, Timeout, NoAnswer
  <2>6. result'[c] # result[c]
    BY <1>6
  <2>7. \/ result' = result
        \/ \E e \in Clients : Receive(e) \/ Refuse(e) \/ Timeout(e)
    BY RelayCases DEF Next, Open, OpenFails, Call, Serve, RelayForwards, RelayIdles, RelayGivesUp,
       busvars, vars
  <2>8. ASSUME NEW e \in Clients, Receive(e) \/ Refuse(e) \/ Timeout(e), e # c
        PROVE  result'[c] = result[c]
    BY <1>2, <2>8 DEF Receive, Refuse, Timeout
  <2> QED
    BY <2>4, <2>5, <2>6, <2>7, <2>8
<1> QED
  BY <1>5, <1>6

\* A client that has had an answer to every call reads as many bytes as the length
\* says, and back what it wrote last where it is the only one to write, directly or
\* through the relay, for requests of any lengths at any addresses.
THEOREM ReadsYourWrites == Spec => []ReadYourWrites
<1> DEFINE All == TInv /\ Mine /\ ResultsGiven /\ Once /\ OwnAnswer
           Up == AtRelay /\ GivenKept /\ Fresh /\ Sized /\ ReadsBack
<1>1. Init => All
  BY InitAll
<1>2. Init => Up
  <2> SUFFICES ASSUME Init PROVE Up
    OBVIOUS
  <2>1. Len(<<>>) = 0 /\ 1..0 = {}
    OBVIOUS
  <2>2. /\ \A c \in Clients : calls[c] = <<>> /\ Len(calls[c]) = 0 /\ Len(result[c]) = 0
        /\ given = {} /\ toRelay = {} /\ \A a \in Addrs : mem[a] = Zero
    BY <2>1 DEF Init, BusInit
  <2>3. AtRelay /\ GivenKept /\ Sized /\ ReadsBack
    BY <2>1, <2>2 DEF AtRelay, GivenKept, Sized, ReadsBack, Back
  <2>4. ASSUME NEW c \in Clients, NEW a \in Addrs PROVE UpToDate(c, 0, a)
    <3>1. WritesBefore(c, 0, a) = {}
      <4>1. 1..(0 - 1) = {}
        OBVIOUS
      <4> QED
        BY <4>1 DEF WritesBefore
    <3>2. LastWritten(c, 0, a, Zero)
      BY <3>1 DEF LastWritten
    <3> QED
      BY <2>2, <3>2 DEF UpToDate, Given
  <2>5. Fresh
    BY <2>2, <2>4 DEF Fresh
  <2> QED
    BY <2>3, <2>5
<1>3. All /\ Up /\ [Next]_vars => All' /\ Up'
  BY AllStep, AtRelayStep, GivenKeptStep, FreshStep, SizedStep, ReadStep
<1>4. All /\ Up => ReadYourWrites
  <2> SUFFICES ASSUME All, Up, dups = 0, NEW c \in Clients, NEW k \in DOMAIN result[c],
                      calls[c][k].op = "read",
                      host[c] = "board" \/ \A j \in 1..k : calls[c][j].hop,
                      Undisturbed(c, k)
               PROVE  /\ Len(result[c][k].data) = Length(calls[c][k])
                      /\ \A a \in Cells(calls[c][k]) :
                           SoleWriter(c, a)
                             => LastWritten(c, k, a, result[c][k].data[Place(calls[c][k], a)])
    BY DEF ReadYourWrites
  <2>1. /\ k \in 1..Len(result[c]) /\ Len(result[c]) \in Nat /\ k \in 1..Len(calls[c])
    <3>1. /\ result[c] \in Seq(Answers) /\ Len(calls[c]) \in {Len(result[c]), Len(result[c]) + 1}
      BY LenProperties DEF TInv, TypeOK
    <3> QED
      BY <3>1
  <2>2. k \in Nat /\ k \in 1..k /\ k \in 0..Len(result[c]) /\ Cells(calls[c][k]) \subseteq Addrs
    <3>1. calls[c][k] \in Requests
      BY <2>1, Performing
    <3> QED
      BY <2>1, <3>1, CellsAre
  <2>3. result[c][k].from = <<c, k>> /\ result[c][k] \in given
    BY <2>2, AnsweredOwn
  <2>4. Len(result[c][k].data) = Length(calls[c][k])
    BY <2>2, <2>3 DEF Sized
  <2> QED
    BY <2>1, <2>2, <2>4 DEF ReadsBack, Back, ReadsAt
<1> QED
  BY <1>1, <1>2, <1>3, <1>4, PTL DEF Spec
=============================================================================
