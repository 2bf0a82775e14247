----------------------------- MODULE Spill_proofs -----------------------------
(***************************************************************************)
(* Proofs about Spill, for any sizes of words, messages, pipes and files,  *)
(* and any places of the markers.                                          *)
(*                                                                         *)
(* WrittenInOrder: PlaceInv says that the places hold the bytes that have  *)
(* been read and not thrown away, each once and in order, and every step   *)
(* is shown to map the places after it into those before it (Moved), so    *)
(* that the bytes at a place come from one place and keep their order.     *)
(* The order between the pipes needs that only the last one holds messages *)
(* as long as there is no overlap (Placed).                                *)
(*                                                                         *)
(* FilesEndAtSpills: Scanned says that data begins at a word of the        *)
(* message, that the words in front of i have been looked at, and that a   *)
(* marker among them lies behind one at which data begins; from it follows *)
(* that a marker that is a word of its message and is written without a    *)
(* stamp is close behind another (Marked).  Counted relates the stamps of  *)
(* each file to spillcount modulo NSpill.                                  *)
(***************************************************************************)
EXTENDS Spill, Integers, SequenceTheorems, FiniteSetTheorems, TLAPS

(***************************************************************************)
(* Types, and what the places of the two tasks say about their data.       *)
(***************************************************************************)
Messages == {m \in [from : Nat, to : Nat] : m.from <= m.to /\ m.to <= m.from + BufSize}
Entries == [kind : {"byte", "again", "stamp"}, k : Nat, off : Nat]

Typed ==
  /\ next \in Nat /\ next <= MaxBytes
  /\ buf \in Messages /\ message \in Messages
  /\ base \in Nat /\ i \in Nat /\ message.from <= base /\ base <= message.to
  /\ pipes \in [1..MaxPipes -> Seq(Messages)] /\ pipe \in 1..MaxPipes
  /\ written \in Seq(Entries)
  /\ marks \subseteq Nat /\ overlap \in BOOLEAN
  /\ spillcount \in Nat /\ begun \in Seq(Nat)

Placed ==
  /\ apc = "send" => buf.to = next
  /\ apc # "send" => buf = None
  /\ rpc # "scan" => base = message.to
  /\ ~overlap => \A p \in 1..MaxPipes : p # pipe => pipes[p] = <<>>

LEMMA Constants ==
  /\ Word \in Nat \ {0} /\ BufSize \in Nat \ {0} /\ NSpill \in Nat \ {0}
  /\ MaxPipes \in Nat \ {0} /\ MaxBytes \in Nat
  /\ None \in Messages /\ None.from = 0 /\ None.to = 0
<1>1. /\ Word \in Nat \ {0} /\ BufSize \in Nat \ {0} /\ NSpill \in Nat \ {0} /\ MaxPipes \in Nat \ {0}
      /\ MaxBytes \in Nat
  BY SpillAssumption
<1> QED
  BY <1>1 DEF None, Message, Messages

LEMMA BytesAre ==
  ASSUME NEW m \in Nat, NEW n \in Nat, NEW f \in Nat, m <= n, f <= m
  PROVE  /\ Bytes(m, n, f) \in Seq(Entries) /\ Len(Bytes(m, n, f)) = n - m /\ n - m \in Nat
         /\ \A j \in 1..(n - m) : Bytes(m, n, f)[j] = [kind |-> "byte", k |-> m + j, off |-> m + j - f]
<1> DEFINE d == n - m
           s == [j \in 1..d |-> [kind |-> "byte", k |-> m + j, off |-> m + j - f]]
<1>1. d \in Nat
  OBVIOUS
<1>2. \A j \in 1..d : m + j \in Nat /\ m + j - f \in Nat
  OBVIOUS
<1> HIDE DEF d
<1>3. s \in [1..d -> Entries]
  BY <1>2 DEF Entries
<1>4. s \in Seq(Entries)
  BY <1>1, <1>3, SeqDef
<1>5. Len(s) = d
  BY <1>1, <1>4, LenProperties
<1>6. \A j \in 1..d : s[j] = [kind |-> "byte", k |-> m + j, off |-> m + j - f]
  OBVIOUS
<1>7. Bytes(m, n, f) = s
  BY DEF Bytes, d
<1> QED
  BY <1>1, <1>4, <1>5, <1>6, <1>7 DEF d

LEMMA AgainAre ==
  ASSUME NEW m \in Nat, NEW n \in Nat, m <= n
  PROVE  /\ Again(m, n) \in Seq(Entries) /\ Len(Again(m, n)) = n - m /\ n - m \in Nat
         /\ \A j \in 1..(n - m) : Again(m, n)[j] = [kind |-> "again", k |-> m + j, off |-> 0]
<1> DEFINE d == n - m
           s == [j \in 1..d |-> [kind |-> "again", k |-> m + j, off |-> 0]]
<1>1. d \in Nat
  OBVIOUS
<1>2. \A j \in 1..d : m + j \in Nat
  OBVIOUS
<1> HIDE DEF d
<1>3. s \in [1..d -> Entries]
  BY <1>2 DEF Entries
<1>4. s \in Seq(Entries)
  BY <1>1, <1>3, SeqDef
<1>5. Len(s) = d
  BY <1>1, <1>4, LenProperties
<1>6. \A j \in 1..d : s[j] = [kind |-> "again", k |-> m + j, off |-> 0]
  OBVIOUS
<1>7. Again(m, n) = s
  BY DEF Again, d
<1> QED
  BY <1>1, <1>4, <1>5, <1>6, <1>7 DEF d

\* What SpillEnd writes: the bytes up to the marker, a stamp, and bytes once more.
LEMMA SpillWrites ==
  ASSUME Typed, SpillEnd
  PROVE  /\ written' \in Seq(Entries) /\ Len(written) \in Nat
         /\ base + i + Word \in Nat /\ base + i + Word <= message.to
         /\ Len(written') \in Nat /\ Len(written') >= Len(written) + i + Word + 1
         /\ \A j \in 1..Len(written) : written'[j] = written[j]
         /\ \A j \in 1..(i + Word) : written'[Len(written) + j] = [kind |-> "byte", k |-> base + j, off |-> base + j - message.from]
         /\ written'[Len(written) + i + Word + 1] = Stamp
         /\ \A j \in 1..Len(written') : j > Len(written) + i + Word + 1 => written'[j].kind = "again"
         /\ begun' = IF Closes THEN Append(begun, Len(written) + i + Word + 1) ELSE begun
<1> DEFINE N == Len(written)
           n == i + Word
           left == message.to - base - n
           a == Bytes(base, base + n, message.from)
           b == Again(message.from, message.from + left)
           s1 == written \o a
           s2 == s1 \o <<Stamp>>
<1>1. /\ written \in Seq(Entries) /\ base \in Nat /\ i \in Nat /\ message.from \in Nat
      /\ message.to \in Nat /\ base <= message.to /\ message.from <= base
      /\ i + Word <= message.to - base /\ n \in Nat /\ Word \in Nat \ {0}
  BY Constants DEF Typed, Messages, SpillEnd, data_size
<1>2. left \in Nat /\ base + n <= message.to
  BY <1>1
<1>3. N \in Nat
  BY <1>1, LenProperties
<1>4. /\ a \in Seq(Entries) /\ Len(a) = n
      /\ \A j \in 1..n : a[j] = [kind |-> "byte", k |-> base + j, off |-> base + j - message.from]
  <2> DEFINE c == base + n
             f == message.from
  <2>1. c \in Nat /\ base <= c /\ c - base = n /\ f \in Nat /\ f <= base /\ base \in Nat
    BY <1>1
  <2> HIDE DEF c, n, f
  <2>2. /\ Bytes(base, c, f) \in Seq(Entries) /\ Len(Bytes(base, c, f)) = c - base
        /\ \A j \in 1..(c - base) : Bytes(base, c, f)[j] = [kind |-> "byte", k |-> base + j, off |-> base + j - f]
    BY <2>1, BytesAre
  <2> QED
    BY <2>1, <2>2 DEF c, f
<1>5. /\ b \in Seq(Entries) /\ Len(b) = left
      /\ \A j \in 1..left : b[j] = [kind |-> "again", k |-> message.from + j, off |-> 0]
  <2> DEFINE x == message.from
  <2>1. x \in Nat
    BY <1>1
  <2> HIDE DEF x, left
  <2>2. x + left \in Nat /\ x <= x + left /\ (x + left) - x = left
    BY <1>2, <2>1
  <2>3. /\ Again(x, x + left) \in Seq(Entries) /\ Len(Again(x, x + left)) = left
        /\ \A j \in 1..left : Again(x, x + left)[j] = [kind |-> "again", k |-> x + j, off |-> 0]
    BY <2>1, <2>2, AgainAre
  <2> QED
    BY <2>3 DEF x
<1>6. Stamp \in Entries /\ <<Stamp>> \in Seq(Entries) /\ Len(<<Stamp>>) = 1 /\ <<Stamp>>[1] = Stamp
  BY DEF Stamp, Entries
<1>7. /\ written' = s2 \o b
      /\ begun' = IF Closes THEN Append(begun, Len(s2)) ELSE begun
  <2>1. Data(n) = a /\ data_size - (i + Word) = left
    BY DEF Data, data_size
  <2> QED
    BY <2>1 DEF SpillEnd
<1> HIDE DEF a, b, left, n, N
<1>8. /\ s1 \in Seq(Entries) /\ Len(s1) = N + n
      /\ \A j \in 1..(N + n) : s1[j] = IF j <= N THEN written[j] ELSE a[j - N]
  BY <1>1, <1>4, ConcatProperties DEF N
<1> HIDE DEF s1
<1>9. /\ s2 \in Seq(Entries) /\ Len(s2) = N + n + 1
      /\ \A j \in 1..(N + n + 1) : s2[j] = IF j <= N + n THEN s1[j] ELSE <<Stamp>>[j - (N + n)]
  BY <1>6, <1>8, ConcatProperties
<1> HIDE DEF s2
<1>10. /\ written' \in Seq(Entries) /\ Len(written') = N + n + 1 + left
       /\ \A j \in 1..(N + n + 1 + left) :
            written'[j] = IF j <= N + n + 1 THEN s2[j] ELSE b[j - (N + n + 1)]
  <2> DEFINE c == N + n + 1
  <2>1. s2 \in Seq(Entries) /\ Len(s2) = c
    BY <1>9
  <2> HIDE DEF c
  <2>2. /\ s2 \o b \in Seq(Entries) /\ Len(s2 \o b) = c + left
        /\ \A j \in 1..(c + left) : (s2 \o b)[j] = IF j <= c THEN s2[j] ELSE b[j - c]
    BY <1>5, <2>1, ConcatProperties
  <2> QED
    BY <1>7, <2>2 DEF c
<1>11. ASSUME NEW j \in 1..N PROVE written'[j] = written[j]
  <2>1. j \in 1..(N + n) /\ j \in 1..(N + n + 1) /\ j \in 1..(N + n + 1 + left)
        /\ j <= N + n + 1 /\ j <= N + n /\ j <= N
    BY <1>1, <1>2, <1>3
  <2> QED
    BY <1>8, <1>9, <1>10, <2>1
<1>12. ASSUME NEW j \in 1..n PROVE written'[N + j] = [kind |-> "byte", k |-> base + j, off |-> base + j - message.from]
  <2> DEFINE l == N + j
  <2>1. l \in 1..(N + n) /\ l \in 1..(N + n + 1) /\ l \in 1..(N + n + 1 + left)
        /\ l <= N + n + 1 /\ l <= N + n /\ ~(l <= N) /\ l - N = j
    BY <1>1, <1>2, <1>3
  <2> HIDE DEF l
  <2>2. written'[l] = a[j]
    BY <1>8, <1>9, <1>10, <2>1
  <2> QED
    BY <1>4, <2>2 DEF l
<1>13. written'[N + n + 1] = Stamp
  <2> DEFINE l == N + n + 1
  <2>1. l \in 1..(N + n + 1) /\ l \in 1..(N + n + 1 + left)
        /\ l <= N + n + 1 /\ ~(l <= N + n) /\ l - (N + n) = 1
    BY <1>1, <1>2, <1>3
  <2> HIDE DEF l
  <2>2. written'[l] = <<Stamp>>[1]
    BY <1>9, <1>10, <2>1
  <2> QED
    BY <1>6, <2>2 DEF l
<1>14. ASSUME NEW j \in 1..(N + n + 1 + left), j > N + n + 1 PROVE written'[j].kind = "again"
  <2>1. ~(j <= N + n + 1) /\ j - (N + n + 1) \in 1..left
    BY <1>1, <1>2, <1>3, <1>14
  <2>2. written'[j] = b[j - (N + n + 1)]
    BY <1>10, <2>1
  <2> QED
    BY <1>5, <2>1, <2>2
<1>15. N + n + 1 = N + i + Word + 1 /\ N + n + 1 + left \in Nat /\ N + n + 1 + left >= N + i + Word + 1
       /\ base + i + Word = base + n
  BY <1>1, <1>2, <1>3 DEF n
<1>16. base + n \in Nat
  BY <1>1
<1> QED
  BY <1>2, <1>3, <1>7, <1>9, <1>10, <1>11, <1>12, <1>13, <1>14, <1>15, <1>16 DEF N, n

\* What the end of the message writes: the bytes that are left.
Ends == Rest /\ ~(is_spill_end /\ data_size > 0)
LEMMA RestWrites ==
  ASSUME Typed, Ends
  PROVE  /\ written' \in Seq(Entries) /\ Len(written) \in Nat
         /\ message.to - base \in Nat /\ Len(written') = Len(written) + (message.to - base)
         /\ \A j \in 1..Len(written) : written'[j] = written[j]
         /\ \A j \in 1..(message.to - base) :
              written'[Len(written) + j] = [kind |-> "byte", k |-> base + j, off |-> base + j - message.from]
         /\ rpc' = "state" /\ base' = message.to
<1> DEFINE N == Len(written)
           n == message.to - base
           a == Bytes(base, base + n, message.from)
<1>1. /\ written \in Seq(Entries) /\ base \in Nat /\ message.to \in Nat /\ base <= message.to
      /\ message.from \in Nat /\ message.from <= base
  BY DEF Typed, Messages
<1>2. n \in Nat
  BY <1>1
<1>3. N \in Nat
  BY <1>1, LenProperties
<1>4. /\ written' = written \o a /\ rpc' = "state" /\ base' = message.to
  BY DEF Ends, Rest, Data, data_size
<1> HIDE DEF n
<1>5. /\ a \in Seq(Entries) /\ Len(a) = n
      /\ \A j \in 1..n : a[j] = [kind |-> "byte", k |-> base + j, off |-> base + j - message.from]
  <2> DEFINE c == base + n
             f == message.from
  <2>1. c \in Nat /\ base <= c /\ c - base = n /\ f \in Nat /\ f <= base /\ base \in Nat
    BY <1>1, <1>2
  <2> HIDE DEF c, n, f
  <2>2. /\ Bytes(base, c, f) \in Seq(Entries) /\ Len(Bytes(base, c, f)) = c - base
        /\ \A j \in 1..(c - base) : Bytes(base, c, f)[j] = [kind |-> "byte", k |-> base + j, off |-> base + j - f]
    BY <2>1, BytesAre
  <2> QED
    BY <2>1, <2>2 DEF c, f
<1> HIDE DEF a
<1>6. /\ written' \in Seq(Entries) /\ Len(written') = N + n
      /\ \A j \in 1..(N + n) : written'[j] = IF j <= N THEN written[j] ELSE a[j - N]
  BY <1>1, <1>4, <1>5, ConcatProperties
<1> HIDE DEF N
<1>7. ASSUME NEW j \in 1..N PROVE written'[j] = written[j]
  <2>1. j \in 1..(N + n) /\ j <= N
    BY <1>2, <1>3
  <2> QED
    BY <1>6, <2>1
<1>8. ASSUME NEW j \in 1..n PROVE written'[N + j] = [kind |-> "byte", k |-> base + j, off |-> base + j - message.from]
  <2> DEFINE l == N + j
  <2>1. l \in 1..(N + n) /\ ~(l <= N) /\ l - N = j
    BY <1>2, <1>3
  <2> HIDE DEF l
  <2> QED
    BY <1>5, <1>6, <2>1 DEF l
<1> QED
  BY <1>2, <1>3, <1>4, <1>6, <1>7, <1>8 DEF N, n

LEMMA TypedStep == Typed /\ Placed /\ [Next]_vars => Typed' /\ Placed'
<1> SUFFICES ASSUME Typed, Placed, [Next]_vars PROVE Typed' /\ Placed'
  OBVIOUS
<1> USE DEF avant, scan, ofs, rear, zmq, hist, vars
<1>1. CASE Command \/ CheckState \/ Alloc \/ RearEnter \/ RearState \/ RearDepth \/ UNCHANGED vars
  <2>1. /\ UNCHANGED <<next, buf, message, base, i, pipes, pipe, written, marks, lost, overlap,
                       spillcount, begun>>
        /\ (apc = "send") <=> (apc' = "send")
        /\ (rpc = "scan") <=> (rpc' = "scan")
    BY <1>1 DEF Command, CheckState, Alloc, RearEnter, RearState, RearDepth
  <2> QED
    BY <2>1 DEF Typed, Placed
<1>2. CASE Enter
  <2>1. PICK p \in DOMAIN pipes : pipes[p] = <<>> /\ pipe' = p
    BY <1>2 DEF Enter
  <2>2. /\ UNCHANGED <<next, buf, message, base, i, pipes, written, marks, lost, rpc,
                       spillcount, begun>>
        /\ apc # "send" /\ apc' # "send" /\ p \in 1..MaxPipes /\ overlap' \in BOOLEAN
        /\ ~overlap' => \A q \in 1..MaxPipes : pipes[q] = <<>>
    BY <1>2, <2>1 DEF Enter, Typed
  <2> QED
    BY <2>1, <2>2 DEF Typed, Placed
<1>3. CASE Read
  <2>1. /\ next' = (IF next + BufSize <= MaxBytes THEN next + BufSize ELSE MaxBytes)
        /\ buf' = [from |-> next, to |-> next'] /\ apc' = "send"
    BY <1>3 DEF Read, Message
  <2>2. /\ next' \in Nat /\ next' <= MaxBytes /\ next <= next' /\ next' <= next + BufSize
        /\ next \in Nat
    BY <2>1, Constants DEF Typed
  <2>3. buf' \in Messages /\ buf'.to = next'
    BY <2>1, <2>2 DEF Messages
  <2>4. UNCHANGED <<message, base, i, pipes, pipe, written, marks, lost, overlap, spillcount,
                    begun, rpc>>
    BY <1>3 DEF Read
  <2>5. Typed'
    BY <2>2, <2>3, <2>4 DEF Typed
  <2> QED
    BY <2>1, <2>3, <2>4, <2>5 DEF Placed
<1>4. CASE ReadFails
  <2>1. PICK k \in 0..(BufSize - 1) :
          next + k <= MaxBytes /\ next' = next + k /\ lost' = lost \cup {next + j : j \in 1..k}
    BY <1>4 DEF ReadFails
  <2>2. k \in Nat /\ next \in Nat /\ next' \in Nat /\ next' <= MaxBytes /\ next <= next'
    BY <2>1, Constants DEF Typed
  <2>3. /\ UNCHANGED <<buf, message, base, i, pipes, pipe, written, marks, overlap, spillcount,
                       begun, rpc>>
        /\ apc # "send" /\ apc' # "send"
    BY <1>4 DEF ReadFails
  <2> QED
    BY <2>2, <2>3 DEF Typed, Placed
<1>5. CASE Send
  <2>1. /\ pipes' = [pipes EXCEPT ![pipe] = Append(@, buf)] /\ buf' = None /\ apc' = "check"
        /\ UNCHANGED <<next, message, base, i, pipe, written, marks, lost, overlap, spillcount,
                       begun, rpc>>
    BY <1>5 DEF Send
  <2>2. Append(pipes[pipe], buf) \in Seq(Messages)
    <3>1. pipes[pipe] \in Seq(Messages) /\ buf \in Messages
      BY DEF Typed
    <3> QED
      BY <3>1, AppendProperties
  <2>3. /\ pipes' \in [1..MaxPipes -> Seq(Messages)]
        /\ \A p \in 1..MaxPipes : p # pipe => pipes'[p] = pipes[p]
    BY <2>1, <2>2 DEF Typed
  <2>4. Typed'
    BY <2>1, <2>3, Constants DEF Typed
  <2> QED
    BY <2>1, <2>3, <2>4 DEF Placed
<1>6. CASE SendFails
  <2>1. /\ UNCHANGED <<next, message, base, i, pipes, pipe, written, marks, overlap, spillcount,
                       begun, rpc>>
        /\ buf' = None /\ apc' = "out"
    BY <1>6 DEF SendFails
  <2> QED
    BY <2>1, Constants DEF Typed, Placed
<1>7. CASE RearRecv
  <2>1. /\ UNCHANGED <<next, buf, pipe, written, marks, lost, overlap, spillcount, begun, apc>>
        /\ base' = message'.from /\ i' = 0
    BY <1>7 DEF RearRecv
  <2>2. CASE rpc' = "state" /\ message' = None /\ UNCHANGED pipes
    <3>1. base' = 0 /\ message'.to = 0 /\ message' \in Messages /\ message'.from = 0
      BY <2>1, <2>2, Constants
    <3> QED
      BY <2>1, <2>2, <3>1 DEF Typed, Placed
  <2>3. ASSUME NEW p \in DOMAIN pipes, pipes[p] # <<>>, rpc' = "scan",
               message' = Head(pipes[p]), pipes' = [pipes EXCEPT ![p] = Tail(@)]
        PROVE  Typed' /\ Placed'
    <3>1. p \in 1..MaxPipes /\ pipes[p] \in Seq(Messages)
      BY DEF Typed
    <3>2. Head(pipes[p]) \in Messages /\ Tail(pipes[p]) \in Seq(Messages)
      BY <2>3, <3>1, HeadTailProperties
    <3>3. message' \in Messages /\ base' \in Nat /\ message'.from <= base' /\ base' <= message'.to
      BY <2>1, <2>3, <3>2 DEF Messages
    <3>4. pipes' \in [1..MaxPipes -> Seq(Messages)]
      BY <2>3, <3>1, <3>2 DEF Typed
    <3>5. ~overlap => p = pipe
      BY <2>3, <3>1 DEF Placed
    <3>6. ~overlap => \A q \in 1..MaxPipes : q # pipe => pipes'[q] = <<>>
      BY <2>3, <3>1, <3>5 DEF Placed, Typed
    <3> QED
      BY <2>1, <2>3, <3>3, <3>4, <3>6 DEF Typed, Placed
  <2> QED
    BY <1>7, <2>2, <2>3 DEF RearRecv
<1>8. CASE Skip
  <2>1. /\ UNCHANGED <<next, buf, message, base, pipes, pipe, written, marks, lost, overlap,
                       spillcount, begun, apc, rpc>>
        /\ i' = i + Word
    BY <1>8 DEF Skip
  <2>2. i' \in Nat
    BY <2>1, Constants DEF Typed
  <2> QED
    BY <2>1, <2>2 DEF Typed, Placed
<1>9. CASE SpillEnd
  <2>1. /\ UNCHANGED <<next, buf, message, pipes, pipe, marks, lost, overlap, apc, rpc>>
        /\ base' = base + i + Word /\ i' = i + Word /\ spillcount' = spillcount + 1 /\ rpc = "scan"
    BY <1>9 DEF SpillEnd, MovedBase
  <2>2. /\ written' \in Seq(Entries) /\ base' \in Nat /\ base' <= message.to /\ base <= base'
        /\ i' \in Nat /\ message.from <= base'
    <3>1. written' \in Seq(Entries) /\ base + i + Word \in Nat /\ base + i + Word <= message.to
      BY <1>9, SpillWrites
    <3>2. /\ base \in Nat /\ i \in Nat /\ Word \in Nat /\ message.from \in Nat
          /\ message.from <= base
      BY Constants DEF Typed, Messages
    <3> QED
      BY <2>1, <3>1, <3>2
  <2>3. begun' \in Seq(Nat)
    <3>1. begun' = (IF Closes THEN Append(begun, Len(written) + i + Word + 1) ELSE begun)
          /\ Len(written) \in Nat
      BY <1>9, SpillWrites
    <3>2. begun \in Seq(Nat) /\ Len(written) + i + Word + 1 \in Nat
      BY <3>1, Constants DEF Typed
    <3> QED
      BY <3>1, <3>2, AppendProperties
  <2> QED
    BY <2>1, <2>2, <2>3 DEF Typed, Placed
<1>10. CASE Rest
  <2>1. CASE Ends
    <3>1. UNCHANGED <<next, buf, message, i, pipes, pipe, marks, lost, overlap, apc, spillcount, begun>>
      BY <2>1 DEF Ends, Rest
    <3>2. written' \in Seq(Entries) /\ rpc' = "state" /\ base' = message.to
      BY <2>1, RestWrites
    <3>3. message.to \in Nat /\ message.from <= message.to
      BY DEF Typed, Messages
    <3> QED
      BY <3>1, <3>2, <3>3 DEF Typed, Placed
  <2>2. CASE ~Ends
    <3>1. /\ UNCHANGED <<next, buf, message, base, pipes, pipe, written, marks, lost, overlap, apc,
                         spillcount, begun, rpc>>
          /\ i' = 0
      BY <1>10, <2>2 DEF Ends, Rest
    <3> QED
      BY <3>1 DEF Typed, Placed
  <2> QED
    BY <2>1, <2>2
<1>11. CASE RearLeave
  <2>1. /\ pipes' = [p \in 1..MaxPipes |-> <<>>] /\ rpc # "scan" /\ rpc' # "scan"
        /\ UNCHANGED <<next, buf, message, base, i, pipe, written, marks, overlap, apc, spillcount, begun>>
    BY <1>11 DEF RearLeave, Typed
  <2>2. pipes' \in [1..MaxPipes -> Seq(Messages)] /\ \A p \in 1..MaxPipes : pipes'[p] = <<>>
    BY <2>1, EmptySeq
  <2> QED
    BY <2>1, <2>2 DEF Typed, Placed
<1> QED
  BY <1>6, <1>1, <1>2, <1>3, <1>4, <1>5, <1>7, <1>8, <1>9, <1>10, <1>11 DEF Next, Avant, Rear

(***************************************************************************)
(* Every byte is at one place.                                             *)
(***************************************************************************)
\* What the places are, by kind.
PlacesKnown ==
  /\ \A x \in Places :
       \/ \E j \in 1..Len(written) : x = <<1, 0, j>> /\ written[j].kind = "byte"
       \/ x = <<2, 0, 0>>
       \/ \E p \in 1..MaxPipes : \E j \in 1..Len(pipes[p]) : x = <<3, p, j>>
       \/ x = <<4, 0, 0>>
  /\ \A j \in 1..Len(written) : written[j].kind = "byte" => <<1, 0, j>> \in Places
  /\ <<2, 0, 0>> \in Places /\ <<4, 0, 0>> \in Places
  /\ \A p \in 1..MaxPipes : \A j \in 1..Len(pipes[p]) : <<3, p, j>> \in Places

LEMMA PlacesAre == (Typed => PlacesKnown) /\ (Typed => PlacesKnown)'
<1>1. Typed => PlacesKnown
  <2> SUFFICES ASSUME written \in Seq(Entries), pipes \in [1..MaxPipes -> Seq(Messages)]
               PROVE  PlacesKnown
    BY DEF Typed
  <2>1. DOMAIN written = 1..Len(written)
    BY LenProperties
  <2>2. DOMAIN pipes = 1..MaxPipes /\ \A p \in 1..MaxPipes : DOMAIN pipes[p] = 1..Len(pipes[p])
    BY LenProperties
  <2>3. ASSUME NEW x \in Places
        PROVE  \/ \E j \in 1..Len(written) : x = <<1, 0, j>> /\ written[j].kind = "byte"
               \/ x = <<2, 0, 0>>
               \/ \E p \in 1..MaxPipes : \E j \in 1..Len(pipes[p]) : x = <<3, p, j>>
               \/ x = <<4, 0, 0>>
    <3>1. CASE x \in {<<3, y[1], y[2]>> : y \in Waiting}
      <4>1. PICK y \in Waiting : x = <<3, y[1], y[2]>>
        BY <3>1
      <4>2. PICK p \in 1..MaxPipes : \E j \in 1..Len(pipes[p]) : y = <<p, j>>
        BY <2>2 DEF Waiting
      <4>3. PICK j \in 1..Len(pipes[p]) : y = <<p, j>>
        BY <4>2
      <4>4. x = <<3, p, j>>
        BY <4>1, <4>3
      <4> QED
        BY <4>4
    <3>2. CASE x \in {<<1, 0, j>> : j \in {j \in DOMAIN written : written[j].kind = "byte"}}
      BY <2>1, <3>2
    <3> QED
      BY <3>1, <3>2 DEF Places
  <2>4. ASSUME NEW p \in 1..MaxPipes, NEW j \in 1..Len(pipes[p]) PROVE <<3, p, j>> \in Places
    <3>1. <<p, j>> \in Waiting
      BY <2>2 DEF Waiting
    <3>2. <<3, p, j>> = <<3, <<p, j>>[1], <<p, j>>[2]>>
      OBVIOUS
    <3> QED
      BY <3>1, <3>2 DEF Places
  <2> QED
    BY <2>1, <2>3, <2>4 DEF Places, PlacesKnown
<1>2. (Typed => PlacesKnown)'
  BY <1>1, PTL
<1> QED
  BY <1>1, <1>2

LEMMA AtIs ==
  /\ \A j : At(<<1, 0, j>>) = {written[j].k} /\ At(<<1, 0, j>>)' = {written'[j].k}
  /\ At(<<2, 0, 0>>) = (base + 1)..message.to /\ At(<<2, 0, 0>>)' = (base' + 1)..message'.to
  /\ \A p, j : At(<<3, p, j>>) = Of(pipes[p][j]) /\ At(<<3, p, j>>)' = Of(pipes'[p][j])
  /\ At(<<4, 0, 0>>) = Of(buf) /\ At(<<4, 0, 0>>)' = Of(buf')
BY DEF At, Of

PlaceInv ==
  /\ lost \subseteq 1..next
  /\ \A x \in Places : At(x) \subseteq (1..next) \ lost
  /\ \A k \in (1..next) \ lost : \E x \in Places : k \in At(x)
  /\ \A x, y \in Places : \A k : k \in At(x) /\ k \in At(y) => x = y
  /\ ~overlap => \A x, y \in Places : Ahead(x, y) => \A k \in At(x), l \in At(y) : k < l

\* Words that move from one place to another.
LEMMA Moved ==
  ASSUME PlaceInv, NEW f, UNCHANGED <<next, lost>>, overlap' = overlap,
         \A x \in Places' : f[x] \in Places /\ At(x)' \subseteq At(f[x]),
         \A x \in Places : \A k \in At(x) : \E y \in Places' : k \in At(y)',
         \A x, y \in Places' : f[x] = f[y] => \A k : k \in At(x)' /\ k \in At(y)' => x = y,
         ~overlap => \A x, y \in Places' : Ahead(x, y) =>
           \/ Ahead(f[x], f[y])
           \/ \A k \in At(x)', l \in At(y)' : k < l
  PROVE  PlaceInv'
<1>1. \A x \in Places' : At(x)' \subseteq (1..next') \ lost'
  BY DEF PlaceInv
<1>2. \A k \in (1..next') \ lost' : \E x \in Places' : k \in At(x)'
  <2> TAKE k \in (1..next') \ lost'
  <2>1. PICK x \in Places : k \in At(x)
    BY DEF PlaceInv
  <2> QED
    BY <2>1
<1>3. ASSUME NEW x \in Places', NEW y \in Places', NEW k, k \in At(x)', k \in At(y)' PROVE x = y
  <2>1. f[x] \in Places /\ f[y] \in Places /\ k \in At(f[x]) /\ k \in At(f[y])
    BY <1>3
  <2>2. f[x] = f[y]
    BY <2>1 DEF PlaceInv
  <2> QED
    BY <1>3, <2>2
<1>4. ASSUME ~overlap, NEW x \in Places', NEW y \in Places', Ahead(x, y),
             NEW k \in At(x)', NEW l \in At(y)'
      PROVE  k < l
  <2>1. f[x] \in Places /\ f[y] \in Places /\ k \in At(f[x]) /\ l \in At(f[y])
    OBVIOUS
  <2> QED
    BY <1>4, <2>1 DEF PlaceInv
<1>5. \A x, y : Ahead(x, y)' <=> Ahead(x, y)
  BY DEF Ahead
<1> QED
  BY <1>1, <1>2, <1>3, <1>4, <1>5 DEF PlaceInv

LEMMA SamePlaces ==
  ASSUME UNCHANGED <<written, pipes, message, base, buf>>
  PROVE  Places' = Places /\ \A x : At(x)' = At(x) /\ \A y : Ahead(x, y)' <=> Ahead(x, y)
BY DEF Places, Waiting, At, Of, Ahead

\* The buffer becomes the last message of the pipe.
LEMMA SendPlaces ==
  ASSUME Typed, Placed, Typed', PlaceInv, Send PROVE PlaceInv'
<1>1. /\ pipes' = [pipes EXCEPT ![pipe] = Append(@, buf)] /\ buf' = None
      /\ UNCHANGED <<next, message, base, pipe, written, lost, overlap>>
  BY DEF Send, rear, scan, ofs, hist
<1>2. /\ pipe \in 1..MaxPipes /\ pipes[pipe] \in Seq(Messages) /\ buf \in Messages
      /\ pipes \in [1..MaxPipes -> Seq(Messages)] /\ written \in Seq(Entries)
      /\ pipes' \in [1..MaxPipes -> Seq(Messages)] /\ written' \in Seq(Entries)
  BY DEF Typed
<1>3. PICK P \in 1..MaxPipes, L \in Nat : P = pipe /\ L = Len(pipes[pipe])
  BY <1>2, LenProperties
<1> DEFINE new == <<3, P, L + 1>>
           f == [x \in Places' |-> IF x = new THEN <<4, 0, 0>> ELSE x]
<1>4. /\ Len(pipes'[P]) = L + 1 /\ pipes'[P][L + 1] = buf /\ L = Len(pipes[P])
      /\ \A j \in 1..L : pipes'[P][j] = pipes[P][j]
  <2>1. pipes'[P] = Append(pipes[P], buf) /\ pipes[P] \in Seq(Messages) /\ L = Len(pipes[P])
    BY <1>1, <1>2, <1>3
  <2> QED
    BY <1>2, <2>1, AppendProperties, LenProperties
<1>5. \A p \in 1..MaxPipes : p # P => pipes'[p] = pipes[p]
  BY <1>1, <1>2, <1>3
<1>6. Of(buf') = {}
  <2>1. Of(buf') = 1..0
    BY <1>1, Constants DEF Of
  <2> QED
    BY <2>1
<1>7. ASSUME NEW p \in 1..MaxPipes, NEW j \in 1..Len(pipes'[p]), <<3, p, j>> # new
      PROVE  j \in 1..Len(pipes[p]) /\ pipes'[p][j] = pipes[p][j]
  <2>1. CASE p = P
    <3>1. j \in 1..L
      BY <1>4, <1>7, <2>1
    <3> QED
      BY <1>4, <2>1, <3>1
  <2>2. CASE p # P
    BY <1>5, <2>2
  <2> QED
    BY <2>1, <2>2
<1>8. ASSUME NEW p \in 1..MaxPipes, NEW j \in 1..Len(pipes[p])
      PROVE  j \in 1..Len(pipes'[p]) /\ pipes'[p][j] = pipes[p][j]
  <2>1. CASE p = P
    BY <1>4, <2>1
  <2>2. CASE p # P
    BY <1>5, <2>2
  <2> QED
    BY <2>1, <2>2
<1>9. PlacesKnown /\ PlacesKnown'
  BY PlacesAre
<1>10. \A x \in Places' :
        \/ \E j \in 1..Len(written) : x = <<1, 0, j>> /\ written[j].kind = "byte"
        \/ x = <<2, 0, 0>>
        \/ x = new
        \/ \E p \in 1..MaxPipes : \E j \in 1..Len(pipes[p]) :
             x = <<3, p, j>> /\ j \in 1..Len(pipes'[p]) /\ pipes'[p][j] = pipes[p][j]
        \/ x = <<4, 0, 0>>
  BY <1>1, <1>7, <1>9 DEF PlacesKnown
<1>11. At(new)' = Of(buf) /\ At(<<4, 0, 0>>)' = {} /\ At(<<4, 0, 0>>) = Of(buf)
  BY <1>4, <1>6, AtIs
<1>12. new \in Places' /\ <<4, 0, 0>> \in Places /\ new # <<4, 0, 0>>
  <2>1. L + 1 \in 1..Len(pipes'[P])
    BY <1>4
  <2> QED
    BY <1>9, <2>1 DEF PlacesKnown
<1>13. ASSUME NEW x \in Places' PROVE f[x] \in Places /\ At(x)' \subseteq At(f[x])
  <2>1. CASE x = new
    BY <1>11, <1>12, <2>1
  <2>2. CASE x # new
    <3>1. f[x] = x
      BY <2>2
    <3>2. x \in Places /\ At(x)' \subseteq At(x)
      <4>1. CASE \E j \in 1..Len(written) : x = <<1, 0, j>> /\ written[j].kind = "byte"
        BY <1>1, <1>9, <4>1, AtIs DEF PlacesKnown
      <4>2. CASE x = <<2, 0, 0>> \/ x = <<4, 0, 0>>
        BY <1>1, <1>11, <1>9, <4>2, AtIs DEF PlacesKnown
      <4>3. ASSUME NEW p \in 1..MaxPipes, NEW j \in 1..Len(pipes[p]), x = <<3, p, j>>,
                   pipes'[p][j] = pipes[p][j]
            PROVE  x \in Places /\ At(x)' \subseteq At(x)
        <5>1. x \in Places
          BY <1>9, <4>3 DEF PlacesKnown
        <5>2. At(x)' = Of(pipes[p][j]) /\ At(x) = Of(pipes[p][j])
          BY <4>3, AtIs
        <5> QED
          BY <5>1, <5>2
      <4> QED
        BY <1>10, <2>2, <4>1, <4>2, <4>3
    <3> QED
      BY <3>1, <3>2
  <2> QED
    BY <2>1, <2>2
<1>14. ASSUME NEW x \in Places, NEW k \in At(x) PROVE \E y \in Places' : k \in At(y)'
  <2>1. CASE x = <<4, 0, 0>>
    BY <1>11, <1>12, <2>1
  <2>2. ASSUME NEW j \in 1..Len(written), x = <<1, 0, j>>, written[j].kind = "byte"
        PROVE  \E y \in Places' : k \in At(y)'
    <3>1. x \in Places'
      BY <1>1, <1>9, <2>2 DEF PlacesKnown
    <3>2. At(x)' = {written[j].k} /\ At(x) = {written[j].k}
      BY <1>1, <2>2, AtIs
    <3> QED
      BY <3>1, <3>2
  <2>3. CASE x = <<2, 0, 0>>
    <3>1. x \in Places' /\ At(x)' = At(x)
      BY <1>1, <1>9, <2>3, AtIs DEF PlacesKnown
    <3> QED
      BY <3>1
  <2>4. ASSUME NEW p \in 1..MaxPipes, NEW j \in 1..Len(pipes[p]), x = <<3, p, j>>
        PROVE  \E y \in Places' : k \in At(y)'
    <3>1. j \in 1..Len(pipes'[p]) /\ pipes'[p][j] = pipes[p][j]
      BY <1>8
    <3>2. x \in Places'
      BY <1>9, <2>4, <3>1 DEF PlacesKnown
    <3>3. At(x)' = Of(pipes[p][j]) /\ At(x) = Of(pipes[p][j])
      BY <2>4, <3>1, AtIs
    <3> QED
      BY <3>2, <3>3
  <2> QED
    BY <1>9, <2>1, <2>2, <2>3, <2>4 DEF PlacesKnown
<1>15. \A x, y \in Places' : f[x] = f[y] => \A k : k \in At(x)' /\ k \in At(y)' => x = y
  BY <1>11
<1>16. ASSUME ~overlap, NEW x \in Places', NEW y \in Places', Ahead(x, y)
       PROVE  Ahead(f[x], f[y]) \/ \A k \in At(x)', l \in At(y)' : k < l
  <2>1. CASE y = new
    <3>1. x # new
      BY <1>4, <1>16, <2>1 DEF Ahead
    <3>2. x # <<4, 0, 0>>
      BY <1>16, <2>1 DEF Ahead
    <3>3. x[1] \in {1, 2, 3}
      BY <1>10, <3>1, <3>2
    <3>4. Ahead(x, <<4, 0, 0>>)
      BY <3>3 DEF Ahead
    <3> QED
      BY <2>1, <3>1, <3>4
  <2>2. CASE x = new /\ y # new
    <3>1. CASE y = <<4, 0, 0>>
      BY <1>11, <3>1
    <3>2. CASE y # <<4, 0, 0>>
      <4>1. y[1] >= 3
        <5>1. x[1] = 3 /\ y[1] \in {1, 2, 3, 4}
          BY <1>10, <2>2
        <5> QED
          BY <1>16, <5>1 DEF Ahead
      <4>2. PICK p \in 1..MaxPipes : \E j \in 1..Len(pipes'[p]) : y = <<3, p, j>>
        BY <1>10, <2>2, <3>2, <4>1
      <4>3. PICK j \in 1..Len(pipes'[p]) : y = <<3, p, j>>
        BY <4>2
      <4>4. p = P
        <5>1. pipes'[p] # <<>>
          BY <4>3, EmptySeq
        <5> QED
          BY <1>1, <1>3, <1>5, <1>16, <5>1 DEF Placed
      <4>5. j > L + 1
        BY <1>16, <2>2, <4>3 DEF Ahead
      <4> QED
        BY <1>4, <4>3, <4>4, <4>5
    <3> QED
      BY <3>1, <3>2
  <2>3. CASE x # new /\ y # new
    BY <1>16, <2>3
  <2> QED
    BY <2>1, <2>2, <2>3
<1>17. PICK g : g = f
  OBVIOUS
<1> HIDE DEF f
<1> QED
  BY <1>1, <1>13, <1>14, <1>15, <1>16, <1>17, Moved

LEMMA Stayed ==
  ASSUME PlaceInv, UNCHANGED <<next, lost>>, ~overlap' => ~overlap, Places' = Places,
         \A x \in Places : At(x)' = At(x)
  PROVE  PlaceInv'
<1>1. \A x, y : Ahead(x, y)' <=> Ahead(x, y)
  BY DEF Ahead
<1> QED
  BY <1>1 DEF PlaceInv

\* The first message of a pipe becomes the message; of the last one nothing is left.
LEMMA RecvPlaces ==
  ASSUME Typed, Placed, Typed', PlaceInv, RearRecv PROVE PlaceInv'
<1>1. /\ UNCHANGED <<next, buf, written, lost, overlap>> /\ base' = message'.from
      /\ base = message.to
  BY DEF RearRecv, Placed, avant, ofs, hist
<1>2. At(<<2, 0, 0>>) = {}
  <2>1. At(<<2, 0, 0>>) = (base + 1)..base /\ base \in Nat
    BY <1>1, AtIs DEF Typed
  <2> QED
    BY <2>1
<1>3. PlacesKnown /\ PlacesKnown'
  BY PlacesAre
<1>4. CASE UNCHANGED pipes /\ message' = None
  <2>1. At(<<2, 0, 0>>)' = {}
    <3>1. At(<<2, 0, 0>>)' = 1..0
      BY <1>1, <1>4, AtIs, Constants
    <3> QED
      BY <3>1
  <2>2. Places' = Places
    BY <1>1, <1>4 DEF Places, Waiting
  <2>3. ASSUME NEW x \in Places PROVE At(x)' = At(x)
    <3>1. CASE x = <<2, 0, 0>>
      BY <1>2, <2>1, <3>1
    <3>2. CASE x = <<4, 0, 0>>
      BY <1>1, <3>2, AtIs
    <3>3. ASSUME NEW j, x = <<1, 0, j>> PROVE At(x)' = At(x)
      BY <1>1, <3>3, AtIs
    <3>4. ASSUME NEW p, NEW j, x = <<3, p, j>> PROVE At(x)' = At(x)
      BY <1>4, <3>4, AtIs
    <3> QED
      BY <1>3, <3>1, <3>2, <3>3, <3>4 DEF PlacesKnown
  <2> QED
    BY <1>1, <2>2, <2>3, Stayed
<1>5. ASSUME NEW P \in DOMAIN pipes, pipes[P] # <<>>, message' = Head(pipes[P]),
             pipes' = [pipes EXCEPT ![P] = Tail(@)]
      PROVE  PlaceInv'
  <2>1. /\ P \in 1..MaxPipes /\ pipes[P] \in Seq(Messages) /\ pipes \in [1..MaxPipes -> Seq(Messages)]
        /\ pipes' \in [1..MaxPipes -> Seq(Messages)]
    BY DEF Typed
  <2>2. PICK L \in Nat : L = Len(pipes[P])
    BY <2>1, LenProperties
  <2>3. /\ L # 0 /\ Len(pipes'[P]) = L - 1 /\ message' = pipes[P][1]
        /\ \A j \in 1..(L - 1) : pipes'[P][j] = pipes[P][j + 1]
    <3>1. pipes'[P] = Tail(pipes[P])
      BY <1>5, <2>1
    <3>2. Head(pipes[P]) = pipes[P][1]
      BY <1>5, <2>1
    <3>3. L # 0
      BY <1>5, <2>1, <2>2, EmptySeq
    <3> QED
      BY <1>5, <2>1, <2>2, <3>1, <3>2, <3>3, HeadTailProperties
  <2>4. \A p \in 1..MaxPipes : p # P => pipes'[p] = pipes[p]
    BY <1>5, <2>1
  <2>5. At(<<2, 0, 0>>)' = Of(pipes[P][1])
    BY <1>1, <2>3, AtIs DEF Of
  <2> DEFINE f == [x \in Places' |-> IF x = <<2, 0, 0>> THEN <<3, P, 1>>
                                     ELSE IF x[1] = 3 /\ x[2] = P THEN <<3, P, x[3] + 1>> ELSE x]
  \* The kinds of the places there are now, and where they were.
  <2>6. ASSUME NEW j, <<1, 0, j>> \in Places'
        PROVE  /\ <<1, 0, j>> \in Places /\ f[<<1, 0, j>>] = <<1, 0, j>>
               /\ At(<<1, 0, j>>)' = At(<<1, 0, j>>)
    <3>1. f[<<1, 0, j>>] = <<1, 0, j>>
      BY <2>6
    <3>2. <<1, 0, j>> \in Places
      BY <1>1, <1>3, <2>6 DEF PlacesKnown
    <3>3. At(<<1, 0, j>>)' = At(<<1, 0, j>>)
      BY <1>1, AtIs
    <3> QED
      BY <3>1, <3>2, <3>3
  <2>7. /\ <<2, 0, 0>> \in Places' /\ f[<<2, 0, 0>>] = <<3, P, 1>> /\ <<3, P, 1>> \in Places
        /\ At(<<2, 0, 0>>)' = At(<<3, P, 1>>)
    <3>1. 1 \in 1..Len(pipes[P])
      BY <2>2, <2>3
    <3> QED
      BY <1>3, <2>1, <2>5, <3>1, AtIs DEF PlacesKnown
  <2>8. ASSUME NEW j \in 1..Len(pipes'[P])
        PROVE  /\ <<3, P, j>> \in Places' /\ f[<<3, P, j>>] = <<3, P, j + 1>>
               /\ <<3, P, j + 1>> \in Places /\ At(<<3, P, j>>)' = At(<<3, P, j + 1>>)
    <3>1. j \in 1..(L - 1) /\ j + 1 \in 1..Len(pipes[P])
      BY <2>2, <2>3
    <3>2. <<3, P, j>> \in Places' /\ <<3, P, j + 1>> \in Places
      BY <1>3, <2>1, <3>1 DEF PlacesKnown
    <3>3. At(<<3, P, j>>)' = Of(pipes'[P][j]) /\ At(<<3, P, j + 1>>) = Of(pipes[P][j + 1])
      BY AtIs
    <3>4. f[<<3, P, j>>] = <<3, P, j + 1>>
      BY <3>2
    <3> QED
      BY <2>3, <3>1, <3>2, <3>3, <3>4
  <2>9. ASSUME NEW p \in 1..MaxPipes, p # P, NEW j \in 1..Len(pipes[p])
        PROVE  /\ <<3, p, j>> \in Places' /\ f[<<3, p, j>>] = <<3, p, j>>
               /\ <<3, p, j>> \in Places /\ At(<<3, p, j>>)' = At(<<3, p, j>>)
    <3>1. pipes'[p] = pipes[p]
      BY <2>4, <2>9
    <3>2. <<3, p, j>> \in Places' /\ <<3, p, j>> \in Places
      BY <1>3, <3>1 DEF PlacesKnown
    <3>3. At(<<3, p, j>>)' = At(<<3, p, j>>)
      BY <3>1, AtIs
    <3>4. f[<<3, p, j>>] = <<3, p, j>>
      BY <2>9, <3>2
    <3> QED
      BY <3>2, <3>3, <3>4
  <2>10. /\ <<4, 0, 0>> \in Places' /\ f[<<4, 0, 0>>] = <<4, 0, 0>> /\ <<4, 0, 0>> \in Places
         /\ At(<<4, 0, 0>>)' = At(<<4, 0, 0>>)
    BY <1>1, <1>3, AtIs DEF PlacesKnown
  <2>11. \A x \in Places' :
           \/ \E j \in 1..Len(written) : x = <<1, 0, j>>
           \/ x = <<2, 0, 0>>
           \/ \E j \in 1..Len(pipes'[P]) : x = <<3, P, j>>
           \/ \E p \in 1..MaxPipes : p # P /\ \E j \in 1..Len(pipes[p]) : x = <<3, p, j>>
           \/ x = <<4, 0, 0>>
    BY <1>1, <1>3, <2>4 DEF PlacesKnown
  <2> HIDE DEF f
  <2> DEFINE Image(z) == \/ \E j \in 1..Len(written) : z = <<1, 0, j>> /\ f[z] = z
                         \/ z = <<2, 0, 0>> /\ f[z] = <<3, P, 1>>
                         \/ \E j \in 1..Len(pipes'[P]) : z = <<3, P, j>> /\ f[z] = <<3, P, j + 1>>
                         \/ \E p \in 1..MaxPipes : p # P /\ \E j \in 1..Len(pipes[p]) :
                              z = <<3, p, j>> /\ f[z] = z
                         \/ z = <<4, 0, 0>> /\ f[z] = z
  <2>12. ASSUME NEW x \in Places' PROVE f[x] \in Places /\ At(x)' \subseteq At(f[x]) /\ Image(x)
    <3> DEFINE Goal == f[x] \in Places /\ At(x)' \subseteq At(f[x]) /\ Image(x)
    <3>1. ASSUME NEW j \in 1..Len(written), x = <<1, 0, j>> PROVE Goal
      BY <2>6, <3>1
    <3>2. CASE x = <<2, 0, 0>>
      BY <2>7, <3>2
    <3>3. ASSUME NEW j \in 1..Len(pipes'[P]), x = <<3, P, j>> PROVE Goal
      BY <2>8, <3>3
    <3>4. ASSUME NEW p \in 1..MaxPipes, p # P, NEW j \in 1..Len(pipes[p]), x = <<3, p, j>> PROVE Goal
      BY <2>9, <3>4
    <3>5. CASE x = <<4, 0, 0>>
      BY <2>10, <3>5
    <3> QED
      BY <2>11, <3>1, <3>2, <3>3, <3>4, <3>5
  <2>13. ASSUME NEW x \in Places, NEW k \in At(x) PROVE \E y \in Places' : k \in At(y)'
    <3>1. ASSUME NEW j \in 1..Len(written), x = <<1, 0, j>>, written[j].kind = "byte"
          PROVE  \E y \in Places' : k \in At(y)'
      <4>1. x \in Places' /\ At(x)' = At(x)
        BY <1>1, <1>3, <3>1, AtIs DEF PlacesKnown
      <4> QED
        BY <4>1
    <3>2. x # <<2, 0, 0>>
      BY <1>2, <2>13
    <3>3. ASSUME NEW p \in 1..MaxPipes, NEW j \in 1..Len(pipes[p]), x = <<3, p, j>>, p # P
          PROVE  \E y \in Places' : k \in At(y)'
      BY <2>9, <3>3
    <3>4. ASSUME NEW j \in 1..Len(pipes[P]), x = <<3, P, j>>
          PROVE  \E y \in Places' : k \in At(y)'
      <4>1. CASE j = 1
        BY <2>7, <3>4, <4>1
      <4>2. CASE j # 1
        <5>1. j - 1 \in 1..Len(pipes'[P]) /\ (j - 1) + 1 = j
          BY <2>2, <2>3, <4>2
        <5>2. <<3, P, j - 1>> \in Places' /\ At(<<3, P, j - 1>>)' = At(<<3, P, (j - 1) + 1>>)
          BY <2>8, <5>1
        <5> QED
          BY <3>4, <5>1, <5>2
      <4> QED
        BY <4>1, <4>2
    <3>5. CASE x = <<4, 0, 0>>
      BY <2>10, <3>5
    <3> QED
      BY <1>3, <3>1, <3>2, <3>3, <3>4, <3>5 DEF PlacesKnown
  <2> DEFINE Back(z) == IF z = <<3, P, 1>> THEN <<2, 0, 0>>
                        ELSE IF z[1] = 3 /\ z[2] = P THEN <<3, P, z[3] - 1>> ELSE z
  <2>14. ASSUME NEW x \in Places' PROVE x = Back(f[x])
    <3>1. ASSUME NEW j \in 1..Len(written), x = <<1, 0, j>>, f[x] = x PROVE x = Back(f[x])
      BY <3>1
    <3>2. CASE x = <<2, 0, 0>> /\ f[x] = <<3, P, 1>>
      BY <3>2
    <3>3. ASSUME NEW j \in 1..Len(pipes'[P]), x = <<3, P, j>>, f[x] = <<3, P, j + 1>>
          PROVE  x = Back(f[x])
      <4>1. j + 1 # 1 /\ (j + 1) - 1 = j
        BY <2>3
      <4> QED
        BY <3>3, <4>1
    <3>4. ASSUME NEW p \in 1..MaxPipes, p # P, NEW j \in 1..Len(pipes[p]), x = <<3, p, j>>, f[x] = x
          PROVE  x = Back(f[x])
      BY <3>4
    <3>5. CASE x = <<4, 0, 0>> /\ f[x] = x
      BY <3>5
    <3> QED
      BY <2>12, <3>1, <3>2, <3>3, <3>4, <3>5
  <2>15. ASSUME ~overlap, NEW x \in Places', NEW y \in Places', Ahead(x, y)
         PROVE  Ahead(f[x], f[y])
    <3>1. \A p \in 1..MaxPipes : p # P => Len(pipes[p]) = 0
      <4>1. P = pipe
        BY <1>5, <2>1, <2>15 DEF Placed
      <4> QED
        BY <2>15, <4>1, EmptySeq DEF Placed
    <3> DEFINE Kind(z) == \/ \E j \in 1..Len(written) : z = <<1, 0, j>> /\ f[z] = z
                          \/ z = <<2, 0, 0>> /\ f[z] = <<3, P, 1>>
                          \/ \E j \in 1..Len(pipes'[P]) : z = <<3, P, j>> /\ f[z] = <<3, P, j + 1>>
                          \/ z = <<4, 0, 0>> /\ f[z] = z
    <3>2. \A z \in Places' : Kind(z)
      <4> TAKE z \in Places'
      <4>1. Image(z)
        BY <2>12
      <4>2. \A p \in 1..MaxPipes : p # P => 1..Len(pipes[p]) = {}
        BY <3>1
      <4> QED
        BY <4>1, <4>2
    <3>3. Kind(x) /\ Kind(y)
      BY <3>2
    <3>4. Len(pipes'[P]) \in Nat /\ Len(written) \in Nat
      BY <1>1, <2>1, LenProperties DEF Typed
    <3> QED
      BY <2>15, <3>3, <3>4 DEF Ahead
  <2>16. PICK g : g = f
    OBVIOUS
  <2>17. \A x, y \in Places' : f[x] = f[y] => x = y
    BY <2>14
  <2> QED
    BY <1>1, <2>12, <2>13, <2>15, <2>16, <2>17, Moved
<1> QED
  BY <1>4, <1>5 DEF RearRecv

\* Bytes of the message become bytes of a file.
LEMMA WritePlaces ==
  ASSUME Typed, Typed', PlaceInv, UNCHANGED <<next, lost, overlap, message, pipes, buf>>,
         NEW n \in Nat, NEW N \in Nat, N = Len(written), N + n <= Len(written'),
         base' = base + n, base' <= message.to,
         \A j \in 1..N : written'[j] = written[j],
         \A j \in 1..n : written'[N + j] = [kind |-> "byte", k |-> base + j, off |-> base + j - message.from],
         \A j \in 1..Len(written') : j > N + n => written'[j].kind # "byte"
  PROVE  PlaceInv'
<1> DEFINE f == [x \in Places' |-> IF x[1] = 1 /\ x[3] > N THEN <<2, 0, 0>> ELSE x]
<1>1. PlacesKnown /\ PlacesKnown'
  BY PlacesAre
<1>2. /\ Len(written') \in Nat /\ base \in Nat /\ message.to \in Nat /\ message' = message
      /\ pipes' = pipes /\ buf' = buf
  <2>1. written' \in Seq(Entries) /\ base \in Nat /\ message.to \in Nat
    BY DEF Typed, Messages
  <2> QED
    BY <2>1, LenProperties
<1>3. ASSUME NEW j \in 1..N, written[j].kind = "byte"
      PROVE  /\ <<1, 0, j>> \in Places' /\ <<1, 0, j>> \in Places /\ f[<<1, 0, j>>] = <<1, 0, j>>
             /\ At(<<1, 0, j>>)' = At(<<1, 0, j>>)
  <2>1. j \in 1..Len(written') /\ written'[j] = written[j] /\ ~(j > N)
    BY <1>2
  <2>2. <<1, 0, j>> \in Places' /\ <<1, 0, j>> \in Places
    BY <1>1, <1>3, <2>1 DEF PlacesKnown
  <2>3. At(<<1, 0, j>>)' = At(<<1, 0, j>>)
    <3>1. At(<<1, 0, j>>) = {written[j].k} /\ At(<<1, 0, j>>)' = {written'[j].k}
      BY AtIs
    <3> QED
      BY <2>1, <3>1
  <2> QED
    BY <2>1, <2>2, <2>3
<1>4. ASSUME NEW j \in 1..n
      PROVE  /\ <<1, 0, N + j>> \in Places' /\ f[<<1, 0, N + j>>] = <<2, 0, 0>>
             /\ At(<<1, 0, N + j>>)' = {base + j}
  <2>1. N + j \in 1..Len(written') /\ N + j > N
    BY <1>2
  <2>2. written'[N + j].kind = "byte" /\ written'[N + j].k = base + j
    <3>1. written'[N + j] = [kind |-> "byte", k |-> base + j, off |-> base + j - message.from]
      OBVIOUS
    <3> QED
      BY <3>1
  <2>3. <<1, 0, N + j>> \in Places'
    BY <1>1, <2>1, <2>2 DEF PlacesKnown
  <2>4. At(<<1, 0, N + j>>)' = {base + j}
    BY <2>2, AtIs
  <2> QED
    BY <2>1, <2>3, <2>4
<1>5. /\ <<2, 0, 0>> \in Places' /\ <<2, 0, 0>> \in Places /\ f[<<2, 0, 0>>] = <<2, 0, 0>>
      /\ At(<<2, 0, 0>>) = (base + 1)..message.to /\ At(<<2, 0, 0>>)' = (base + n + 1)..message.to
  BY <1>1, <1>2, AtIs DEF PlacesKnown
<1>6. ASSUME NEW p \in 1..MaxPipes, NEW j \in 1..Len(pipes[p])
      PROVE  /\ <<3, p, j>> \in Places' /\ <<3, p, j>> \in Places /\ f[<<3, p, j>>] = <<3, p, j>>
             /\ At(<<3, p, j>>)' = At(<<3, p, j>>)
  <2>1. <<3, p, j>> \in Places' /\ <<3, p, j>> \in Places
    BY <1>1, <1>2 DEF PlacesKnown
  <2>2. At(<<3, p, j>>)' = At(<<3, p, j>>)
    BY <1>2, AtIs
  <2> QED
    BY <2>1, <2>2
<1>7. /\ <<4, 0, 0>> \in Places' /\ <<4, 0, 0>> \in Places /\ f[<<4, 0, 0>>] = <<4, 0, 0>>
      /\ At(<<4, 0, 0>>)' = At(<<4, 0, 0>>)
  BY <1>1, <1>2, AtIs DEF PlacesKnown
<1> DEFINE Kind(z) == \/ \E j \in 1..N : z = <<1, 0, j>> /\ written[j].kind = "byte"
                      \/ \E j \in 1..n : z = <<1, 0, N + j>>
                      \/ z = <<2, 0, 0>>
                      \/ \E p \in 1..MaxPipes : \E j \in 1..Len(pipes[p]) : z = <<3, p, j>>
                      \/ z = <<4, 0, 0>>
<1>8. ASSUME NEW z \in Places' PROVE Kind(z)
  <2>1. ASSUME NEW j \in 1..Len(written'), z = <<1, 0, j>>, written'[j].kind = "byte" PROVE Kind(z)
    <3>1. j <= N + n
      BY <2>1
    <3>2. CASE j <= N
      <4>1. j \in 1..N
        BY <3>2
      <4> QED
        BY <2>1, <4>1
    <3>3. CASE ~(j <= N)
      <4>1. j - N \in 1..n /\ N + (j - N) = j
        BY <3>1, <3>3
      <4> QED
        BY <2>1, <4>1
    <3> QED
      BY <3>2, <3>3
  <2> HIDE DEF f
  <2> QED
    BY <1>1, <1>2, <2>1 DEF PlacesKnown
<1> HIDE DEF f
<1> DEFINE Stays(z) == f[z] = z /\ z \in Places /\ At(z)' \subseteq At(z)
           New(z, j) == z = <<1, 0, N + j>> /\ f[z] = <<2, 0, 0>> /\ At(z)' = {base + j}
           Image(z) == \/ Stays(z) /\ z[1] = 1 /\ z[3] \in 1..N
                       \/ \E j \in 1..n : New(z, j)
                       \/ Stays(z) /\ z = <<2, 0, 0>>
                       \/ Stays(z) /\ z[1] \in {3, 4}
<1>9. ASSUME NEW x \in Places' PROVE Image(x)
  <2>1. ASSUME NEW j \in 1..N, x = <<1, 0, j>>, written[j].kind = "byte" PROVE Image(x)
    BY <1>3, <2>1
  <2>2. ASSUME NEW j \in 1..n, x = <<1, 0, N + j>> PROVE Image(x)
    <3>1. New(x, j)
      BY <1>4, <2>2
    <3> QED
      BY <3>1
  <2>3. CASE x = <<2, 0, 0>>
    <3>1. (base + n + 1)..message.to \subseteq (base + 1)..message.to
      BY <1>2
    <3> QED
      BY <1>5, <2>3, <3>1
  <2>4. ASSUME NEW p \in 1..MaxPipes, NEW j \in 1..Len(pipes[p]), x = <<3, p, j>> PROVE Image(x)
    BY <1>6, <2>4
  <2>5. CASE x = <<4, 0, 0>>
    BY <1>7, <2>5
  <2> QED
    BY <1>8, <2>1, <2>2, <2>3, <2>4, <2>5
<1>10. ASSUME NEW x \in Places' PROVE f[x] \in Places /\ At(x)' \subseteq At(f[x])
  <2>1. ASSUME NEW j \in 1..n, New(x, j) PROVE f[x] \in Places /\ At(x)' \subseteq At(f[x])
    <3>1. base + j \in (base + 1)..message.to
      BY <1>2
    <3> QED
      BY <1>5, <2>1, <3>1
  <2> QED
    BY <1>9, <2>1
<1>11. ASSUME NEW x \in Places, NEW k \in At(x) PROVE \E y \in Places' : k \in At(y)'
  <2>1. CASE x = <<2, 0, 0>>
    <3>1. k \in (base + 1)..message.to
      BY <1>5, <1>11, <2>1
    <3>2. CASE k <= base + n
      <4>1. PICK j \in 1..n : base + j = k
        <5>1. k - base \in 1..n /\ base + (k - base) = k
          BY <1>2, <3>1, <3>2
        <5> QED
          BY <5>1
      <4>2. <<1, 0, N + j>> \in Places' /\ At(<<1, 0, N + j>>)' = {base + j}
        BY <1>4
      <4> QED
        BY <4>1, <4>2
    <3>3. CASE ~(k <= base + n)
      <4>1. k \in (base + n + 1)..message.to
        BY <1>2, <3>1, <3>3
      <4> QED
        BY <1>5, <4>1
    <3> QED
      BY <3>2, <3>3
  <2>2. ASSUME NEW j \in 1..N, x = <<1, 0, j>>, written[j].kind = "byte"
        PROVE  x \in Places' /\ At(x)' = At(x)
    BY <1>3, <2>2
  <2>3. ASSUME NEW p \in 1..MaxPipes, NEW j \in 1..Len(pipes[p]), x = <<3, p, j>>
        PROVE  x \in Places' /\ At(x)' = At(x)
    BY <1>6, <2>3
  <2>4. CASE x = <<4, 0, 0>>
    BY <1>7, <2>4
  <2>5. x = <<2, 0, 0>> \/ (x \in Places' /\ At(x)' = At(x))
    BY <1>1, <1>7, <2>2, <2>3 DEF PlacesKnown
  <2> QED
    BY <1>11, <2>1, <2>5
<1>12. ASSUME NEW x \in Places', NEW y \in Places', f[x] = f[y], NEW k, k \in At(x)', k \in At(y)'
       PROVE  x = y
  <2>1. CASE Stays(x) /\ Stays(y)
    BY <1>12, <2>1
  <2>2. ASSUME NEW u \in 1..n, New(x, u), NEW v \in 1..n, New(y, v) PROVE x = y
    <3>1. base + u = base + v
      BY <1>12, <2>2
    <3>2. u = v
      BY <1>2, <3>1
    <3> QED
      BY <2>2, <3>2
  <2>3. ASSUME NEW z \in Places', NEW w \in Places', f[z] = f[w], k \in At(z)', k \in At(w)',
               NEW u \in 1..n, New(z, u), Stays(w)
        PROVE  FALSE
    <3>1. w = <<2, 0, 0>> /\ k = base + u
      BY <2>3
    <3>2. base + u \in (base + n + 1)..message.to
      BY <1>5, <2>3, <3>1
    <3> QED
      BY <1>2, <3>2
  <2>4. \A z : Image(z) => Stays(z) \/ \E u \in 1..n : New(z, u)
    OBVIOUS
  <2>5. CASE Stays(x)
    <3>1. CASE Stays(y)
      BY <2>1, <2>5, <3>1
    <3>2. ASSUME NEW v \in 1..n, New(y, v) PROVE FALSE
      BY <1>12, <2>3, <2>5, <3>2
    <3> HIDE DEF Image, Stays, New
    <3> QED
      BY <1>9, <2>4, <3>1, <3>2
  <2>6. ASSUME NEW u \in 1..n, New(x, u) PROVE x = y
    <3>1. CASE Stays(y)
      BY <1>12, <2>3, <2>6, <3>1
    <3>2. ASSUME NEW v \in 1..n, New(y, v) PROVE x = y
      BY <2>2, <2>6, <3>2
    <3> HIDE DEF Image, Stays, New
    <3> QED
      BY <1>9, <2>4, <3>1, <3>2
  <2> HIDE DEF Image, Stays, New
  <2> QED
    BY <1>9, <2>4, <2>5, <2>6
<1>13. ASSUME NEW x \in Places', NEW y \in Places', Ahead(x, y)
       PROVE  Ahead(f[x], f[y]) \/ \A k \in At(x)', l \in At(y)' : k < l
  <2> DEFINE Goal == Ahead(f[x], f[y]) \/ \A k \in At(x)', l \in At(y)' : k < l
  <2>1. CASE Stays(x) /\ Stays(y)
    BY <1>13, <2>1
  <2>2. ASSUME NEW u \in 1..n, New(x, u), NEW v \in 1..n, New(y, v) PROVE Goal
    <3>1. N + u < N + v
      BY <1>13, <2>2 DEF Ahead
    <3>2. base + u < base + v
      BY <1>2, <3>1
    <3> QED
      BY <2>2, <3>2
  <2>3. ASSUME NEW u \in 1..n, New(x, u), y = <<2, 0, 0>> PROVE Goal
    <3>1. \A l \in (base + n + 1)..message.to : base + u < l
      BY <1>2
    <3> QED
      BY <1>5, <2>3, <3>1
  <2>4. ASSUME NEW u \in 1..n, New(x, u), Stays(y), y[1] \in {3, 4} PROVE Goal
    BY <2>4 DEF Ahead
  <2>5. ASSUME NEW u \in 1..n, New(x, u), y[1] = 1, y[3] <= N, y[3] \in Nat PROVE Goal
    <3>1. N + u < y[3]
      BY <1>13, <2>5 DEF Ahead
    <3> QED
      BY <2>5, <3>1
  <2>6. ASSUME Stays(x), x[1] \in {1, 2, 3, 4}, NEW v \in 1..n, New(y, v) PROVE Goal
    BY <1>13, <2>6 DEF Ahead
  <2>7. \A z : Image(z) => (Stays(z) /\ z[1] \in {1, 2, 3, 4}) \/ \E u \in 1..n : New(z, u)
    OBVIOUS
  <2>8. \A z : Image(z) => \/ \E u \in 1..n : New(z, u)
                           \/ z[1] = 1 /\ z[3] <= N /\ z[3] \in Nat
                           \/ z = <<2, 0, 0>>
                           \/ Stays(z) /\ z[1] \in {3, 4}
    OBVIOUS
  <2>9. CASE \E u \in 1..n : New(x, u)
    <3>1. PICK u \in 1..n : New(x, u)
      BY <2>9
    <3> HIDE DEF New, Stays, Image
    <3> QED
      BY <1>9, <2>2, <2>3, <2>4, <2>5, <2>8, <3>1
  <2>10. CASE Stays(x) /\ x[1] \in {1, 2, 3, 4}
    <3> HIDE DEF New, Stays, Image
    <3> QED
      BY <1>9, <2>1, <2>6, <2>7, <2>10
  <2> HIDE DEF New, Stays, Image
  <2> QED
    BY <1>9, <2>7, <2>9, <2>10
<1>14. PICK g : g = f
  OBVIOUS
<1> QED
  BY <1>10, <1>11, <1>12, <1>13, <1>14, Moved

\* Words that the avant has read from its front end, into its buffer or in vain.
LEMMA ReadPlaces ==
  ASSUME Typed, Placed, Typed', PlaceInv, Read \/ ReadFails PROVE PlaceInv'
<1> DEFINE fresh == (next + 1)..next'
<1>1. /\ next \in Nat /\ next' \in Nat /\ next <= next' /\ buf = None
      /\ UNCHANGED <<written, pipes, message, base, overlap>>
      /\ \/ lost' = lost /\ Of(buf') = fresh
         \/ lost' = lost \cup fresh /\ Of(buf') = {}
  <2>1. next \in Nat /\ next' \in Nat /\ MaxBytes \in Nat /\ BufSize \in Nat /\ next <= MaxBytes
    BY Constants DEF Typed
  <2>2. Of(None) = {}
    <3>1. Of(None) = 1..0
      BY Constants DEF Of
    <3> QED
      BY <3>1
  <2>3. CASE Read
    <3>1. /\ next' = IF next + BufSize <= MaxBytes THEN next + BufSize ELSE MaxBytes
          /\ buf' = [from |-> next, to |-> next'] /\ apc = "read"
          /\ UNCHANGED <<written, pipes, message, base, overlap, lost>>
      BY <2>3 DEF Read, Message, zmq, rear, scan, ofs, hist
    <3>2. next <= next'
      BY <2>1, <3>1
    <3>3. buf = None
      BY <3>1 DEF Placed
    <3>4. Of(buf') = fresh
      BY <3>1 DEF Of
    <3> QED
      BY <2>1, <3>1, <3>2, <3>3, <3>4
  <2>4. CASE ReadFails
    <3>1. PICK k \in 0..(BufSize - 1) :
            next + k <= MaxBytes /\ next' = next + k /\ lost' = lost \cup {next + j : j \in 1..k}
      BY <2>4 DEF ReadFails
    <3>2. /\ apc = "read" /\ UNCHANGED <<buf, written, pipes, message, base, overlap>>
      BY <2>4 DEF ReadFails, zmq, rear, scan, ofs
    <3>3. k \in Nat /\ next <= next'
      BY <2>1, <3>1
    <3>4. {next + j : j \in 1..k} = fresh
      <4>1. ASSUME NEW l \in fresh PROVE l \in {next + j : j \in 1..k}
        <5>1. l - next \in 1..k /\ next + (l - next) = l
          BY <2>1, <3>1, <3>3
        <5> QED
          BY <5>1
      <4>2. ASSUME NEW j \in 1..k PROVE next + j \in fresh
        BY <2>1, <3>1, <3>3
      <4> QED
        BY <4>1, <4>2
    <3>5. buf = None /\ Of(buf') = {}
      BY <2>2, <3>2 DEF Placed
    <3> QED
      BY <2>1, <3>1, <3>2, <3>3, <3>4, <3>5
  <2> QED
    BY <2>3, <2>4
<1> DEFINE B == <<4, 0, 0>>
<1>2. Places' = Places
  BY <1>1 DEF Places, Waiting
<1>3. B \in Places /\ \A x \in Places : x # B => x[1] \in {1, 2, 3}
  BY PlacesAre DEF PlacesKnown
<1>4. ASSUME NEW x \in Places, x # B PROVE At(x)' = At(x)
  <2>1. CASE x = <<2, 0, 0>>
    BY <1>1, <2>1, AtIs
  <2>2. ASSUME NEW j, x = <<1, 0, j>> PROVE At(x)' = At(x)
    BY <1>1, <2>2, AtIs
  <2>3. ASSUME NEW p, NEW j, x = <<3, p, j>> PROVE At(x)' = At(x)
    BY <1>1, <2>3, AtIs
  <2> QED
    BY <1>4, <2>1, <2>2, <2>3, PlacesAre DEF PlacesKnown
<1>5. /\ At(B) = {}
      /\ \/ lost' = lost /\ At(B)' = fresh
         \/ lost' = lost \cup fresh /\ At(B)' = {}
  <2>1. At(B) = Of(None) /\ At(B)' = Of(buf')
    BY <1>1, AtIs
  <2>2. Of(None) = 1..0
    BY Constants DEF Of
  <2> QED
    BY <1>1, <2>1, <2>2
<1>6. \A k \in fresh : k \notin 1..next
  BY <1>1
<1>7. fresh \subseteq 1..next' /\ 1..next \subseteq 1..next' /\ 1..next' \subseteq (1..next) \cup fresh
  BY <1>1
<1>8. \A k \in 1..next, l \in fresh : k < l
  BY <1>1
<1> HIDE DEF fresh, B
<1>9. /\ lost \subseteq 1..next
      /\ \A x \in Places : At(x) \subseteq (1..next) \ lost
  BY DEF PlaceInv
<1>10. lost' \subseteq 1..next'
  BY <1>5, <1>7, <1>9
<1>11. ASSUME NEW x \in Places PROVE At(x)' \subseteq (1..next') \ lost'
  <2>1. CASE x = B
    BY <1>5, <1>6, <1>7, <1>9, <2>1
  <2>2. CASE x # B
    BY <1>4, <1>5, <1>6, <1>7, <1>9, <2>2
  <2> QED
    BY <2>1, <2>2
<1>12. ASSUME NEW k \in (1..next') \ lost' PROVE \E x \in Places : k \in At(x)'
  <2>1. CASE k \in fresh
    BY <1>3, <1>5, <2>1
  <2>2. CASE k \notin fresh
    <3>1. k \in (1..next) \ lost
      BY <1>5, <1>7, <2>2
    <3>2. PICK x \in Places : k \in At(x)
      BY <3>1 DEF PlaceInv
    <3>3. x # B
      BY <1>5, <3>2
    <3> QED
      BY <1>4, <3>2, <3>3
  <2> QED
    BY <2>1, <2>2
<1>13. ASSUME NEW x \in Places, NEW y \in Places, NEW k, k \in At(x)', k \in At(y)' PROVE x = y
  <2>1. \A z \in Places : z # B => At(z)' = At(z) /\ At(z) \subseteq 1..next
    BY <1>4, <1>9
  <2>2. At(B)' \subseteq fresh
    BY <1>5
  <2>3. CASE x # B /\ y # B
    BY <1>13, <2>1, <2>3 DEF PlaceInv
  <2> QED
    BY <1>6, <1>13, <2>1, <2>2, <2>3
<1>14. ASSUME ~overlap, NEW x \in Places, NEW y \in Places, Ahead(x, y),
              NEW k \in At(x)', NEW l \in At(y)'
       PROVE  k < l
  <2>1. x # B
    <3>1. CASE y = B
      BY <1>14, <3>1 DEF Ahead, B
    <3>2. CASE y # B
      BY <1>3, <1>14, <3>2 DEF Ahead, B
    <3> QED
      BY <3>1, <3>2
  <2>2. k \in At(x) /\ k \in 1..next
    BY <1>4, <1>9, <1>14, <2>1
  <2>3. CASE y = B
    BY <1>5, <1>8, <2>2, <2>3
  <2>4. CASE y # B
    BY <1>4, <1>14, <2>2, <2>4 DEF PlaceInv
  <2> QED
    BY <2>3, <2>4
<1>15. \A x, y : Ahead(x, y)' <=> Ahead(x, y)
  BY DEF Ahead
<1> QED
  BY <1>1, <1>2, <1>10, <1>11, <1>12, <1>13, <1>14, <1>15 DEF PlaceInv

\* The messages in the pipes are thrown away when the receiver leaves.
LEMMA LeavePlaces ==
  ASSUME Typed, Typed', PlaceInv, RearLeave PROVE PlaceInv'
<1>1. /\ UNCHANGED <<next, written, message, base, buf, overlap>>
      /\ pipes' = [p \in 1..MaxPipes |-> <<>>]
      /\ lost' = lost \cup UNION {Of(pipes[x[1]][x[2]]) : x \in Waiting}
  BY DEF RearLeave, avant, scan, ofs, Typed
<1>2. \A p \in 1..MaxPipes : pipes'[p] = <<>> /\ Len(pipes'[p]) = 0
  BY <1>1, EmptySeq
<1>3. PlacesKnown /\ PlacesKnown'
  BY PlacesAre
<1>4. \A k : k \in lost' <=>
        k \in lost \/ \E p \in 1..MaxPipes : \E j \in 1..Len(pipes[p]) : k \in Of(pipes[p][j])
  <2>1. DOMAIN pipes = 1..MaxPipes /\ \A p \in 1..MaxPipes : DOMAIN pipes[p] = 1..Len(pipes[p])
    BY LenProperties DEF Typed
  <2>2. ASSUME NEW x \in Waiting
        PROVE  \E p \in 1..MaxPipes : \E j \in 1..Len(pipes[p]) : x[1] = p /\ x[2] = j
    <3>1. PICK p \in 1..MaxPipes : x \in {<<p, j>> : j \in 1..Len(pipes[p])}
      BY <2>1 DEF Waiting
    <3> QED
      BY <3>1
  <2>3. ASSUME NEW p \in 1..MaxPipes, NEW j \in 1..Len(pipes[p])
        PROVE  <<p, j>> \in Waiting /\ <<p, j>>[1] = p /\ <<p, j>>[2] = j
    BY <2>1 DEF Waiting
  <2>4. ASSUME NEW k
        PROVE  k \in UNION {Of(pipes[x[1]][x[2]]) : x \in Waiting} <=>
                 \E p \in 1..MaxPipes : \E j \in 1..Len(pipes[p]) : k \in Of(pipes[p][j])
    <3>1. ASSUME NEW x \in Waiting, k \in Of(pipes[x[1]][x[2]])
          PROVE  \E p \in 1..MaxPipes : \E j \in 1..Len(pipes[p]) : k \in Of(pipes[p][j])
      BY <2>2, <3>1
    <3>2. ASSUME NEW p \in 1..MaxPipes, NEW j \in 1..Len(pipes[p]), k \in Of(pipes[p][j])
          PROVE  \E x \in Waiting : k \in Of(pipes[x[1]][x[2]])
      <4>1. PICK x \in Waiting : x[1] = p /\ x[2] = j
        BY <2>3
      <4> QED
        BY <3>2, <4>1
    <3> QED
      BY <3>1, <3>2
  <2> QED
    BY <1>1, <2>4
<1>5. ASSUME NEW x \in Places'
      PROVE  x \in Places /\ At(x)' = At(x) /\ x[1] \in {1, 2, 4}
  <2>1. CASE x = <<2, 0, 0>>
    BY <1>1, <1>3, <2>1, AtIs DEF PlacesKnown
  <2>2. CASE x = <<4, 0, 0>>
    BY <1>1, <1>3, <2>2, AtIs DEF PlacesKnown
  <2>3. ASSUME NEW j \in 1..Len(written), x = <<1, 0, j>>, written[j].kind = "byte"
        PROVE  x \in Places /\ At(x)' = At(x) /\ x[1] \in {1, 2, 4}
    BY <1>1, <1>3, <2>3, AtIs DEF PlacesKnown
  <2>4. \A p \in 1..MaxPipes : 1..Len(pipes'[p]) = {}
    BY <1>2
  <2> QED
    BY <1>1, <1>3, <2>1, <2>2, <2>3, <2>4 DEF PlacesKnown
<1>6. ASSUME NEW x \in Places
      PROVE  \/ x \in Places'
             \/ \E p \in 1..MaxPipes : \E j \in 1..Len(pipes[p]) : x = <<3, p, j>>
  BY <1>1, <1>3 DEF PlacesKnown
<1>7. ASSUME NEW p \in 1..MaxPipes, NEW j \in 1..Len(pipes[p])
      PROVE  <<3, p, j>> \in Places /\ At(<<3, p, j>>) = Of(pipes[p][j])
  BY <1>3, AtIs DEF PlacesKnown
<1>8. lost' \subseteq 1..next'
  <2> SUFFICES ASSUME NEW k \in lost' PROVE k \in 1..next
    BY <1>1
  <2>1. CASE k \in lost
    BY <2>1 DEF PlaceInv
  <2>2. ASSUME NEW p \in 1..MaxPipes, NEW j \in 1..Len(pipes[p]), k \in Of(pipes[p][j])
        PROVE  k \in 1..next
    <3>1. PICK y \in Places : y = <<3, p, j>> /\ k \in At(y)
      BY <1>7, <2>2
    <3> QED
      BY <3>1 DEF PlaceInv
  <2> QED
    BY <1>4, <2>1, <2>2
<1>9. ASSUME NEW x \in Places', NEW k \in At(x)' PROVE k \in (1..next') \ lost'
  <2>1. x \in Places /\ k \in At(x) /\ k \in (1..next) \ lost
    BY <1>5, <1>9 DEF PlaceInv
  <2>2. ASSUME NEW p \in 1..MaxPipes, NEW j \in 1..Len(pipes[p]), k \in Of(pipes[p][j])
        PROVE  FALSE
    <3>1. PICK y \in Places : y = <<3, p, j>> /\ k \in At(y)
      BY <1>7, <2>2
    <3>2. x = y
      BY <2>1, <3>1 DEF PlaceInv
    <3> QED
      BY <1>5, <3>1, <3>2
  <2> QED
    BY <1>1, <1>4, <2>1, <2>2
<1>10. ASSUME NEW k \in (1..next') \ lost' PROVE \E x \in Places' : k \in At(x)'
  <2>1. k \in (1..next) \ lost
    BY <1>1, <1>4, <1>10
  <2>2. PICK x \in Places : k \in At(x)
    BY <2>1 DEF PlaceInv
  <2>3. x \in Places'
    BY <1>4, <1>6, <1>7, <1>10, <2>2
  <2> QED
    BY <1>5, <2>2, <2>3
<1>11. ASSUME NEW x \in Places', NEW y \in Places', NEW k, k \in At(x)', k \in At(y)' PROVE x = y
  BY <1>5, <1>11 DEF PlaceInv
<1>12. ASSUME ~overlap, NEW x \in Places', NEW y \in Places', Ahead(x, y),
              NEW k \in At(x)', NEW l \in At(y)'
       PROVE  k < l
  BY <1>5, <1>12 DEF PlaceInv
<1>13. \A x, y : Ahead(x, y)' <=> Ahead(x, y)
  BY DEF Ahead
<1> QED
  BY <1>1, <1>8, <1>9, <1>10, <1>11, <1>12, <1>13 DEF PlaceInv

\* A message that is not sent is thrown away.
LEMMA DropPlaces ==
  ASSUME Typed, PlaceInv, SendFails PROVE PlaceInv'
<1>1. /\ UNCHANGED <<next, written, pipes, message, base, overlap>>
      /\ buf' = None /\ lost' = lost \cup Of(buf)
  BY DEF SendFails, zmq, rear, scan, ofs
<1> DEFINE B == <<4, 0, 0>>
<1>2. Places' = Places
  BY <1>1 DEF Places, Waiting
<1>3. PlacesKnown /\ B \in Places
  BY PlacesAre DEF PlacesKnown
<1>4. ASSUME NEW x \in Places, x # B PROVE At(x)' = At(x)
  <2>1. CASE x = <<2, 0, 0>>
    BY <1>1, <2>1, AtIs
  <2>2. ASSUME NEW j, x = <<1, 0, j>> PROVE At(x)' = At(x)
    BY <1>1, <2>2, AtIs
  <2>3. ASSUME NEW p, NEW j, x = <<3, p, j>> PROVE At(x)' = At(x)
    BY <1>1, <2>3, AtIs
  <2> QED
    BY <1>3, <1>4, <2>1, <2>2, <2>3 DEF PlacesKnown
<1>5. At(B)' = {} /\ lost' = lost \cup At(B)
  <2>1. At(B) = Of(buf) /\ At(B)' = Of(None)
    BY <1>1, AtIs
  <2>2. Of(None) = 1..0
    BY Constants DEF Of
  <2> QED
    BY <1>1, <2>1, <2>2
<1> HIDE DEF B
<1>6. /\ lost \subseteq 1..next
      /\ \A x \in Places : At(x) \subseteq (1..next) \ lost
      /\ \A k \in (1..next) \ lost : \E x \in Places : k \in At(x)
      /\ \A x, y \in Places : \A k : k \in At(x) /\ k \in At(y) => x = y
  BY DEF PlaceInv
<1>7. ASSUME NEW x \in Places PROVE At(x)' \subseteq At(x) /\ At(x)' \subseteq (1..next) \ lost'
  BY <1>3, <1>4, <1>5, <1>6
<1>8. ASSUME NEW k \in (1..next) \ lost' PROVE \E x \in Places : k \in At(x)'
  <2>1. PICK x \in Places : k \in At(x)
    BY <1>5, <1>6
  <2> QED
    BY <1>4, <1>5, <2>1
<1>9. lost' \subseteq 1..next
  BY <1>3, <1>5, <1>6
<1>10. ASSUME ~overlap, NEW x \in Places, NEW y \in Places, Ahead(x, y),
              NEW k \in At(x)', NEW l \in At(y)'
       PROVE  k < l
  <2>1. k \in At(x) /\ l \in At(y)
    BY <1>7
  <2> QED
    BY <1>10, <2>1 DEF PlaceInv
<1>11. \A x, y : Ahead(x, y)' <=> Ahead(x, y)
  BY DEF Ahead
<1> QED
  BY <1>1, <1>2, <1>6, <1>7, <1>8, <1>9, <1>10, <1>11 DEF PlaceInv

LEMMA PlaceStep ==
  Typed /\ Placed /\ PlaceInv /\ [Next]_vars => PlaceInv'
<1> SUFFICES ASSUME Typed, Placed, PlaceInv, [Next]_vars PROVE PlaceInv'
  OBVIOUS
<1>1. Typed'
  BY TypedStep
<1>2. CASE UNCHANGED <<written, pipes, message, base, buf, next, lost>> /\ (~overlap' => ~overlap)
  BY <1>2, SamePlaces, Stayed
<1>3. CASE \/ Command \/ Enter \/ CheckState \/ Alloc \/ RearEnter \/ RearState \/ RearDepth
           \/ Skip \/ (Rest /\ ~Ends) \/ UNCHANGED vars
  <2> USE DEF avant, scan, ofs, rear, zmq, hist, vars
  <2>1. CASE Enter
    BY <1>2, <2>1 DEF Enter
  <2>2. CASE ~Enter
    <3>1. UNCHANGED <<written, pipes, message, base, buf, next, lost, overlap>>
      BY <1>3, <2>2 DEF Command, CheckState, Alloc, RearEnter, RearState, RearDepth, Skip, Rest, Ends
    <3> QED
      BY <1>2, <3>1
  <2> QED
    BY <2>1, <2>2
<1>4. CASE SpillEnd
  <2>1. UNCHANGED <<next, lost, overlap, message, pipes, buf>> /\ base' = base + i + Word
    BY <1>4 DEF SpillEnd, MovedBase, avant, zmq, hist
  <2>2. PICK N : N = Len(written)
    OBVIOUS
  <2>3. PICK n : n = i + Word
    OBVIOUS
  <2>4. /\ N \in Nat /\ base + i + Word <= message.to /\ Len(written') >= N + i + Word + 1
        /\ Len(written') \in Nat
        /\ \A j \in 1..N : written'[j] = written[j]
        /\ \A j \in 1..(i + Word) : written'[N + j] = [kind |-> "byte", k |-> base + j, off |-> base + j - message.from]
        /\ written'[N + i + Word + 1] = Stamp
        /\ \A j \in 1..Len(written') : j > N + i + Word + 1 => written'[j].kind = "again"
    BY <1>4, <2>2, SpillWrites
  <2>5. i \in Nat /\ base \in Nat /\ Word \in Nat
    BY Constants DEF Typed
  <2>6. n \in Nat /\ base' = base + n /\ N + n <= Len(written') /\ base' <= message.to
    BY <2>1, <2>3, <2>4, <2>5
  <2>7. ASSUME NEW j \in 1..Len(written'), j > N + n PROVE written'[j].kind # "byte"
    <3>1. CASE j = N + i + Word + 1
      <4>1. Stamp.kind = "stamp"
        BY DEF Stamp
      <4> QED
        BY <2>4, <3>1, <4>1
    <3>2. CASE j > N + i + Word + 1
      BY <2>4, <3>2
    <3> QED
      BY <2>3, <2>4, <2>5, <2>7, <3>1, <3>2
  <2> QED
    BY <1>1, <2>1, <2>2, <2>3, <2>4, <2>6, <2>7, WritePlaces
<1>5. CASE Ends
  <2>1. UNCHANGED <<next, lost, overlap, message, pipes, buf>>
    BY <1>5 DEF Ends, Rest, avant, zmq, hist
  <2>2. PICK N : N = Len(written)
    OBVIOUS
  <2>3. PICK n : n = message.to - base
    OBVIOUS
  <2>4. /\ N \in Nat /\ n \in Nat /\ Len(written') = N + n /\ base' = message.to
        /\ \A j \in 1..N : written'[j] = written[j]
        /\ \A j \in 1..n : written'[N + j] = [kind |-> "byte", k |-> base + j, off |-> base + j - message.from]
    BY <1>5, <2>2, <2>3, RestWrites
  <2>5. base \in Nat /\ message.to \in Nat
    BY DEF Typed, Messages
  <2>6. base' = base + n /\ N + n <= Len(written') /\ base' <= message.to
    <3>1. message.to = base + n
      BY <2>3, <2>5
    <3>2. N + n <= N + n /\ message.to <= message.to
      BY <2>4, <2>5
    <3> QED
      BY <2>4, <3>1, <3>2
  <2>7. \A j \in 1..Len(written') : j > N + n => written'[j].kind # "byte"
    BY <2>4
  <2> QED
    BY <1>1, <2>1, <2>2, <2>4, <2>6, <2>7, WritePlaces
<1>6. CASE Read \/ ReadFails
  BY <1>1, <1>6, ReadPlaces
<1>7. CASE Send
  BY <1>1, <1>7, SendPlaces
<1>8. CASE SendFails
  BY <1>8, DropPlaces
<1>9. CASE RearRecv
  BY <1>1, <1>9, RecvPlaces
<1>10. CASE RearLeave
  BY <1>1, <1>10, LeavePlaces
<1> QED
  BY <1>8, <1>3, <1>4, <1>5, <1>6, <1>7, <1>9, <1>10 DEF Next, Avant, Rear, Ends

LEMMA PlaceInit == Init => Typed /\ Placed /\ PlaceInv
<1> SUFFICES ASSUME Init PROVE Typed /\ Placed /\ PlaceInv
  OBVIOUS
<1>1. /\ next = 0 /\ buf = None /\ message = None /\ base = 0 /\ i = 0 /\ spillcount = 0
      /\ pipes = [p \in 1..MaxPipes |-> <<>>] /\ pipe = 1 /\ written = <<>> /\ begun = <<0>>
      /\ marks \subseteq Nat /\ lost = {} /\ overlap = FALSE /\ apc = "out" /\ rpc = "out"
  <2>1. Word..MaxBytes \subseteq Nat
    BY Constants
  <2> QED
    BY <2>1 DEF Init, Markings
<1>2. Typed
  <2>1. /\ written \in Seq(Entries) /\ pipes \in [1..MaxPipes -> Seq(Messages)] /\ begun \in Seq(Nat)
        /\ 1 \in 1..MaxPipes
    BY <1>1, Constants, EmptySeq
  <2>2. next \in Nat /\ next <= MaxBytes /\ base <= message.to /\ message.from <= base
    BY <1>1, Constants
  <2>3. overlap \in BOOLEAN
    BY <1>1
  <2> QED
    BY <1>1, <2>1, <2>2, <2>3, Constants DEF Typed
<1>3. Placed
  BY <1>1, Constants DEF Placed
<1>4. PlaceInv
  <2>1. PlacesKnown
    BY <1>2, PlacesAre
  <2>2. Len(written) = 0 /\ \A p \in 1..MaxPipes : Len(pipes[p]) = 0
    BY <1>1, EmptySeq
  <2>3. \A x \in Places : x = <<2, 0, 0>> \/ x = <<4, 0, 0>>
    <3>1. 1..Len(written) = {} /\ \A p \in 1..MaxPipes : 1..Len(pipes[p]) = {}
      BY <2>2
    <3> QED
      BY <2>1, <3>1 DEF PlacesKnown
  <2>4. At(<<2, 0, 0>>) = {} /\ At(<<4, 0, 0>>) = {}
    <3>1. At(<<2, 0, 0>>) = 1..0 /\ At(<<4, 0, 0>>) = 1..0
      BY <1>1, AtIs, Constants DEF Of
    <3> QED
      BY <3>1
  <2>5. \A x \in Places : At(x) = {}
    BY <2>3, <2>4
  <2>6. 1..next = {}
    BY <1>1
  <2> QED
    BY <1>1, <2>5, <2>6 DEF PlaceInv
<1> QED
  BY <1>2, <1>3, <1>4

\* Every byte of the front end is written once and in order, or is on its way, or was
\* thrown away, for any sizes and any markers.
THEOREM WordsInOrder == Spec => []WrittenInOrder
<1>1. Typed /\ Placed /\ PlaceInv /\ [Next]_vars => (Typed /\ Placed /\ PlaceInv)'
  BY TypedStep, PlaceStep
<1>2. PlaceInv => WrittenInOrder
  <2> SUFFICES ASSUME PlaceInv PROVE WrittenInOrder
    OBVIOUS
  <2>1. UNION {At(x) : x \in Places} = (1..next) \ lost
    <3>1. ASSUME NEW k, k \in UNION {At(x) : x \in Places} PROVE k \in (1..next) \ lost
      BY <3>1 DEF PlaceInv
    <3>2. ASSUME NEW k \in (1..next) \ lost PROVE k \in UNION {At(x) : x \in Places}
      BY DEF PlaceInv
    <3> QED
      BY <3>1, <3>2
  <2>2. ASSUME NEW x \in Places, NEW y \in Places, x # y PROVE At(x) \cap At(y) = {}
    BY <2>2 DEF PlaceInv
  <2>3. ~overlap => \A x, y \in Places : Ahead(x, y) => \A k \in At(x), l \in At(y) : k < l
    BY DEF PlaceInv
  <2> QED
    BY <2>1, <2>2, <2>3 DEF WrittenInOrder
<1> QED
  BY <1>1, <1>2, PlaceInit, PTL DEF Spec

(***************************************************************************)
(* The files end at spills.                                                *)
(***************************************************************************)
\* Counting on modulo n.
LEMMA NextMod ==
  ASSUME NEW a \in Nat, NEW n \in Nat, n # 0
  PROVE  /\ a % n \in 0..(n - 1)
         /\ (a + 1) % n = IF a % n = n - 1 THEN 0 ELSE (a % n) + 1
<1>1. ASSUME NEW c \in Nat
      PROVE  c = (n * (c \div n)) + (c % n) /\ c % n \in 0..(n - 1) /\ c \div n \in Int
  <2>1. c = (n * (c \div n)) + (c % n)
    OBVIOUS
  <2>2. c % n \in 0..(n - 1)
    OBVIOUS
  <2>3. c \div n \in Int
    OBVIOUS
  <2> QED
    BY <2>1, <2>2, <2>3
<1>2. a + 1 \in Nat
  OBVIOUS
<1>3. PICK p \in Int, r \in 0..(n - 1) : p = a \div n /\ r = a % n
  BY <1>1
<1>4. PICK q \in Int, s \in 0..(n - 1) : q = (a + 1) \div n /\ s = (a + 1) % n
  BY <1>1, <1>2
<1>5. n * q + s = n * p + r + 1
  <2>1. a = n * p + r
    BY <1>1, <1>3
  <2>2. a + 1 = n * q + s
    BY <1>1, <1>2, <1>4
  <2>3. n * p \in Int /\ n * q \in Int
    OBVIOUS
  <2> QED
    BY <2>1, <2>2, <2>3
<1>6. PICK d \in Int : q = p + d
  <2>1. q - p \in Int /\ q = p + (q - p)
    OBVIOUS
  <2> QED
    BY <2>1
<1>7. n * d + s = r + 1
  <2>1. n * q = n * p + n * d
    BY <1>6
  <2>2. n * p \in Int /\ n * d \in Int /\ n * q \in Int
    OBVIOUS
  <2> QED
    BY <1>5, <2>1, <2>2
<1>8. d = 0 \/ d = 1
  <2>1. CASE d >= 2
    <3>1. n * d >= n * 2
      BY <2>1
    <3>2. n * d \in Int /\ n * 2 = n + n
      OBVIOUS
    <3> QED
      BY <1>7, <3>1, <3>2
  <2>2. CASE d <= -1
    <3>1. n * d <= -n
      BY <2>2
    <3>2. n * d \in Int
      OBVIOUS
    <3> QED
      BY <1>7, <3>1, <3>2
  <2> QED
    BY <2>1, <2>2
<1>9. s = IF r = n - 1 THEN 0 ELSE r + 1
  <2>1. CASE d = 0
    <3>1. n * d = 0
      BY <2>1
    <3> QED
      BY <1>7, <3>1
  <2>2. CASE d = 1
    <3>1. n * d = n
      BY <2>2
    <3> QED
      BY <1>7, <3>1
  <2> QED
    BY <1>8, <2>1, <2>2
<1> QED
  BY <1>3, <1>4, <1>9

(***************************************************************************)
(* Whole words: multiples of the size of a word.                           *)
(***************************************************************************)
Multiple(x) == \E a \in Nat : x = a * Word

LEMMA Multiples ==
  /\ Multiple(0) /\ Multiple(Word)
  /\ \A x, y : Multiple(x) /\ Multiple(y) => Multiple(x + y) /\ (x < y => x + Word <= y)
<1>1. Word \in Nat \ {0}
  BY Constants
<1>2. 0 = 0 * Word /\ Word = 1 * Word
  BY <1>1
<1>3. ASSUME NEW x, NEW y, Multiple(x), Multiple(y)
      PROVE  Multiple(x + y) /\ (x < y => x + Word <= y)
  <2>1. PICK a \in Nat : x = a * Word
    BY <1>3 DEF Multiple
  <2>2. PICK b \in Nat : y = b * Word
    BY <1>3 DEF Multiple
  <2>3. a * Word \in Nat /\ b * Word \in Nat /\ (a + b) * Word = a * Word + b * Word
    BY <1>1
  <2>4. a + b \in Nat /\ x + y = (a + b) * Word
    BY <2>1, <2>2, <2>3
  <2>5. ASSUME x < y PROVE x + Word <= y
    <3>1. b > a
      <4> SUFFICES ASSUME b <= a PROVE FALSE
        OBVIOUS
      <4>1. PICK c \in Nat : a = b + c
        <5>1. a - b \in Nat /\ a = b + (a - b)
          OBVIOUS
        <5> QED
          BY <5>1
      <4>2. a * Word = b * Word + c * Word /\ c * Word \in Nat
        BY <1>1, <4>1
      <4> QED
        BY <2>1, <2>2, <2>3, <2>5, <4>2
    <3>2. PICK c \in Nat : b = a + 1 + c
      <4>1. b - a - 1 \in Nat /\ b = a + 1 + (b - a - 1)
        BY <3>1
      <4> QED
        BY <4>1
    <3>3. b * Word = a * Word + Word + c * Word /\ c * Word \in Nat
      BY <1>1, <3>2
    <3> QED
      BY <1>1, <2>1, <2>2, <2>3, <3>3
  <2> QED
    BY <2>4, <2>5 DEF Multiple
<1> QED
  BY <1>2, <1>3 DEF Multiple

LEMMA MultipleMod ==
  ASSUME NEW x \in Nat PROVE Multiple(x) <=> x % Word = 0
<1>1. Word \in Nat \ {0}
  BY Constants
<1>2. x = (Word * (x \div Word)) + (x % Word)
  BY <1>1
<1>3. x % Word \in 0..(Word - 1)
  BY <1>1
<1>4. x \div Word \in Nat
  BY <1>1
<1>5. PICK q \in Nat, r \in 0..(Word - 1) : q = x \div Word /\ r = x % Word
  BY <1>3, <1>4
<1>6. x = Word * q + r
  BY <1>2, <1>5
<1>7. ASSUME r = 0 PROVE Multiple(x)
  <2>1. x = q * Word
    BY <1>1, <1>6, <1>7
  <2> QED
    BY <2>1 DEF Multiple
<1>8. ASSUME Multiple(x) PROVE r = 0
  <2>1. PICK a \in Nat : x = a * Word
    BY <1>8 DEF Multiple
  <2>2. PICK d \in Int : a = q + d
    <3>1. a - q \in Int /\ a = q + (a - q)
      OBVIOUS
    <3> QED
      BY <3>1
  <2>3. Word * d = r
    <3>1. a * Word = Word * q + Word * d /\ Word * q \in Int /\ Word * d \in Int
      BY <1>1, <2>2
    <3> QED
      BY <1>6, <2>1, <3>1
  <2>4. ~(d >= 1)
    <3> SUFFICES ASSUME d >= 1 PROVE FALSE
      OBVIOUS
    <3>1. Word * d >= Word
      BY <1>1
    <3> QED
      BY <1>1, <2>3, <3>1
  <2>5. ~(d <= -1)
    <3> SUFFICES ASSUME d <= -1 PROVE FALSE
      OBVIOUS
    <3>1. Word * d <= -Word
      BY <1>1
    <3> QED
      BY <1>1, <2>3, <3>1
  <2>6. d = 0
    BY <2>4, <2>5
  <2> QED
    BY <1>1, <2>3, <2>6
<1> QED
  BY <1>5, <1>7, <1>8

\* A word behind the i-th of data, which begins at a word, is behind all of the next one.
LEMMA NextWord ==
  ASSUME NEW f \in Nat, NEW b \in Nat, NEW n \in Nat, f <= b, Multiple(b - f), Multiple(n)
  PROVE  /\ Multiple(b + n + Word - f)
         /\ \A k \in Nat : Multiple(k - f) /\ k > b + n => k >= b + n + Word
<1>1. Word \in Nat
  BY Constants
<1>2. Multiple((b - f) + n)
  BY Multiples
<1>3. Multiple(((b - f) + n) + Word)
  BY <1>2, Multiples
<1>4. ((b - f) + n) + Word = b + n + Word - f
  BY <1>1
<1>5. ASSUME NEW k \in Nat, Multiple(k - f), k > b + n PROVE k >= b + n + Word
  <2>1. (b - f) + n < k - f
    BY <1>5
  <2>2. (b - f) + n + Word <= k - f
    BY <1>2, <1>5, <2>1, Multiples
  <2> QED
    BY <1>1, <2>2
<1> QED
  BY <1>3, <1>4, <1>5

\* A marker close before this byte.
CloseTo(k) == \E m \in marks : m < k /\ k < m + BufSize

\* data begins at a word of the message, and the words up to i have been looked at:
\* after a marker among them, data begins behind one.
Scanned ==
  rpc = "scan" =>
    /\ Multiple(base - message.from) /\ Multiple(i)
    /\ \A k \in (base + 1)..(base + i) :
         k <= message.to /\ k \in marks /\ Multiple(k - message.from)
           => base \in marks /\ message.from < base

Marked ==
  /\ \A j \in 1..Len(written) : written[j] = Stamp => j > 1 /\ IsMark(j - 1)
  /\ \A j \in 1..Len(written) :
       IsMark(j) => (j < Len(written) /\ written[j + 1] = Stamp) \/ CloseTo(written[j].k)

\* A file that has been closed holds NSpill stamps, the open one the rest of spillcount.
Counted ==
  /\ Len(begun) \in Nat \ {0}
  /\ \A f \in 1..Len(begun) : begun[f] <= Len(written)
  /\ \A f \in 1..(Len(begun) - 1) :
       /\ begun[f + 1] >= 1 /\ written[begun[f + 1]] = Stamp
       /\ \A a, b : a = begun[f] /\ b = begun[f + 1] => Cardinality(Stamps(a, b)) = NSpill
  /\ \A a, b : a = begun[Len(begun)] /\ b = Len(written) =>
       Cardinality(Stamps(a, b)) = spillcount % NSpill

FileInv == Scanned /\ Marked /\ Counted

LEMMA StampsAre ==
  \A a, b : /\ Stamps(a, b) = {j \in (a + 1)..b : written[j] = Stamp}
            /\ Stamps(a, b)' = {j \in (a + 1)..b : written'[j] = Stamp}
BY DEF Stamps, Stamp

LEMMA IsMarkIs ==
  \A j : /\ IsMark(j) <=> /\ written[j].kind = "byte" /\ written[j].k \in marks
                          /\ written[j].off % Word = 0
         /\ IsMark(j)' <=> /\ written'[j].kind = "byte" /\ written'[j].k \in marks'
                           /\ written'[j].off % Word = 0
BY DEF IsMark

LEMMA ScannedStep == Typed /\ Placed /\ Scanned /\ [Next]_vars => Scanned'
<1> SUFFICES ASSUME Typed, Placed, Scanned, [Next]_vars PROVE Scanned'
  OBVIOUS
<1> USE DEF avant, scan, ofs, rear, zmq, hist, vars
<1>1. base \in Nat /\ i \in Nat /\ Word \in Nat \ {0} /\ message.from \in Nat /\ message.from <= base
  BY Constants DEF Typed, Messages
<1>2. CASE Command \/ Avant \/ UNCHANGED vars
  <2>1. UNCHANGED <<rpc, base, i, message, marks>>
    BY <1>2 DEF Command, Avant, Enter, CheckState, Alloc, Read, ReadFails, Send, SendFails
  <2> QED
    BY <2>1 DEF Scanned
<1>3. CASE RearEnter \/ RearState \/ RearDepth \/ RearLeave \/ Ends
  <2>1. rpc' # "scan"
    BY <1>3 DEF RearEnter, RearState, RearDepth, RearLeave, Ends, Rest
  <2> QED
    BY <2>1 DEF Scanned
<1>4. CASE RearRecv \/ (Rest /\ ~Ends)
  <2>1. i' = 0 /\ base' \in Nat /\ message'.from \in Nat
    <3>1. Typed' /\ i' = 0
      BY <1>4, TypedStep DEF RearRecv, Rest, Ends
    <3> QED
      BY <3>1 DEF Typed, Messages
  <2>2. \A k : k \notin (base' + 1)..(base' + i')
    BY <2>1
  <2>3. Multiple(base' - message'.from)
    <3>1. CASE RearRecv
      <4>1. base' = message'.from
        BY <3>1 DEF RearRecv
      <4>2. base' - message'.from = 0
        BY <2>1, <4>1
      <4> QED
        BY <4>2, Multiples
    <3>2. CASE Rest /\ ~Ends
      <4>1. rpc = "scan" /\ UNCHANGED <<base, message>>
        BY <3>2 DEF Rest, Ends
      <4> QED
        BY <4>1 DEF Scanned
    <3> QED
      BY <1>4, <3>1, <3>2
  <2> QED
    BY <2>1, <2>2, <2>3, Multiples DEF Scanned
<1>5. CASE Skip
  <2>1. /\ rpc = "scan" /\ i' = i + Word /\ UNCHANGED <<rpc, base, message, marks>>
        /\ base + i + Word \notin marks
    BY <1>5 DEF Skip
  <2>2. Multiple(base - message.from) /\ Multiple(i)
    BY <2>1 DEF Scanned
  <2>3. \A k \in Nat : Multiple(k - message.from) /\ k > base + i => k >= base + i + Word
    BY <1>1, <2>2, NextWord
  <2>4. ASSUME NEW k \in (base + 1)..(base + i + Word), k \in marks, Multiple(k - message.from)
        PROVE  k \in (base + 1)..(base + i)
    BY <1>1, <2>1, <2>3, <2>4
  <2>5. base + i' = base + i + Word
    BY <1>1, <2>1
  <2>6. Multiple(i')
    BY <2>1, <2>2, Multiples
  <2> QED
    BY <2>1, <2>2, <2>4, <2>5, <2>6 DEF Scanned
<1>6. CASE SpillEnd
  <2>1. /\ base' = base + i + Word /\ base + i + Word \in marks /\ UNCHANGED <<message, marks>>
        /\ rpc = "scan" /\ i' = i + Word
    BY <1>6 DEF SpillEnd, MovedBase
  <2>2. message.from < base + i + Word
    BY <1>1
  <2>3. Multiple(base - message.from) /\ Multiple(i)
    BY <2>1 DEF Scanned
  <2>4. Multiple(base + i + Word - message.from)
    BY <1>1, <2>3, NextWord
  <2>5. Multiple(i')
    BY <2>1, <2>3, Multiples
  <2>6. Multiple(base' - message'.from)
    <3>1. base' - message'.from = base + i + Word - message.from
      BY <1>1, <2>1
    <3> QED
      BY <2>4, <3>1
  <2>7. base' \in marks' /\ message'.from < base'
    BY <2>1, <2>2
  <2> QED
    BY <2>5, <2>6, <2>7 DEF Scanned
<1> QED
  BY <1>2, <1>3, <1>4, <1>5, <1>6 DEF Next, Rear, Ends

\* The rest of a message is written without a stamp; the markers in it are close behind
\* the byte behind which data begins.
LEMMA EndsMarked ==
  ASSUME Typed, Scanned, Marked, Ends PROVE Marked'
<1>1. /\ UNCHANGED <<message, marks, i>> /\ rpc = "scan" /\ i + Word > message.to - base
  BY DEF Ends, Rest, hist, data_size
<1>2. PICK N : N = Len(written)
  OBVIOUS
<1>3. PICK n : n = message.to - base
  OBVIOUS
<1>4. /\ N \in Nat /\ n \in Nat /\ Len(written') = N + n
      /\ \A j \in 1..N : written'[j] = written[j]
      /\ \A j \in 1..n : written'[N + j] = [kind |-> "byte", k |-> base + j, off |-> base + j - message.from]
  BY <1>2, <1>3, RestWrites
<1>5. /\ base \in Nat /\ message.to \in Nat /\ i \in Nat /\ message.from \in Nat
      /\ message.to <= message.from + BufSize /\ BufSize \in Nat /\ Word \in Nat \ {0}
      /\ message.from <= base
  BY Constants DEF Typed, Messages
<1>6. ASSUME NEW j \in 1..(N + n), j > N
      PROVE  written'[j] = [kind |-> "byte", k |-> base + (j - N), off |-> base + (j - N) - message.from] /\ j - N \in 1..n
  <2>1. j - N \in 1..n /\ N + (j - N) = j
    BY <1>4, <1>6
  <2>2. written'[N + (j - N)] = [kind |-> "byte", k |-> base + (j - N), off |-> base + (j - N) - message.from]
    BY <1>4, <2>1
  <2> QED
    BY <2>1, <2>2
<1>7. ASSUME NEW j \in 1..(N + n), written'[j] = Stamp PROVE j > 1 /\ IsMark(j - 1)'
  <2>1. j \in 1..N
    <3>1. CASE j > N
      <4>1. PICK l \in 1..n : written'[j] = [kind |-> "byte", k |-> base + l, off |-> base + l - message.from]
        BY <1>6, <3>1
      <4>2. written'[j].kind = "byte" /\ Stamp.kind = "stamp"
        BY <4>1 DEF Stamp
      <4> QED
        BY <1>7, <4>2
    <3> QED
      BY <1>4, <3>1
  <2>2. written[j] = Stamp
    BY <1>4, <1>7, <2>1
  <2>3. j > 1 /\ IsMark(j - 1)
    BY <1>2, <2>1, <2>2 DEF Marked
  <2>4. j - 1 \in 1..N
    BY <1>4, <2>1, <2>3
  <2> QED
    BY <1>1, <1>4, <2>3, <2>4, IsMarkIs
<1>8. ASSUME NEW j \in 1..(N + n), IsMark(j)'
      PROVE  (j < N + n /\ written'[j + 1] = Stamp) \/ CloseTo(written'[j].k)
  <2>1. CASE j \in 1..N
    <3>1. written'[j] = written[j] /\ IsMark(j)
      BY <1>1, <1>4, <1>8, <2>1, IsMarkIs
    <3>2. (j < N /\ written[j + 1] = Stamp) \/ CloseTo(written[j].k)
      BY <1>2, <2>1, <3>1 DEF Marked
    <3>3. CASE j < N /\ written[j + 1] = Stamp
      <4>1. j + 1 \in 1..N /\ j < N + n
        BY <1>4, <2>1, <3>3
      <4> QED
        BY <1>4, <3>3, <4>1
    <3> QED
      BY <3>1, <3>2, <3>3
  <2>2. CASE ~(j \in 1..N)
    <3>1. j > N
      BY <1>4, <2>2
    <3>2. PICK l \in 1..n : written'[j] = [kind |-> "byte", k |-> base + l, off |-> base + l - message.from]
      BY <1>6, <3>1
    <3>3. /\ written'[j].k = base + l /\ base + l \in marks
          /\ Multiple(base + l - message.from)
      <4>1. /\ written'[j].k = base + l /\ base + l \in marks
            /\ (base + l - message.from) % Word = 0
        BY <1>1, <1>8, <3>2, IsMarkIs
      <4>2. base + l - message.from \in Nat
        BY <1>4, <1>5
      <4> QED
        BY <4>1, <4>2, MultipleMod
    <3>4. base + l \in (base + 1)..(base + i) /\ base + l <= message.to
      <4>1. base + n = message.to /\ n < i + Word
        BY <1>1, <1>3, <1>5
      <4>2. l <= n /\ l >= 1 /\ l \in Nat
        BY <1>4
      <4>3. Multiple(base - message.from) /\ Multiple(i)
        BY <1>1 DEF Scanned
      <4>4. \A k \in Nat : Multiple(k - message.from) /\ k > base + i => k >= base + i + Word
        BY <1>5, <4>3, NextWord
      <4>5. base + l \in Nat /\ base + l < base + i + Word
        BY <1>4, <1>5, <4>1, <4>2
      <4>6. ~(base + l > base + i)
        BY <1>5, <3>3, <4>4, <4>5
      <4> QED
        BY <1>4, <1>5, <4>1, <4>2, <4>6
    <3>5. base \in marks /\ message.from < base
      <4>1. PICK k : k = base + l
        OBVIOUS
      <4> QED
        BY <1>1, <1>5, <3>3, <3>4, <4>1 DEF Scanned
    <3>6. base < base + l /\ base + l < base + BufSize
      BY <1>5, <3>4, <3>5
    <3> QED
      BY <3>3, <3>5, <3>6 DEF CloseTo
  <2> QED
    BY <2>1, <2>2
<1> QED
  BY <1>1, <1>4, <1>7, <1>8 DEF Marked, CloseTo, IsMark

\* SpillEnd puts its stamp behind a marker; the markers it leaves out are close behind
\* the byte behind which data begins.
LEMMA SpillMarked ==
  ASSUME Typed, Scanned, Marked, SpillEnd PROVE Marked'
<1>1. UNCHANGED <<message, marks>> /\ rpc = "scan" /\ base + i + Word \in marks
  BY DEF SpillEnd, hist
<1>2. PICK N : N = Len(written)
  OBVIOUS
<1>3. PICK U : U = N + i + Word + 1
  OBVIOUS
<1>4. PICK M : M = Len(written')
  OBVIOUS
<1>5. /\ N \in Nat /\ M \in Nat /\ U <= M /\ base + i + Word <= message.to
      /\ \A j \in 1..N : written'[j] = written[j]
      /\ \A j \in 1..(i + Word) : written'[N + j] = [kind |-> "byte", k |-> base + j, off |-> base + j - message.from]
      /\ written'[U] = Stamp
      /\ \A j \in 1..M : j > U => written'[j].kind = "again"
  BY <1>2, <1>3, <1>4, SpillWrites
<1>6. /\ base \in Nat /\ message.to \in Nat /\ i \in Nat /\ message.from \in Nat
      /\ message.to <= message.from + BufSize /\ BufSize \in Nat /\ Word \in Nat \ {0}
      /\ message.from <= base /\ U \in Nat
  BY <1>3, <1>5, Constants DEF Typed, Messages
<1>7. ASSUME NEW j \in 1..M
      PROVE  \/ j \in 1..N /\ written'[j] = written[j]
             \/ \E l \in 1..(i + Word) : j = N + l /\ written'[j] = [kind |-> "byte", k |-> base + l, off |-> base + l - message.from]
             \/ j = U
             \/ written'[j].kind = "again"
  <2>1. CASE j <= N
    <3>1. j \in 1..N
      BY <1>5, <2>1
    <3> QED
      BY <1>5, <3>1
  <2>2. CASE j > N /\ j < U
    <3>1. j - N \in 1..(i + Word) /\ N + (j - N) = j
      BY <1>3, <1>5, <1>6, <2>2
    <3>2. PICK l \in 1..(i + Word) : j = N + l
      BY <3>1
    <3> QED
      BY <1>5, <3>2
  <2>3. CASE j > U
    BY <1>5, <2>3
  <2>4. j <= N \/ (j > N /\ j < U) \/ j > U \/ j = U
    BY <1>5, <1>6
  <2> QED
    BY <2>1, <2>2, <2>3, <2>4
<1>8. /\ Stamp.kind = "stamp"
      /\ Multiple(base + i + Word - message.from)
      /\ \A k \in Nat : Multiple(k - message.from) /\ k > base + i => k >= base + i + Word
  <2>1. Multiple(base - message.from) /\ Multiple(i)
    BY <1>1 DEF Scanned
  <2> QED
    BY <1>6, <2>1, NextWord DEF Stamp
<1>9. ASSUME NEW j \in 1..M, written'[j] = Stamp PROVE j > 1 /\ IsMark(j - 1)'
  <2>1. CASE j \in 1..N /\ written'[j] = written[j]
    <3>1. j > 1 /\ IsMark(j - 1)
      BY <1>2, <1>9, <2>1 DEF Marked
    <3>2. j - 1 \in 1..N
      BY <1>5, <2>1, <3>1
    <3> QED
      BY <1>1, <1>5, <3>1, <3>2, IsMarkIs
  <2>2. CASE j = U
    <3>1. i + Word \in 1..(i + Word) /\ j - 1 = N + (i + Word) /\ j > 1 /\ base + (i + Word) = base + i + Word
      BY <1>3, <1>5, <1>6, <2>2
    <3>2. written'[j - 1] = [kind |-> "byte", k |-> base + i + Word, off |-> base + i + Word - message.from]
      <4>1. PICK l \in 1..(i + Word) : l = i + Word
        BY <3>1
      <4>2. written'[N + l] = [kind |-> "byte", k |-> base + l, off |-> base + l - message.from]
        BY <1>5
      <4>3. j - 1 = N + l /\ base + l = base + i + Word
        BY <3>1, <4>1
      <4>4. written'[j - 1] = written'[N + l]
        BY <4>3
      <4>5. base + l - message.from = base + i + Word - message.from
        BY <1>6, <4>1
      <4> QED
        BY <4>2, <4>3, <4>4, <4>5
    <3>3. (base + i + Word - message.from) % Word = 0
      <4>1. base + i + Word - message.from \in Nat
        BY <1>6
      <4> QED
        BY <1>8, <4>1, MultipleMod
    <3> QED
      BY <1>1, <3>1, <3>2, <3>3, IsMarkIs
  <2>3. ~(\E l \in 1..(i + Word) : j = N + l /\ written'[j] = [kind |-> "byte", k |-> base + l, off |-> base + l - message.from])
    <3>1. ASSUME NEW l, written'[j] = [kind |-> "byte", k |-> base + l, off |-> base + l - message.from] PROVE FALSE
      <4>1. written'[j].kind = "byte"
        BY <3>1
      <4> QED
        BY <1>8, <1>9, <4>1
    <3> QED
      BY <3>1
  <2>4. written'[j].kind # "again"
    BY <1>8, <1>9
  <2> QED
    BY <1>7, <2>1, <2>2, <2>3, <2>4
<1>10. ASSUME NEW j \in 1..M, IsMark(j)'
       PROVE  (j < M /\ written'[j + 1] = Stamp) \/ CloseTo(written'[j].k)
  <2>1. CASE j \in 1..N /\ written'[j] = written[j]
    <3>1. IsMark(j)
      BY <1>1, <1>10, <2>1, IsMarkIs
    <3>2. (j < N /\ written[j + 1] = Stamp) \/ CloseTo(written[j].k)
      BY <1>2, <2>1, <3>1 DEF Marked
    <3>3. CASE j < N /\ written[j + 1] = Stamp
      <4>1. j + 1 \in 1..N /\ j < M
        BY <1>3, <1>5, <1>6, <2>1, <3>3
      <4> QED
        BY <1>5, <3>3, <4>1
    <3> QED
      BY <2>1, <3>2, <3>3
  <2>2. ASSUME NEW l \in 1..(i + Word), j = N + l, written'[j] = [kind |-> "byte", k |-> base + l, off |-> base + l - message.from]
        PROVE  (j < M /\ written'[j + 1] = Stamp) \/ CloseTo(written'[j].k)
    <3>1. /\ written'[j].k = base + l /\ base + l \in marks
          /\ Multiple(base + l - message.from)
      <4>1. /\ written'[j].k = base + l /\ base + l \in marks
            /\ (base + l - message.from) % Word = 0
        BY <1>1, <1>10, <2>2, IsMarkIs
      <4>2. base + l - message.from \in Nat
        BY <1>6
      <4> QED
        BY <4>1, <4>2, MultipleMod
    <3>2. CASE l = i + Word
      <4>1. j + 1 = U /\ j < M
        BY <1>3, <1>5, <1>6, <2>2, <3>2
      <4> QED
        BY <1>5, <4>1
    <3>3. CASE l # i + Word
      <4>1. base + l \in (base + 1)..(base + i) /\ base + l <= message.to
        <5>1. base + l \in Nat /\ l >= 1 /\ base + l < base + i + Word
          BY <1>6, <3>3
        <5>2. ~(base + l > base + i)
          BY <1>6, <1>8, <3>1, <5>1
        <5> QED
          BY <1>5, <1>6, <5>1, <5>2
      <4>2. base \in marks /\ message.from < base
        <5>1. PICK k : k = base + l
          OBVIOUS
        <5> QED
          BY <1>1, <1>6, <3>1, <4>1, <5>1 DEF Scanned
      <4>3. base < base + l /\ base + l < base + BufSize
        BY <1>6, <4>1, <4>2
      <4> QED
        BY <3>1, <4>2, <4>3 DEF CloseTo
    <3> QED
      BY <3>2, <3>3
  <2>3. j # U /\ written'[j].kind # "again"
    BY <1>5, <1>8, <1>10, IsMarkIs
  <2> QED
    BY <1>7, <2>1, <2>2, <2>3
<1> QED
  BY <1>1, <1>4, <1>9, <1>10 DEF Marked, CloseTo, IsMark

\* What has been written stays, and so do the stamps in it.
LEMMA StampsKept ==
  ASSUME NEW N \in Nat, \A j \in 1..N : written'[j] = written[j],
         NEW a \in Nat, NEW b \in Nat, b <= N
  PROVE  Stamps(a, b)' = Stamps(a, b)
<1>1. \A j \in (a + 1)..b : j \in 1..N
  OBVIOUS
<1> QED
  BY <1>1, StampsAre

LEMMA EndsCounted ==
  ASSUME Typed, Counted, Ends PROVE Counted'
<1>1. UNCHANGED <<begun, spillcount>>
  BY DEF Ends, Rest
<1>2. PICK N : N = Len(written)
  OBVIOUS
<1>3. PICK M : M = Len(written')
  OBVIOUS
<1>4. PICK n : n = message.to - base
  OBVIOUS
<1>5. /\ N \in Nat /\ n \in Nat /\ M = N + n
      /\ \A j \in 1..N : written'[j] = written[j]
      /\ \A j \in 1..n : written'[N + j] = [kind |-> "byte", k |-> base + j, off |-> base + j - message.from]
  BY <1>2, <1>3, <1>4, RestWrites
<1>6. PICK L : L = Len(begun)
  OBVIOUS
<1>7. /\ L \in Nat \ {0} /\ \A f \in 1..L : begun[f] \in Nat /\ begun[f] <= N
      /\ \A f \in 1..(L - 1) :
           /\ begun[f + 1] >= 1 /\ written[begun[f + 1]] = Stamp
           /\ \A a, b : a = begun[f] /\ b = begun[f + 1] => Cardinality(Stamps(a, b)) = NSpill
      /\ \A a, b : a = begun[L] /\ b = N => Cardinality(Stamps(a, b)) = spillcount % NSpill
  BY <1>2, <1>6 DEF Counted, Typed
<1>8. ASSUME NEW f \in 1..(L - 1)
      PROVE  /\ begun[f + 1] >= 1 /\ written'[begun[f + 1]] = Stamp
             /\ \A a, b : a = begun[f] /\ b = begun[f + 1] => Cardinality(Stamps(a, b)') = NSpill
  <2>1. f \in 1..L /\ f + 1 \in 1..L
    BY <1>7
  <2>2. begun[f + 1] \in 1..N
    <3>1. PICK e : e = begun[f + 1]
      OBVIOUS
    <3>2. e \in Nat /\ e <= N /\ e >= 1
      BY <1>7, <2>1, <3>1
    <3> QED
      BY <1>5, <3>1, <3>2
  <2>3. ASSUME NEW a, NEW b, a = begun[f], b = begun[f + 1]
        PROVE  Cardinality(Stamps(a, b)') = NSpill
    <3>1. a \in Nat /\ b \in Nat /\ b <= N
      BY <1>7, <2>1, <2>3
    <3>2. Stamps(a, b)' = Stamps(a, b)
      BY <1>5, <3>1, StampsKept
    <3> QED
      BY <1>7, <2>3, <3>2
  <2> QED
    BY <1>5, <1>7, <2>2, <2>3
<1>9. ASSUME NEW a, NEW b, a = begun[L], b = M
      PROVE  Cardinality(Stamps(a, b)') = spillcount % NSpill
  <2>1. a \in Nat /\ a <= N /\ N <= M
    BY <1>5, <1>7, <1>9
  <2>2. ASSUME NEW j \in (a + 1)..M, written'[j] = Stamp PROVE j \in (a + 1)..N
    <3>1. CASE j > N
      <4>1. j - N \in 1..n /\ N + (j - N) = j
        BY <1>5, <3>1
      <4>2. PICK l \in 1..n : j = N + l
        BY <4>1
      <4>3. written'[j] = [kind |-> "byte", k |-> base + l, off |-> base + l - message.from]
        BY <1>5, <4>2
      <4>4. written'[j].kind = "byte" /\ Stamp.kind = "stamp"
        BY <4>3 DEF Stamp
      <4> QED
        BY <2>2, <4>4
    <3> QED
      BY <1>5, <2>1, <3>1
  <2>3. \A j \in (a + 1)..N : j \in (a + 1)..M
    BY <1>5, <2>1
  <2>4. Stamps(a, b)' = Stamps(a, N)'
    BY <1>9, <2>2, <2>3, StampsAre
  <2>5. Stamps(a, N)' = Stamps(a, N)
    <3>1. N <= N
      BY <1>5
    <3> QED
      BY <1>5, <2>1, <3>1, StampsKept
  <2> QED
    BY <1>7, <1>9, <2>4, <2>5
<1>10. \A f \in 1..L : begun[f] <= M
  BY <1>5, <1>7
<1> QED
  BY <1>1, <1>3, <1>6, <1>7, <1>8, <1>9, <1>10 DEF Counted

\* The stamp that SpillEnd writes is counted, and it closes the file at NSpill of them.
LEMMA SpillCounted ==
  ASSUME Typed, Counted, SpillEnd PROVE Counted'
<1>1. spillcount' = spillcount + 1
  BY DEF SpillEnd
<1>2. PICK N : N = Len(written)
  OBVIOUS
<1>3. PICK U : U = N + i + Word + 1
  OBVIOUS
<1>4. PICK M : M = Len(written')
  OBVIOUS
<1>5. /\ N \in Nat /\ M \in Nat /\ U <= M
      /\ \A j \in 1..N : written'[j] = written[j]
      /\ \A j \in 1..(i + Word) : written'[N + j] = [kind |-> "byte", k |-> base + j, off |-> base + j - message.from]
      /\ written'[U] = Stamp
      /\ \A j \in 1..M : j > U => written'[j].kind = "again"
      /\ begun' = IF Closes THEN Append(begun, U) ELSE begun
  BY <1>2, <1>3, <1>4, SpillWrites
<1>6. PICK L : L = Len(begun)
  OBVIOUS
<1>7. /\ L \in Nat \ {0} /\ \A f \in 1..L : begun[f] \in Nat /\ begun[f] <= N
      /\ \A f \in 1..(L - 1) :
           /\ begun[f + 1] >= 1 /\ written[begun[f + 1]] = Stamp
           /\ \A a, b : a = begun[f] /\ b = begun[f + 1] => Cardinality(Stamps(a, b)) = NSpill
      /\ \A a, b : a = begun[L] /\ b = N => Cardinality(Stamps(a, b)) = spillcount % NSpill
      /\ begun \in Seq(Nat)
  BY <1>2, <1>6 DEF Counted, Typed
<1>8. i \in Nat /\ Word \in Nat /\ U \in Nat /\ N < U
  BY <1>3, <1>5, Constants DEF Typed
<1>9. PICK c : c = spillcount % NSpill
  OBVIOUS
<1>10. c \in Nat /\ (spillcount + 1) % NSpill = IF c = NSpill - 1 THEN 0 ELSE c + 1
  <2>1. spillcount \in Nat /\ NSpill \in Nat /\ NSpill # 0
    BY Constants DEF Typed
  <2>2. /\ c \in 0..(NSpill - 1)
        /\ (spillcount + 1) % NSpill = IF c = NSpill - 1 THEN 0 ELSE c + 1
    BY <1>9, <2>1, NextMod
  <2> QED
    BY <2>1, <2>2
<1>11. PICK A \in Nat : A = begun[L] /\ A <= N
  BY <1>7
<1>12. ASSUME NEW f \in 1..(L - 1)
       PROVE  /\ begun[f + 1] >= 1 /\ written'[begun[f + 1]] = Stamp
              /\ \A a, b : a = begun[f] /\ b = begun[f + 1] => Cardinality(Stamps(a, b)') = NSpill
  <2>1. f \in 1..L /\ f + 1 \in 1..L
    BY <1>7
  <2>2. begun[f + 1] \in 1..N
    <3>1. PICK e : e = begun[f + 1]
      OBVIOUS
    <3>2. e \in Nat /\ e <= N /\ e >= 1
      BY <1>7, <2>1, <3>1
    <3> QED
      BY <1>5, <3>1, <3>2
  <2>3. ASSUME NEW a, NEW b, a = begun[f], b = begun[f + 1]
        PROVE  Cardinality(Stamps(a, b)') = NSpill
    <3>1. a \in Nat /\ b \in Nat /\ b <= N
      BY <1>7, <2>1, <2>3
    <3>2. Stamps(a, b)' = Stamps(a, b)
      BY <1>5, <3>1, StampsKept
    <3> QED
      BY <1>7, <2>3, <3>2
  <2> QED
    BY <1>5, <1>7, <2>2, <2>3
\* Between the stamp and the end of what is written there is no other.
<1>13. Stamp.kind = "stamp"
  BY DEF Stamp
<1>14. Stamps(A, U)' = Stamps(A, N) \cup {U} /\ Stamps(A, M)' = Stamps(A, U)' /\ Stamps(U, M)' = {}
  <2>1. Stamps(A, N)' = Stamps(A, N)
    <3>1. N <= N
      BY <1>5
    <3> QED
      BY <1>5, <1>11, <3>1, StampsKept
  <2>2. ASSUME NEW j \in 1..M, j > U PROVE written'[j] # Stamp
    BY <1>5, <1>13, <2>2
  <2>3. ASSUME NEW j \in 1..M, j > N, j < U PROVE written'[j] # Stamp
    <3>1. j - N \in 1..(i + Word) /\ N + (j - N) = j
      BY <1>3, <1>5, <1>8, <2>3
    <3>2. PICK l \in 1..(i + Word) : j = N + l
      BY <3>1
    <3>3. written'[j] = [kind |-> "byte", k |-> base + l, off |-> base + l - message.from]
      BY <1>5, <3>2
    <3>4. written'[j].kind = "byte"
      BY <3>3
    <3> QED
      BY <1>13, <3>4
  <2>4. \A j \in (A + 1)..M : j \in 1..M /\ (j \in (A + 1)..N \/ (j > N /\ j < U) \/ j = U \/ j > U)
    BY <1>5, <1>8, <1>11
  <2>5. /\ \A j \in (A + 1)..N : j \in (A + 1)..U /\ j \in (A + 1)..M
        /\ \A j \in (A + 1)..U : j \in (A + 1)..M /\ ~(j > U)
        /\ U \in (A + 1)..U
        /\ \A j \in (U + 1)..M : j \in 1..M /\ j > U
        /\ \A j \in (A + 1)..M : j > U \/ j \in (A + 1)..U
    BY <1>5, <1>8, <1>11
  <2>6. Stamps(A, U)' = Stamps(A, N)' \cup {U}
    <3>1. ASSUME NEW j \in Stamps(A, U)' PROVE j \in Stamps(A, N)' \cup {U}
      BY <2>3, <2>4, <2>5, <3>1, StampsAre
    <3>2. ASSUME NEW j \in Stamps(A, N)' \cup {U} PROVE j \in Stamps(A, U)'
      BY <1>5, <2>5, <3>2, StampsAre
    <3> QED
      BY <3>1, <3>2
  <2>7. Stamps(A, M)' = Stamps(A, U)'
    BY <2>2, <2>4, <2>5, StampsAre
  <2>8. Stamps(U, M)' = {}
    BY <2>2, <2>5, StampsAre
  <2> QED
    BY <2>1, <2>6, <2>7, <2>8
<1>15. Cardinality(Stamps(A, U)') = c + 1 /\ Cardinality(Stamps(U, M)') = 0
  <2>1. IsFiniteSet((A + 1)..N)
    BY <1>5, <1>11, FS_Interval
  <2>2. Stamps(A, N) \in SUBSET ((A + 1)..N)
    BY StampsAre
  <2>3. IsFiniteSet(Stamps(A, N))
    BY <2>1, <2>2, FS_Subset
  <2>4. U \notin Stamps(A, N)
    BY <1>5, <1>8, <1>11, <2>2
  <2>5. Cardinality(Stamps(A, N)) = c
    BY <1>7, <1>9, <1>11
  <2> QED
    BY <1>14, <2>3, <2>4, <2>5, FS_AddElement, FS_EmptySet
<1>16. CASE Closes
  <2>1. begun' = Append(begun, U) /\ c + 1 = NSpill /\ spillcount' % NSpill = 0
    <3>1. NSpill \in Nat \ {0}
      BY Constants
    <3>2. (spillcount + 1) % NSpill = 0
      BY <1>16 DEF Closes
    <3>3. c = NSpill - 1
      BY <1>10, <3>1, <3>2
    <3> QED
      BY <1>1, <1>5, <1>10, <1>16, <3>1, <3>2, <3>3
  <2>2. /\ Len(begun') = L + 1 /\ begun'[L + 1] = U
        /\ \A f \in 1..L : begun'[f] = begun[f]
    BY <1>6, <1>7, <1>8, <2>1, AppendProperties
  <2>3. L + 1 \in Nat \ {0} /\ (L + 1) - 1 = L
    BY <1>7
  <2>4. ASSUME NEW f \in 1..(L + 1) PROVE begun'[f] <= M
    <3>1. CASE f = L + 1
      BY <1>5, <2>2, <3>1
    <3>2. CASE f # L + 1
      <4>1. f \in 1..L
        BY <1>7, <3>2
      <4>2. PICK e \in Nat : e = begun[f] /\ e <= N
        BY <1>7, <4>1
      <4>3. e <= M
        BY <1>5, <1>8, <4>2
      <4> QED
        BY <2>2, <4>1, <4>2, <4>3
    <3> QED
      BY <3>1, <3>2
  <2>5. ASSUME NEW f \in 1..L
        PROVE  /\ begun'[f + 1] >= 1 /\ written'[begun'[f + 1]] = Stamp
               /\ \A a, b : a = begun'[f] /\ b = begun'[f + 1] => Cardinality(Stamps(a, b)') = NSpill
    <3>1. CASE f = L
      BY <1>5, <1>8, <1>11, <1>15, <2>1, <2>2, <3>1
    <3>2. CASE f # L
      <4>1. f \in 1..(L - 1) /\ f + 1 \in 1..L
        BY <1>7, <3>2
      <4>2. begun'[f] = begun[f] /\ begun'[f + 1] = begun[f + 1]
        BY <2>2, <4>1
      <4> QED
        BY <1>12, <4>1, <4>2
    <3> QED
      BY <3>1, <3>2
  <2>6. \A a, b : a = begun'[L + 1] /\ b = M => Cardinality(Stamps(a, b)') = spillcount' % NSpill
    BY <1>15, <2>1, <2>2
  <2> QED
    BY <1>4, <2>2, <2>3, <2>4, <2>5, <2>6 DEF Counted
<1>17. CASE ~Closes
  <2>1. begun' = begun /\ spillcount' % NSpill = c + 1
    <3>1. (spillcount + 1) % NSpill # 0
      BY <1>17 DEF Closes
    <3>2. c # NSpill - 1
      BY <1>10, <3>1
    <3> QED
      BY <1>1, <1>5, <1>10, <1>17, <3>2
  <2>2. \A f \in 1..L : begun[f] <= M
    BY <1>5, <1>7, <1>8
  <2>3. \A a, b : a = begun[L] /\ b = M => Cardinality(Stamps(a, b)') = spillcount' % NSpill
    BY <1>11, <1>14, <1>15, <2>1
  <2> QED
    BY <1>4, <1>6, <1>7, <1>12, <2>1, <2>2, <2>3 DEF Counted
<1> QED
  BY <1>16, <1>17

LEMMA FileStep ==
  Typed /\ Placed /\ FileInv /\ [Next]_vars => FileInv'
<1> SUFFICES ASSUME Typed, Placed, FileInv, [Next]_vars PROVE FileInv'
  OBVIOUS
<1>1. Scanned'
  BY ScannedStep DEF FileInv
<1>2. CASE SpillEnd
  BY <1>1, <1>2, SpillMarked, SpillCounted DEF FileInv
<1>3. CASE Ends
  BY <1>1, <1>3, EndsMarked, EndsCounted DEF FileInv
<1>4. CASE ~SpillEnd /\ ~Ends
  <2>1. UNCHANGED <<written, begun, spillcount, marks>>
    BY <1>4 DEF Next, Avant, Rear, Command, Enter, CheckState, Alloc, Read, ReadFails, Send, SendFails,
                RearEnter, RearState, RearDepth, RearLeave, RearRecv, Skip, Rest, Ends,
                avant, scan, ofs, rear, zmq, hist, vars
  <2>2. Marked'
    BY <2>1 DEF FileInv, Marked, IsMark, CloseTo
  <2>3. Counted'
    <3>1. Counted
      BY DEF FileInv
    <3>2. \A a, b : Stamps(a, b)' = Stamps(a, b)
      BY <2>1, StampsAre
    <3>3. \A a, b : Cardinality(Stamps(a, b))' = Cardinality(Stamps(a, b))
      BY <3>2
    <3>4. \A f \in 1..(Len(begun) - 1) : \A a, b : a = begun[f] /\ b = begun[f + 1] =>
            Cardinality(Stamps(a, b))' = NSpill
      BY <3>1, <3>3 DEF Counted
    <3>5. \A a, b : a = begun[Len(begun)] /\ b = Len(written) =>
            Cardinality(Stamps(a, b))' = spillcount % NSpill
      BY <3>1, <3>3 DEF Counted
    <3>6. /\ Len(begun) \in Nat \ {0}
          /\ \A f \in 1..Len(begun) : begun[f] <= Len(written)
          /\ \A f \in 1..(Len(begun) - 1) : begun[f + 1] >= 1 /\ written[begun[f + 1]] = Stamp
      BY <3>1 DEF Counted
    <3> QED
      BY <2>1, <3>4, <3>5, <3>6 DEF Counted
  <2> QED
    BY <1>1, <2>2, <2>3 DEF FileInv
<1> QED
  BY <1>2, <1>3, <1>4

LEMMA FileInit == Init => FileInv
<1> SUFFICES ASSUME Init PROVE FileInv
  OBVIOUS
<1>1. rpc = "out" /\ written = <<>> /\ begun = <<0>> /\ spillcount = 0
  BY DEF Init
<1>2. Len(written) = 0 /\ Len(begun) = 1 /\ begun[1] = 0
  BY <1>1
<1>3. Stamps(0, 0) = {}
  BY StampsAre
<1>4. 0 % NSpill = 0
  BY Constants
<1>5. Counted
  <2>1. Cardinality(Stamps(0, 0)) = 0
    BY <1>3, FS_EmptySet
  <2>2. 1..(1 - 1) = {} /\ 1..1 = {1}
    OBVIOUS
  <2> QED
    BY <1>1, <1>2, <1>4, <2>1, <2>2 DEF Counted
<1>6. Marked
  <2>1. 1..0 = {}
    OBVIOUS
  <2> QED
    BY <1>2, <2>1 DEF Marked
<1> QED
  BY <1>1, <1>5, <1>6 DEF FileInv, Scanned

\* Files end at spills, of which each that has been closed holds NSpill; only markers
\* close behind another are without a stamp.
THEOREM FilesEnd == Spec => []FilesEndAtSpills
<1>1. Typed /\ Placed /\ FileInv /\ [Next]_vars => (Typed /\ Placed /\ FileInv)'
  BY TypedStep, FileStep
<1>2. Typed /\ FileInv => FilesEndAtSpills
  <2> SUFFICES ASSUME Typed, FileInv PROVE FilesEndAtSpills
    OBVIOUS
  <2>1. DOMAIN written = 1..Len(written)
    BY LenProperties DEF Typed
  <2> QED
    BY <2>1 DEF FileInv, Marked, Counted, CloseTo, FilesEndAtSpills
<1> QED
  BY <1>1, <1>2, PlaceInit, FileInit, PTL DEF Spec
=============================================================================
