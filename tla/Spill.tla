-------------------------------- MODULE Spill --------------------------------
(***************************************************************************)
(* The raw pipeline of dtmain: DTavant (dtavant.cxx) cuts the stream of    *)
(* its front end into messages of m_bufsize bytes, any number; DTrear      *)
(* (dtrear.cxx) writes them to files, looks at each message word by word   *)
(* from its start, puts a time stamp behind each word that is the spill    *)
(* marker 0xffff5555 and begins a file after every m_nspill of them.  The  *)
(* k-th byte of the front end is the number k; a message holds the bytes   *)
(* from + 1 to to.                                                         *)
(***************************************************************************)
EXTENDS Naturals, Sequences, FiniteSets

CONSTANTS Word,        \* sizeof(unsigned int)
          BufSize,     \* m_bufsize, in bytes: set_bufsize (-b) takes any number
          QueLen,      \* m_quelen: the pipe's capacity
          NSpill,      \* m_nspill
          MaxBytes,    \* bound: bytes of the front end, which closes behind them
          MaxErrors,   \* bound: reads that throw
          MaxPipes     \* bound: pipes at a time

ASSUME SpillAssumption ==
  {Word, BufSize, QueLen, NSpill, MaxPipes} \subseteq Nat \ {0} /\ {MaxBytes, MaxErrors} \subseteq Nat

VARIABLES
  running,    \* c_state = SM_RUNNING
  depth,      \* g_avant_depth
  \* the avant
  apc,        \* "out", "check", "alloc", "read", "send"
  next,       \* bytes read from the front end
  buf,        \* the message it has filled
  errors,     \* reads that have thrown
  \* ZMQ between the two
  pipes,      \* what is in the pipes of the avant's sockets
  pipe,       \* the pipe of its last socket
  link,       \* that socket: "up", or "cut" when its receiver is gone
  \* the rear
  rpc,        \* "out", "state", "depth", "recv", "scan", "leave"
  message,    \* the last message received
  held,       \* it holds a buffer of the avant
  base,       \* data points behind this byte
  i,          \* in bytes: i words
  is_spill_end,
  spillcount, \* static
  written,    \* what has gone into the files, one behind the other
  begun,      \* how much that was when each of the files was begun
  \* history
  marks,      \* the bytes at which a word that reads as a spill marker ends
  lost,       \* bytes thrown away: by a read that throws, or with a pipe
  overlap     \* the avant opened a pipe with an earlier one not yet empty

avant == <<apc, next, buf, errors>>
ofs == <<written, begun>>
scan == <<base, i, is_spill_end, spillcount, ofs>>
rear == <<rpc, message, held, scan>>
zmq == <<pipes, pipe, link>>
hist == <<marks, lost, overlap>>
vars == <<running, depth, avant, zmq, rear, hist>>

Message(m, n) == [from |-> m, to |-> n]
None == Message(0, 0)
Of(m) == (m.from + 1)..m.to
\* What a file holds: bytes, each with its place in its message, stamps, and bytes
\* written once more out of place.
Bytes(m, n, from) == [j \in 1..(n - m) |-> [kind |-> "byte", k |-> m + j, off |-> m + j - from]]
Again(m, n) == [j \in 1..(n - m) |-> [kind |-> "again", k |-> m + j, off |-> 0]]
Stamp == [kind |-> "stamp", k |-> 0, off |-> 0]

\* The marker does not overlap itself at any place.
Markings == {S \in SUBSET (Word..MaxBytes) : \A j, k \in S : j < k => j + Word <= k}

Init ==
  /\ running = FALSE /\ depth = 0
  /\ apc = "out" /\ next = 0 /\ buf = None /\ errors = 0
  /\ pipes = [p \in 1..MaxPipes |-> <<>>] /\ pipe = 1 /\ link = "up"
  /\ rpc = "out" /\ message = None /\ held = FALSE
  /\ base = 0 /\ i = 0 /\ is_spill_end = FALSE /\ spillcount = 0
  /\ written = <<>> /\ begun = <<0>>
  /\ marks \in Markings /\ lost = {} /\ overlap = FALSE

\* The main program's run and idle commands.
Command == running' = ~running /\ UNCHANGED <<depth, avant, zmq, rear, hist>>

(***************************************************************************)
(* DTavant::st_running                                                     *)
(***************************************************************************)
\* A new socket; the pipe of an earlier one lasts until it is empty.
Enter ==
  /\ apc = "out" /\ running
  /\ apc' = "check" /\ link' = "up"
  /\ \E p \in DOMAIN pipes :
       /\ pipes[p] = <<>> /\ (pipes[pipe] = <<>> => p = pipe)
       /\ pipe' = p
  /\ overlap' = (overlap \/ \E p \in DOMAIN pipes : pipes[p] # <<>>)
  /\ UNCHANGED <<running, depth, next, buf, errors, pipes, rear, marks, lost>>

CheckState ==
  /\ apc = "check"
  /\ apc' = IF running THEN "alloc" ELSE "out"
  /\ UNCHANGED <<running, depth, next, buf, errors, zmq, rear, hist>>

Alloc ==
  /\ apc = "alloc"
  /\ apc' = "read" /\ depth' = depth + 1
  /\ UNCHANGED <<running, next, buf, errors, zmq, rear, hist>>

\* A whole buffer, unless the front end has closed.
Read ==
  /\ apc = "read"
  /\ next' = IF next + BufSize <= MaxBytes THEN next + BufSize ELSE MaxBytes
  /\ buf' = Message(next, next') /\ apc' = "send"
  /\ UNCHANGED <<running, depth, errors, zmq, rear, hist>>

\* What the read had got is lost, and the buffer stays counted.
ReadFails ==
  /\ apc = "read" /\ errors < MaxErrors
  /\ \E k \in 0..(BufSize - 1) :
       /\ next + k <= MaxBytes
       /\ next' = next + k /\ lost' = lost \cup {next + j : j \in 1..k}
  /\ apc' = "out" /\ errors' = errors + 1
  /\ UNCHANGED <<running, depth, buf, zmq, rear, marks, overlap>>

\* send blocks on a full pipe, and for ever on one whose receiver is gone.
Send ==
  /\ apc = "send" /\ link = "up" /\ Len(pipes[pipe]) < QueLen
  /\ pipes' = [pipes EXCEPT ![pipe] = Append(@, buf)] /\ buf' = None /\ apc' = "check"
  /\ UNCHANGED <<running, depth, next, errors, pipe, link, rear, hist>>

\* send throws: st_running returns, and the message frees its buffer (buf_free).
SendFails ==
  /\ apc = "send" /\ errors < MaxErrors
  /\ lost' = lost \cup Of(buf) /\ buf' = None
  /\ depth' = depth - 1
  /\ apc' = "out" /\ errors' = errors + 1
  /\ UNCHANGED <<running, next, zmq, rear, marks, overlap>>

(***************************************************************************)
(* DTrear::st_running                                                      *)
(***************************************************************************)
RearEnter ==
  /\ rpc = "out" /\ running
  /\ rpc' = "state"
  /\ UNCHANGED <<running, depth, avant, zmq, message, held, scan, hist>>

RearState ==
  /\ rpc = "state"
  /\ rpc' = IF running THEN "recv" ELSE "depth"
  /\ UNCHANGED <<running, depth, avant, zmq, message, held, scan, hist>>

RearDepth ==
  /\ rpc = "depth"
  /\ rpc' = IF depth <= 0 THEN "leave" ELSE "recv"
  /\ UNCHANGED <<running, depth, avant, zmq, message, held, scan, hist>>

\* The handler returns: closing the receiver frees what has come meanwhile.
Waiting == UNION {{<<p, j>> : j \in DOMAIN pipes[p]} : p \in DOMAIN pipes}
RearLeave ==
  /\ rpc = "leave"
  /\ rpc' = "out" /\ pipes' = [p \in DOMAIN pipes |-> <<>>]
  /\ depth' = depth - Cardinality(Waiting)
  /\ lost' = lost \cup UNION {Of(pipes[x[1]][x[2]]) : x \in Waiting}
  /\ link' = IF apc = "out" THEN link ELSE "cut"
  /\ UNCHANGED <<running, avant, pipe, message, held, scan, marks, overlap>>

\* recv frees the message it had, then takes one from a pipe that has one.
RearRecv ==
  /\ rpc = "recv"
  /\ depth' = IF held THEN depth - 1 ELSE depth
  /\ \/ /\ \A p \in DOMAIN pipes : pipes[p] = <<>>
        /\ rpc' = "state" /\ message' = None /\ held' = FALSE /\ UNCHANGED pipes
     \/ \E p \in DOMAIN pipes :
          /\ pipes[p] # <<>>
          /\ rpc' = "scan" /\ message' = Head(pipes[p]) /\ held' = TRUE
          /\ pipes' = [pipes EXCEPT ![p] = Tail(@)]
  /\ base' = message'.from /\ i' = 0 /\ is_spill_end' = FALSE
  /\ UNCHANGED <<running, avant, pipe, link, spillcount, ofs, hist>>

(***************************************************************************)
(* DTrear::write_data.  data holds the bytes base + 1 to message.to.        *)
(***************************************************************************)
data_size == message.to - base
Data(n) == Bytes(base, base + n, message.from)

\* No marker at i; what is left behind the last whole word is not looked at.
Skip ==
  /\ rpc = "scan" /\ i + Word <= data_size /\ base + i + Word \notin marks
  /\ i' = i + Word
  /\ UNCHANGED <<running, depth, avant, zmq, rpc, message, held, base, is_spill_end,
                 spillcount, ofs, hist>>

\* data = &data[i + 1], and &data[i].
MovedBase_short == base + i
MovedBase == base + i + Word
\* The count is compared behind its increment, and in front of it.
Closes_before == spillcount % NSpill = 0
Closes == (spillcount + 1) % NSpill = 0

\* A marker: everything up to it and a stamp are written, data moves behind it, and i
\* is counted on.  Then as many bytes as are left are written from the start of the
\* message.
SpillEnd ==
  /\ rpc = "scan" /\ i + Word <= data_size /\ base + i + Word \in marks
  /\ LET upto == written \o Data(i + Word) \o <<Stamp>>
         left == data_size - (i + Word)
     IN  /\ written' = upto \o Again(message.from, message.from + left)
         /\ begun' = IF Closes THEN Append(begun, Len(upto)) ELSE begun
  /\ spillcount' = spillcount + 1
  /\ base' = MovedBase /\ i' = i + Word /\ is_spill_end' = TRUE
  /\ UNCHANGED <<running, depth, avant, zmq, rpc, message, held, hist>>

\* The end of the inner loop: once more if it has met a marker, else the rest.
Rest ==
  /\ rpc = "scan" /\ i + Word > data_size
  /\ IF is_spill_end /\ data_size > 0
       THEN i' = 0 /\ is_spill_end' = FALSE /\ UNCHANGED <<rpc, base, written>>
       ELSE /\ written' = written \o Data(data_size) /\ base' = message.to
            /\ rpc' = "state" /\ UNCHANGED <<i, is_spill_end>>
  /\ UNCHANGED <<running, depth, avant, zmq, message, held, spillcount, begun, hist>>

Avant == Enter \/ CheckState \/ Alloc \/ Read \/ ReadFails \/ Send \/ SendFails
Rear == RearEnter \/ RearState \/ RearDepth \/ RearLeave \/ RearRecv \/ Skip \/ SpillEnd \/ Rest
Next == Command \/ Avant \/ Rear

Spec == Init /\ [][Next]_vars
-----------------------------------------------------------------------------
\* Where the bytes of the front end are, and which are at such a place: in the files,
\* in the message, in the pipes, in the buffer of the avant.
Places ==
  {<<1, 0, j>> : j \in {j \in DOMAIN written : written[j].kind = "byte"}} \cup {<<2, 0, 0>>}
  \cup {<<3, x[1], x[2]>> : x \in Waiting} \cup {<<4, 0, 0>>}
At(x) ==
  CASE x[1] = 1 -> {written[x[3]].k}
    [] x[1] = 2 -> (base + 1)..message.to
    [] x[1] = 3 -> Of(pipes[x[2]][x[3]])
    [] x[1] = 4 -> Of(buf)
Ahead(x, y) == x[1] < y[1] \/ (x[1] = y[1] /\ x[3] < y[3])

\* Although data and data_size move while i counts on, every byte of the front end is
\* in the files once, or still on its way to them, or among those a throwing call or a
\* closed receiver threw away; not counting what is written again.  The bytes are in
\* order unless the avant began a run while messages of the last one were waiting:
\* the receiver then takes from both pipes in turn.
WrittenInOrder ==
  /\ UNION {At(x) : x \in Places} = (1..next) \ lost
  /\ \A x, y \in Places : x # y => At(x) \cap At(y) = {}
  /\ ~overlap => \A x, y \in Places : Ahead(x, y) => \A k \in At(x), l \in At(y) : k < l

\* The files end at spills: a file that has been closed ends with a stamp and holds
\* NSpill of them, each directly behind a marker.  Of the markers the rear can see, those
\* that are a word of their message, one is without a stamp only if there is another one
\* close before it, in the same message.  A marker cut in two or at an odd place, as -b
\* or a throwing read may leave it, has none.
Stamps(m, n) == {j \in (m + 1)..n : written[j] = Stamp}
IsMark(j) ==
  written[j].kind = "byte" /\ written[j].k \in marks /\ written[j].off % Word = 0
FilesEndAtSpills ==
  /\ \A f \in 1..(Len(begun) - 1) :
       /\ written[begun[f + 1]] = Stamp
       /\ Cardinality(Stamps(begun[f], begun[f + 1])) = NSpill
  /\ \A j \in DOMAIN written : written[j] = Stamp => j > 1 /\ IsMark(j - 1)
  /\ \A j \in DOMAIN written :
       IsMark(j) => \/ j < Len(written) /\ written[j + 1] = Stamp
                    \/ \E m \in marks : m < written[j].k /\ written[j].k < m + BufSize
=============================================================================
