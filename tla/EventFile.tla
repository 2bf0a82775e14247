------------------------------- MODULE EventFile -------------------------------
(***************************************************************************)
(* Events on disk.  recv_data (src/ebreceiver.cxx) checks a message        *)
(* (PackedEvent) and appends it to a file (-c and -o); the file is read    *)
(* back by `ebreceiver -i' (read_file) and, from its standard input, by    *)
(* checkleb (reading, src/checkleb.cxx).  recv_data has no end of its own: *)
(* it is killed, and what the stream had buffered is not in the file, so   *)
(* the file can end at any byte.                                           *)
(*                                                                         *)
(* In the file a message is its two fields `length' and `nodes'; the place *)
(* of a reader is an offset.  What a reader takes for a header that is     *)
(* none has any length and any number of nodes.                            *)
(***************************************************************************)
EXTENDS PackedEvent

CONSTANTS
    Junk,       \* what may be taken for a length field
    Half,       \* what fits into half of it, 2^16
    BufSize,    \* the buffer checkleb begins with, 100000 bytes
    MaxEvents,  \* bound of the model: messages received
    Cuts        \* bytes of the last message a kill may cost

ASSUME LengthAssumption == Junk \subseteq Nat /\ Half \in Nat \ {0} /\ MaxEvents \in Nat
                           /\ BufSize \in Nat
ASSUME CutAssumption == Cuts \subseteq Nat

VARIABLES
    file,       \* the lengths of the messages written, the last perhaps cut
    counted,    \* their `nodes' fields
    size,       \* bytes in the file
    prog,       \* the program at work and where it is
    pos,        \* bytes the reader has taken
    eof,        \* eofbit of its stream
    header,     \* the header it holds: the number of a message, or 0 for junk
    left,       \* bytes of the body it asks for
    shown       \* history: the headers checkleb printed

filevars == <<file, counted, size>>
readvars == <<pos, eof, header, left, shown>>
vars == <<walkvars, filevars, prog, readvars>>

\* Where the k-th message starts, whole or not.
Start(k) == Sums([q \in DOMAIN file |-> PHead + file[q]])[k - 1]
Whole == {k \in DOMAIN file : Start(k) + PHead <= size}     \* whole headers

Init ==
    /\ PackInit
    /\ file = << >> /\ counted = << >> /\ size = 0
    /\ prog = "record"
    /\ pos = 0 /\ eof = FALSE /\ header = 0 /\ left = 0
    /\ shown = << >>

--------------------------------------------------------------------------------
\* recv_data: a message comes, check_data walks over it,
Receive ==
    /\ prog = "record" /\ Len(file) < MaxEvents
    /\ Send \/ Walking
    /\ UNCHANGED <<filevars, prog, readvars>>

\* and `g_ofs.write(buf, nsize)', whatever check_data found.
Record ==
    /\ prog = "record" /\ at \in {"checked", "truncated"}
    /\ file' = Append(file, message.length)
    /\ counted' = Append(counted, message.nodes)
    /\ size' = size + PHead + message.length
    /\ Forget
    /\ UNCHANGED <<prog, readvars>>

\* The receiver is killed and a reader is started on what is in the file.
Kill ==
    /\ prog = "record"
    /\ \E c \in Cuts : /\ c <= (IF file = << >> THEN 0 ELSE PHead + Last(file))
                       /\ size' = size - c
    /\ prog' \in {"checkleb header", "ebreceiver header"}
    /\ Forget
    /\ UNCHANGED <<file, counted, readvars>>

--------------------------------------------------------------------------------
\* istream::read of n bytes: all of them, or what there is, and eofbit.
Short_at(n) == pos + n >= size
Short(n) == pos + n > size
Take(n) == /\ pos' = IF Short(n) THEN size ELSE pos + n
           /\ eof' = (eof \/ Short(n))

\* The header at pos, and what its fields say.
Here == {k \in DOMAIN file : Start(k) = pos}
Found == IF Here = {} THEN 0 ELSE CHOOSE k \in Here : TRUE
Length(k) == IF k = 0 THEN Junk ELSE {file[k]}
Count(k) == IF k = 0 THEN 0 .. MaxFrags ELSE {counted[k]}

\* checkleb prints whatever its struct holds after the read: at the end of the
\* file the previous header, or junk when a piece of another one was left.
CheckHeader ==
    /\ prog = "checkleb header"
    /\ Take(PHead)
    /\ header' = IF ~ Short(PHead) THEN Found ELSE IF pos = size THEN header ELSE 0
    /\ left' \in Length(header')
    /\ shown' = Append(shown, header')
    /\ prog' = "checkleb body"
    /\ UNCHANGED <<walkvars, filevars>>

\* Nothing is read any more once eofbit is set.  A larger buffer may not be had.
CheckBody ==
    /\ prog = "checkleb body"
    /\ IF eof THEN UNCHANGED <<pos, eof>> ELSE Take(left)
    /\ prog' = IF eof' THEN "done" ELSE "checkleb header"
    /\ UNCHANGED <<walkvars, filevars, header, left, shown>>

CheckFails ==
    /\ prog = "checkleb body" /\ left > BufSize
    /\ prog' = "failed"
    /\ UNCHANGED <<walkvars, filevars, readvars>>

Asked(length) == length \div Half
Goes_on(place) == prog' = place
Goes(place) == prog' = IF eof' THEN "done" ELSE place
ReadHeader ==
    /\ prog = "ebreceiver header"
    /\ Take(PHead)
    /\ header' = Found
    /\ \E length \in Length(header'), nodes \in Count(header') :
          /\ message' = [Empty EXCEPT !.length = length, !.nodes = nodes]
          /\ left' = Asked(length)
    /\ Goes("ebreceiver body")
    /\ UNCHANGED <<event, room, i, body, heads, at, filevars, shown>>

\* check_data(data, nsize + sizeof(packed_event)), of all that was allocated.
ReadBody ==
    /\ prog = "ebreceiver body"
    /\ Take(left)
    /\ Goes("ebreceiver walk")
    /\ IF eof' THEN UNCHANGED <<room, i, body, heads, at>> ELSE CheckData(PHead + left)
    /\ UNCHANGED <<event, message, filevars, header, left, shown>>

ReadWalk ==
    /\ prog = "ebreceiver walk"
    /\ Walking
    /\ UNCHANGED <<filevars, prog, readvars>>

ReadNext ==
    /\ prog = "ebreceiver walk" /\ at \in {"checked", "truncated"}
    /\ Forget
    /\ prog' = "ebreceiver header"
    /\ UNCHANGED <<filevars, readvars>>

Reader == \/ CheckHeader \/ CheckBody \/ CheckFails
          \/ ReadHeader \/ ReadBody \/ ReadWalk \/ ReadNext
Next == Receive \/ Record \/ Kill \/ Reader
Spec == Init /\ [][Next]_vars

\* A reader runs.
FairSpec == Spec /\ WF_vars(Reader)

--------------------------------------------------------------------------------
\* checkleb shows every event whose header is in the file, in the order of the
\* file and before anything else, wherever the recording was cut; its test of
\* eof, one read late (checkleb.cxx:52), makes it show at most one thing more,
\* the last event again or a header made of the remains.
ShowsFile ==
    /\ \A k \in DOMAIN shown : k \in Whole => shown[k] = k
    /\ Len(shown) <= Cardinality(Whole) + 1
    /\ prog = "done" /\ shown # << >> => Len(shown) >= Cardinality(Whole)


\* A reader comes to the end of every file, cut anywhere, although ebreceiver
\* goes by lengths it misreads and by headers that are none; what can stop it
\* earlier is a buffer checkleb does not get, and the walk outside.
ReaderEnds == prog \in {"checkleb header", "ebreceiver header"} ~>
                  prog \in {"done", "failed"} \/ (at = "crashed" /\ ~ Inside)
================================================================================
