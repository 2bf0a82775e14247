------------------------------ MODULE PackedEvent ------------------------------
(***************************************************************************)
(* The message an event leaves the builder in, and the walk over it that   *)
(* the receiver makes.  pack_data (src/dteb.cxx) copies the fragments of   *)
(* the nodes it knows behind a packed_event header (src/packed_event.h);   *)
(* check_data (src/ebreceiver.cxx, with -c) steps from fragment header to  *)
(* fragment header, by the length each of them holds.  What the receiver   *)
(* does with the message then is EventFile.                                *)
(*                                                                         *)
(* Bytes are left out: a message is the sizes and the order of what it     *)
(* holds, and a place in it is an offset.  A fragment is the id it came    *)
(* with, the `len' field of its header and the bytes the front end really  *)
(* read: header and body, or less behind the end of a stream, where the    *)
(* read of dtarecbe.cxx:169-199 comes short and is passed on all the same. *)
(***************************************************************************)
EXTENDS Integers, Sequences, FiniteSets, SequencesExt

CONSTANTS
    Nodes,      \* m_nodes, the ids of the node file in order
    Ids,        \* ids a front end may put into its header
    Lens,       \* values of a `len' field
    Shorts,     \* bytes there may be of a fragment cut by the end of a stream
    MaxFrags,   \* bound of the model: fragments of an event
    RHead,      \* sizeof(struct recbe_header), 12
    PHead       \* sizeof(struct packed_event), 16

ASSUME NodesAssumption == Nodes \in Seq(Ids) /\ Nodes # << >>
ASSUME SizeAssumption == /\ Lens \subseteq Nat /\ Shorts \subseteq Nat /\ MaxFrags \in Nat
                         /\ RHead \in Nat \ {0} /\ PHead \in Nat \ {0}
                         /\ RHead <= PHead /\ PHead < 2 * RHead

Entire(f) == f.size = RHead + f.len
Fragment == UNION {[node : Ids, len : {l},
                    size : {RHead + l} \cup {s \in Shorts : s < RHead + l}] : l \in Lens}
Events == SeqOf(Fragment, MaxFrags) \ {<< >>}

VARIABLES
    event,      \* the entry of m_events that is sent
    message,    \* the message check_data looks at
    room,       \* the bytes it has of it, from the start of the header
    i,          \* fragments check_data has stepped over
    body,       \* the offset of the next fragment header
    heads,      \* history: the offsets at which a header was read
    at          \* "send", "walk", "checked", "truncated" or "crashed"

walkvars == <<event, message, room, i, body, heads, at>>

\* At k, the sum of the first k numbers of s.
Sums(s) == LET sum[k \in 0 .. Len(s)] == IF k = 0 THEN 0 ELSE sum[k - 1] + s[k] IN sum
Sizes(frags) == Sums([k \in DOMAIN frags |-> frags[k].size])
SizeOf(frags) == Sizes(frags)[Len(frags)]

--------------------------------------------------------------------------------
\* pack_data.

Has(ev, n) == \E k \in DOMAIN ev : ev[k].node = n

\* The fragments of one node, in arrival order.
CopiedOf(ev, n) ==
    LET copied[k \in 0 .. Len(ev)] ==
          IF k = 0 THEN << >>
          ELSE IF ev[k].node = n THEN Append(copied[k - 1], ev[k]) ELSE copied[k - 1]
    IN  copied[Len(ev)]

\* The fragments of the known nodes, node by node.
Copied(ev) == FlattenSeq([n \in DOMAIN Nodes |-> CopiedOf(ev, Nodes[n])])

\* is_fullev is assigned for each node in turn; the last assignment stays.
IsFullev(ev) == Has(ev, Last(Nodes))

\* `nodes' counts every fragment of the event, `length' those that were copied.
Pack(ev) == [length |-> SizeOf(Copied(ev)),
             nodes  |-> Len(ev),
             flag   |-> IF IsFullev(ev) THEN 1 ELSE 0,
             frags  |-> Copied(ev)]

--------------------------------------------------------------------------------
\* Where the headers of the fragments really are.
Boundary(msg, k) == PHead + Sizes(msg.frags)[k - 1]

\* The `len' field found at an offset: a fragment's when its header is there,
\* whatever lies there otherwise.
LenAt(msg, offset) ==
    LET here == {k \in DOMAIN msg.frags : /\ Boundary(msg, k) = offset
                                          /\ msg.frags[k].size >= RHead} IN
    IF here = {} THEN Lens ELSE {msg.frags[k].len : k \in here}

Empty == [length |-> 0, nodes |-> 0, flag |-> 0, frags |-> << >>]
PackInit ==
    /\ event = << >> /\ message = Empty /\ room = 0
    /\ i = 0 /\ body = 0 /\ heads = << >>
    /\ at = "send"

\* check_data(data, size)
CheckData(size) ==
    /\ room' = size
    /\ i' = 0 /\ body' = PHead /\ heads' = << >>
    /\ at' = "walk"

\* send_data packs an event; the receiver gets the message whole.
Send ==
    /\ at = "send"
    /\ event' \in Events
    /\ message' = Pack(event')
    /\ CheckData(PHead + message'.length)

\* `(body - data) >= dlen': body counts from the message header, dlen does not.
PastEnd_header == body + RHead >= message.length
PastEnd == body >= message.length

\* The header is in what check_data has; it never asks: `size' is only printed.
Inside == body + RHead <= room

\* One turn of the loop of check_data; outside, the length is what it finds there.
Stride_body(len) == len
Stride(len) == len + RHead
WalkOn ==
    /\ at = "walk" /\ i < message.nodes /\ ~ PastEnd
    /\ heads' = Append(heads, body)
    /\ \E len \in LenAt(message, body) : body' = body + Stride(len)
    /\ i' = i + 1
    /\ UNCHANGED <<event, message, room, at>>

\* Outside, the program may also end.
WalkCrashes ==
    /\ at = "walk" /\ i < message.nodes /\ ~ PastEnd /\ ~ Inside
    /\ at' = "crashed"
    /\ UNCHANGED <<event, message, room, i, body, heads>>

\* "#E Data was trancated."
WalkBreaks ==
    /\ at = "walk" /\ i < message.nodes /\ PastEnd
    /\ at' = "truncated"
    /\ UNCHANGED <<event, message, room, i, body, heads>>

WalkEnds ==
    /\ at = "walk" /\ i = message.nodes
    /\ at' = "checked"
    /\ UNCHANGED <<event, message, room, i, body, heads>>

\* The message is dropped.
Forget ==
    /\ event' = << >> /\ message' = Empty /\ room' = 0
    /\ i' = 0 /\ body' = 0 /\ heads' = << >>
    /\ at' = "send"

Walking == WalkOn \/ WalkCrashes \/ WalkBreaks \/ WalkEnds

--------------------------------------------------------------------------------
\* check_data trusts `nodes', which pack_data sets to the number of fragments of
\* the event, listed or not (dteb.cxx:581), and not to the number it copied, and
\* a length test that mixes two offsets (ebreceiver.cxx:84).  In a message off
\* the queue, as long as no fragment in front was cut by the end of a stream,
\* what it takes for the k-th fragment header is the k-th, for any ids and
\* lengths; behind the first cut one it may take anything for a header.
WalkAligned ==
    event # << >> =>
        \A k \in DOMAIN heads :
            (\A f \in DOMAIN message.frags : f < k => Entire(message.frags[f])) =>
                k \in DOMAIN message.frags /\ heads[k] = Boundary(message, k)

\* A message off the queue without cut fragments or fragments of unknown ids is
\* never stopped more than one fragment early: the length test, 16 bytes too
\* strict (ebreceiver.cxx:84), costs at most the last header, and only when its
\* body is shorter than the difference.
LosesOnlyTinyTail ==
    ( /\ event # << >> /\ at = "truncated" /\ Len(message.frags) = message.nodes
      /\ \A f \in DOMAIN message.frags : Entire(message.frags[f]) ) =>
        /\ i = message.nodes - 1
        /\ RHead + Last(message.frags).len <= PHead
================================================================================
