------------------------------ MODULE EventBuilder ------------------------------
(***************************************************************************)
(* DTeb, the event builder thread of leb (src/dteb.cxx).  The front-end    *)
(* tasks push fragments <<id, trigger>>; the builder collects the          *)
(* fragments of one trigger number in an entry of m_events and hands the   *)
(* entry to send_data when it holds as many fragments as there are nodes,  *)
(* when a younger event behind it completes, or when the buffer overflows. *)
(*                                                                         *)
(* The pipes between front ends and builder are FIFO per front end and     *)
(* fair-queued, so what the builder can receive is any merge of the front  *)
(* ends' increasing trigger sequences: Receive(n) takes the next fragment  *)
(* of any node.  A payload is never looked at and is left out.             *)
(***************************************************************************)
EXTENDS Integers, Sequences, FiniteSets, SequencesExt

CONSTANTS
    N,          \* number of nodes: m_nodes is <<1, ..., N>>
    MaxDepth,   \* m_max_event_depth (1024)
    MaxPend,    \* bound of g_ebs_depth (1000)
    TrigMod,    \* trigger numbers are masked to 28 bits: 2^28
    MaxTrig,    \* bound of the model: triggers 0 .. MaxTrig-1 are produced
    MaxSkew,    \* bound of the environment: how far a front end can run ahead
    Lossy,      \* TRUE: a front end may skip triggers
    Hangups,    \* TRUE: the consumer of the output may disconnect
    MaxErrors   \* bound of the model: sends to the consumer that throw

ASSUME NAssumption == N \in Nat \ {0}
ASSUME DepthAssumption == MaxDepth \in Nat \ {0} /\ MaxPend \in Nat \ {0}
ASSUME TrigAssumption == /\ TrigMod \in Nat \ {0}
                         /\ MaxTrig \in Nat
                         /\ MaxSkew \in Nat
ASSUME EnvAssumption == /\ Lossy \in BOOLEAN /\ Hangups \in BOOLEAN
                        /\ MaxErrors \in Nat

Node == 1 .. N
Fragment == [id : Node, trig : 0 .. MaxTrig - 1]

VARIABLES
    next,        \* next[n]: the trigger front end n produces next
    received,    \* history: every fragment the builder took from its pipe
    m_events,    \* the events being built, oldest entry first
    pc,          \* where the builder thread is
    i, j,        \* the indices of the send loop and of the erase loop
    stale,       \* what a slot past the end of m_events still holds
    g_ebs_depth, \* the builder's count of output buffers not released yet
    counting,    \* send_data has sent a message and has not counted it yet
    peers,       \* consumers connected to ebserver (the model has 0 or 1)
    held,        \* output buffers ZMQ holds
    errors,      \* history: how many sends have thrown
    sent,        \* history: the events handed to send_data, in order
    out          \* history: those of them that ZMQ took for the consumer

thread == <<pc, i, j, stale>>
queue == <<g_ebs_depth, counting, held, errors, sent, out>>
vars == <<next, received, m_events, thread, queue, peers>>

\* `trig = head[1] & 0x0fffffff'.
Num_nomask(f) == f.trig
Num(f) == f.trig % TrigMod

\* `node.size() >= m_nodes.size()': fragments are counted, ids are not looked at.
IsFull_short(frags) == Cardinality(frags) >= N - 1
IsFull(frags) == Cardinality(frags) >= N

\* The fragment belongs to entry k.
Match(f, k) == m_events[k].event_number = Num(f)

\* An entry as the `is_new' branch makes it.
NewEntry(f) == [event_number |-> Num(f), frags |-> {f}]

\* `m_nodes.size() == 1': the event is sent at once and never buffered.
Alone == N = 1

\* `m_events.size() > m_max_event_depth', after the push_back.
Overflow_late(events) == Len(events) > MaxDepth + 1
Overflow(events) == Len(events) > MaxDepth

\* `g_ebs_depth < 1000': the event is queued for the consumer, not dropped.
HasRoom_late == g_ebs_depth <= MaxPend
HasRoom == g_ebs_depth < MaxPend

\* The test of the send loop: entry j is not younger than the complete entry i.
ToSend_strict == m_events[j].event_number < m_events[i].event_number
ToSend == m_events[j].event_number <= m_events[i].event_number

\* m_events[i].event_number as the erase loop reads it.  When slot i has been
\* vacated the vector's memory is still there and holds what the last element
\* left behind when it moved down.
Limit == IF i <= Len(m_events) THEN m_events[i].event_number ELSE stale

\* The test of the erase loop.
ToErase_strict == m_events[j].event_number < Limit
ToErase == m_events[j].event_number <= Limit

--------------------------------------------------------------------------------
Init ==
    /\ next = [n \in Node |-> 0]
    /\ received = {}
    /\ m_events = << >>
    /\ pc = "recv" /\ i = 0 /\ j = 0 /\ stale = 0
    /\ g_ebs_depth = 0 /\ counting = FALSE
    /\ held = 0 /\ errors = 0
    /\ peers = 0
    /\ sent = << >> /\ out = << >>

\* The message goes to the consumer; PUSH blocks while nobody is connected.
\* The thread still has to count it, and ZMQ may release it before that.
Queue(ev) ==
    /\ HasRoom /\ peers > 0
    /\ out' = Append(out, ev)
    /\ held' = held + 1
    /\ counting' = TRUE
    /\ UNCHANGED <<g_ebs_depth, errors>>

\* The send throws.  The message, which is not counted yet, is destroyed and
\* ebs_buf_free counts it down all the same.
SendError ==
    /\ HasRoom /\ errors < MaxErrors
    /\ errors' = errors + 1
    /\ g_ebs_depth' = g_ebs_depth - 1
    /\ UNCHANGED <<counting, held, out>>

\* Above the limit the event is dropped without a word.
Drop == ~ HasRoom /\ UNCHANGED <<g_ebs_depth, counting, held, errors, out>>

\* send_data, up to `g_ebs_depth++'; no caller looks at what it returns.
SendData(ev) ==
    /\ sent' = Append(sent, ev)
    /\ Queue(ev) \/ SendError \/ Drop

\* The fragment belongs to entry k.  If that completes the entry the two loops
\* over m_events[0..i] follow, otherwise the thread returns to recv.
AddFragment(f, k) ==
    /\ Match(f, k)
    /\ LET frags == m_events[k].frags \cup {f} IN
        /\ m_events' = [m_events EXCEPT ![k].frags = frags]
        /\ IF IsFull(frags)
             THEN /\ pc' = "send" /\ i' = k /\ j' = 1
                  /\ stale' = m_events[Len(m_events)].event_number
             ELSE UNCHANGED thread
    /\ UNCHANGED queue

\* No entry has that number: open one.  With a single node the event is sent at
\* once and never buffered.
OpenEvent(f) ==
    /\ \A k \in DOMAIN m_events : ~ Match(f, k)
    /\ IF Alone
         THEN /\ SendData(NewEntry(f))
              /\ UNCHANGED <<m_events, thread>>
         ELSE /\ m_events' = Append(m_events, NewEntry(f))
              /\ pc' = IF Overflow(m_events') THEN "flush" ELSE "recv"
              /\ UNCHANGED <<i, j, stale, queue>>

\* The triggers front end n may deliver next: a board numbers its packets in
\* increasing order and may miss some, and no board is far ahead of another.
\* This is the environment of the builder while the boards are connected.  What
\* an avant pushes when its board has closed (empty fragments under the header
\* read last) is left out here; BoardLink shows it.
Deliverable(n) ==
    {t \in next[n] .. MaxTrig - 1 :
        /\ Lossy \/ t = next[n]
        /\ \A m \in Node : t <= next[m] + MaxSkew}

Receive(n) ==
    /\ pc = "recv" /\ ~ counting
    /\ \E t \in Deliverable(n) :
        LET f == [id |-> n, trig |-> t] IN
        /\ next' = [next EXCEPT ![n] = t + 1]
        /\ received' = received \cup {f}
        /\ \/ \E k \in DOMAIN m_events : AddFragment(f, k)
           \/ OpenEvent(f)
    /\ UNCHANGED peers

\* More than m_max_event_depth entries: the first one is sent and erased.
FlushHead ==
    /\ pc = "flush" /\ ~ counting
    /\ SendData(m_events[1])
    /\ m_events' = Tail(m_events)
    /\ pc' = "recv"
    /\ UNCHANGED <<next, received, i, j, stale, peers>>

\* One iteration of `for (j = 0 ; j <= i ; j++)': send the entries up to the
\* complete one that are not younger.
SendLoop ==
    /\ pc = "send" /\ ~ counting
    /\ IF ToSend
         THEN SendData(m_events[j])
         ELSE UNCHANGED queue
    /\ IF j < i THEN j' = j + 1 /\ pc' = "send"
                ELSE j' = i /\ pc' = "erase"
    /\ UNCHANGED <<next, received, m_events, i, stale, peers>>

\* One iteration of `for (j = i ; j >= 0 ; j--)', which compares with whatever
\* is in slot i at that moment.
EraseLoop ==
    /\ pc = "erase" /\ ~ counting
    /\ m_events' = IF ToErase THEN RemoveAt(m_events, j) ELSE m_events
    /\ IF j > 1 THEN j' = j - 1 /\ UNCHANGED <<pc, i, stale>>
                ELSE pc' = "recv" /\ i' = 0 /\ j' = 0 /\ stale' = 0
    /\ UNCHANGED <<next, received, queue, peers>>

\* `g_ebs_depth++', behind a send that has succeeded.
Count_missed ==
    /\ counting
    /\ counting' = FALSE
    /\ UNCHANGED <<next, received, m_events, thread, g_ebs_depth, held, errors,
                   sent, out, peers>>
Count ==
    /\ counting
    /\ counting' = FALSE
    /\ g_ebs_depth' = g_ebs_depth + 1
    /\ UNCHANGED <<next, received, m_events, thread, held, errors, sent, out, peers>>

\* ebs_buf_free: ZMQ's I/O thread releases an output buffer, because it was
\* transmitted or because the connection it was queued for went away.
BufFree ==
    /\ held > 0
    /\ held' = held - 1
    /\ g_ebs_depth' = g_ebs_depth - 1
    /\ UNCHANGED <<next, received, m_events, thread, counting, errors, sent, out, peers>>

Connect ==
    /\ peers = 0
    /\ peers' = 1
    /\ UNCHANGED <<next, received, m_events, thread, queue>>

Disconnect ==
    /\ Hangups /\ peers = 1
    /\ peers' = 0
    /\ UNCHANGED <<next, received, m_events, thread, queue>>

Builder == FlushHead \/ SendLoop \/ EraseLoop \/ Count
Next == \/ \E n \in Node : Receive(n)
        \/ Builder
        \/ BufFree \/ Connect \/ Disconnect

Spec == Init /\ [][Next]_vars

\* The builder thread runs, a front end that has data delivers it, ZMQ releases
\* what it transmitted, and a consumer does connect.
Fairness == /\ \A n \in Node : WF_vars(Receive(n))
            /\ WF_vars(Builder)
            /\ WF_vars(BufFree)
            /\ WF_vars(Connect)
FairSpec == Spec /\ Fairness
--------------------------------------------------------------------------------
\* All fragments in a sequence of events.
FragsOf(events) == UNION {events[k].frags : k \in DOMAIN events}

Event == [event_number : 0 .. TrigMod - 1, frags : SUBSET Fragment]

\* Type invariant.  It also says where the loop indices point: both loops
\* address existing elements, except that slot i may lie past the end.
TypeOK ==
    /\ next \in [Node -> 0 .. MaxTrig]
    /\ received \in SUBSET Fragment
    /\ m_events \in Seq(Event)
    /\ sent \in Seq(Event)
    /\ pc \in {"recv", "flush", "send", "erase"}
    /\ i \in Nat /\ j \in Nat /\ stale \in 0 .. TrigMod - 1
    /\ pc = "flush" => m_events # << >>
    /\ pc = "send" => j \in 1 .. i /\ i <= Len(m_events)
    /\ pc = "erase" => j \in 1 .. i /\ j <= Len(m_events)
    /\ g_ebs_depth \in -(MaxErrors + 1) .. MaxPend /\ counting \in BOOLEAN
    /\ held \in Nat /\ errors \in 0 .. MaxErrors
    /\ peers \in 0 .. 1
    /\ out \in Seq(Event)

\* The buffer never holds more than m_max_event_depth events, except for the
\* moment between the push_back and the flush of the head that follows it
\* (dteb.cxx:335-342): no path through the receive loop grows it otherwise.
BufferBound == Len(m_events) <= IF pc = "flush" THEN MaxDepth + 1 ELSE MaxDepth

\* An entry collects the fragments of its own trigger number, and a number has
\* at most one entry: the search of dteb.cxx:289-290 and the `is_new' branch
\* never split the fragments of a number over two buffered entries, whatever
\* the loops erased in between.
EntriesKeyed ==
    /\ \A a, b \in DOMAIN m_events :
          m_events[a].event_number = m_events[b].event_number => a = b
    /\ \A a \in DOMAIN m_events : \A f \in m_events[a].frags :
          Num(f) = m_events[a].event_number

\* Nothing the builder received is lost before it was handed to send_data: in
\* every state of the two loops each fragment is in the buffer or has been
\* sent.  In particular the erase loop, whose limit changes under its feet
\* (dteb.cxx:313), never erases an entry that the send loop skipped.
Conservation == received = FragsOf(m_events) \cup FragsOf(sent)

\* Complete events leave the builder in trigger order, each trigger at most
\* once, for every merge of the front ends' streams and every pattern of
\* skipped triggers, as long as the trigger number does not wrap.
CompleteInOrder ==
    \A a, b \in DOMAIN sent :
        a < b /\ IsFull(sent[a].frags) /\ IsFull(sent[b].frags)
            => sent[a].event_number < sent[b].event_number

\* An event that was counted complete is complete: counting fragments
\* (dteb.cxx:296) finds one fragment of each node and all of one trigger, not
\* two fragments of one node.
WholeEvents ==
    \A k \in DOMAIN sent : IsFull(sent[k].frags) =>
        \E t \in 0 .. MaxTrig - 1 : sent[k].frags = [id : Node, trig : {t}]

\* g_ebs_depth follows the buffers ZMQ holds, one too low while a message that
\* was sent is not counted yet (dteb.cxx:678-679) and one too low for ever after
\* each send that has thrown (680-683).  So the limit of 669 does bound what
\* waits for the consumer, but every such send raises it by one.
QueueBound ==
    /\ g_ebs_depth = held - errors - (IF counting THEN 1 ELSE 0)
    /\ held <= MaxPend + errors

\* When the front ends skip nothing and stay within the depth of the buffer,
\* the consumer is given the stream of complete events, in order, also across
\* the wrap of the 28-bit trigger number and whatever ZMQ and the consumer do,
\* but for gaps: an event is left out only when the queue is at its limit
\* (dteb.cxx:669) or its send throws.  And no trigger waits for ever.
Stream == INSTANCE TriggerStream WITH due <- Len(sent)
StreamSpec == Stream!Spec

\* The comment of dteb.cxx:311 on the second loop, `delete the buffers of what
\* was sent': back at the receive no buffered fragment has already been sent.
SentIsErased ==
    pc = "recv" => FragsOf(m_events) \cap FragsOf(sent) = {}
================================================================================
