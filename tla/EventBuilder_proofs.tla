-------------------------- MODULE EventBuilder_proofs --------------------------
(***************************************************************************)
(* Proofs about EventBuilder, for every number of nodes, every depth and   *)
(* every pattern of lost triggers and disconnecting consumers.             *)
(*                                                                         *)
(* Typing, Keying and Bounded need nothing but the assumptions on the      *)
(* constants.  NothingLost, Ordered and Whole also assume that the trigger *)
(* number does not wrap (NoWrap), and follow from the invariant IInv.  Its *)
(* heart is Inversions: an entry can stand before an entry with a smaller  *)
(* number only if some front end has skipped the smaller one, so that the  *)
(* smaller one never completes.  This is why the send loop, which tests    *)
(* every entry before the complete one, always sends all of them, and why  *)
(* the erase loop, which compares with a slot that changes under its feet, *)
(* cannot erase an entry that was not sent.                                *)
(*                                                                         *)
(* StreamInOrder is the refinement of TriggerStream, step by step, for     *)
(* front ends that skip nothing; it allows the number to wrap, the queue   *)
(* to the consumer to be full, and sends to throw.                         *)
(***************************************************************************)
EXTENDS EventBuilder, FiniteSetTheorems, SequenceTheorems, TLAPS

\* Erasing one element of a sequence keeps the order of the others.
LEMMA RemoveAtProperties ==
    ASSUME NEW S, NEW s \in Seq(S), NEW k \in 1 .. Len(s)
    PROVE  /\ RemoveAt(s, k) \in Seq(S)
           /\ Len(RemoveAt(s, k)) = Len(s) - 1
           /\ \A m \in 1 .. Len(s) - 1 :
                RemoveAt(s, k)[m] = IF m < k THEN s[m] ELSE s[m + 1]
<1>1. SubSeq(s, 1, k - 1) \in Seq(S) /\ Len(SubSeq(s, 1, k - 1)) = k - 1
  OBVIOUS
<1>2. SubSeq(s, k + 1, Len(s)) \in Seq(S) /\ Len(SubSeq(s, k + 1, Len(s))) = Len(s) - k
  OBVIOUS
<1>3. \A m \in 1 .. k - 1 : SubSeq(s, 1, k - 1)[m] = s[m]
  OBVIOUS
<1>4. \A m \in 1 .. Len(s) - k : SubSeq(s, k + 1, Len(s))[m] = s[m + k]
  OBVIOUS
<1> DEFINE a == SubSeq(s, 1, k - 1)
           b == SubSeq(s, k + 1, Len(s))
<1> HIDE DEF a, b
<1>5. /\ a \o b \in Seq(S)
      /\ Len(a \o b) = Len(s) - 1
      /\ \A m \in 1 .. Len(s) - 1 :
           (a \o b)[m] = IF m < k THEN s[m] ELSE s[m + 1]
  <2>1. a \in Seq(S) /\ b \in Seq(S) /\ Len(a) = k - 1 /\ Len(b) = Len(s) - k
    BY <1>1, <1>2 DEF a, b
  <2>2. a \o b \in Seq(S) /\ Len(a \o b) = Len(s) - 1
    BY <2>1
  <2>3. ASSUME NEW m \in 1 .. Len(s) - 1
        PROVE (a \o b)[m] = IF m < k THEN s[m] ELSE s[m + 1]
    <3>1. CASE m < k
      BY <2>1, <1>3, <3>1 DEF a
    <3>2. CASE ~ (m < k)
      <4>1. (a \o b)[m] = b[m - (k - 1)]
        BY <2>1, <3>2
      <4>2. m - (k - 1) \in 1 .. Len(s) - k /\ (m - (k - 1)) + k = m + 1
        BY <3>2
      <4>3. b[m - (k - 1)] = s[m + 1]
        BY <1>4, <4>2 DEF b
      <4> QED
        BY <4>1, <4>3, <3>2
    <3> QED
      BY <3>1, <3>2
  <2> QED
    BY <2>2, <2>3
<1> QED
  BY <1>5 DEF RemoveAt, a, b

\* A masked trigger number is below TrigMod.
LEMMA NumType == \A f \in Fragment : Num(f) \in 0 .. TrigMod - 1
BY TrigAssumption DEF TrigAssumption, Num, Fragment, Node

\* The part of the types that is about the output, with what its counter counts.
QueueTyped ==
    /\ g_ebs_depth \in -(MaxErrors + 1) .. MaxPend /\ counting \in BOOLEAN
    /\ held \in Nat /\ errors \in 0 .. MaxErrors
    /\ sent \in Seq(Event) /\ out \in Seq(Event)
    /\ QueueBound

\* The bounds of the counter follow from what it counts.
LEMMA DepthRange ==
    ASSUME NEW h \in Nat, NEW e \in 0 .. MaxErrors, h <= MaxPend + e, NEW c \in 0 .. 1
    PROVE  h - e - c \in -(MaxErrors + 1) .. MaxPend
<1>1. MaxErrors \in Nat /\ MaxPend \in Nat
  BY EnvAssumption, DepthAssumption DEF EnvAssumption, DepthAssumption
<1> QED
  BY <1>1

\* send_data appends one event and keeps count of what ZMQ holds.
LEMMA SendDataType ==
    ASSUME TypeOK, QueueBound, ~ counting, NEW ev \in Event, SendData(ev)
    PROVE  QueueTyped'
<1>1. /\ sent \in Seq(Event) /\ out \in Seq(Event) /\ sent' = Append(sent, ev)
      /\ counting \in BOOLEAN
  BY DEF SendData, TypeOK
<1>2. /\ held \in Nat /\ errors \in 0 .. MaxErrors
      /\ MaxPend \in Nat /\ MaxErrors \in Nat
  BY DepthAssumption, EnvAssumption DEF TypeOK, DepthAssumption, EnvAssumption
<1>3. sent' \in Seq(Event)
  BY <1>1
<1>4. g_ebs_depth = held - errors /\ held <= MaxPend + errors
  BY <1>2 DEF QueueBound
<1> SUFFICES /\ out' \in Seq(Event)
             /\ held' \in Nat /\ errors' \in 0 .. MaxErrors /\ counting' \in BOOLEAN
             /\ QueueBound'
  <2> HIDE DEF Event
  <2> SUFFICES ASSUME held' \in Nat, errors' \in 0 .. MaxErrors, QueueBound'
               PROVE  g_ebs_depth' \in -(MaxErrors + 1) .. MaxPend
    BY <1>3 DEF QueueTyped
  <2>1. PICK c \in 0 .. 1 : g_ebs_depth' = held' - errors' - c
    BY DEF QueueBound
  <2>2. held' <= MaxPend + errors'
    BY DEF QueueBound
  <2> QED
    BY <2>1, <2>2, DepthRange
<1>5. CASE Queue(ev)
  <2>1. /\ g_ebs_depth < MaxPend /\ g_ebs_depth' = g_ebs_depth /\ errors' = errors
        /\ held' = held + 1 /\ counting' = TRUE /\ out' = Append(out, ev)
    BY <1>5 DEF Queue, HasRoom
  <2>2. out' \in Seq(Event)
    BY <1>1, <2>1
  <2>3. QueueBound'
    BY <1>2, <1>4, <2>1 DEF QueueBound
  <2> QED
    BY <1>2, <1>3, <2>1, <2>2, <2>3
<1>6. CASE SendError
  <2>1. /\ errors < MaxErrors /\ errors' = errors + 1 /\ g_ebs_depth' = g_ebs_depth - 1
        /\ UNCHANGED <<counting, held, out>>
    BY <1>6 DEF SendError
  <2>2. QueueBound'
    BY <1>2, <1>4, <2>1 DEF QueueBound
  <2> QED
    BY <1>1, <1>2, <1>3, <2>1, <2>2
<1>7. CASE Drop
  BY <1>1, <1>2, <1>3, <1>7 DEF Drop, QueueBound
<1> QED
  BY <1>5, <1>6, <1>7 DEF SendData

\* The initial state is well typed.
LEMMA TypingInit == Init => TypeOK
<1> SUFFICES ASSUME Init PROVE TypeOK
  OBVIOUS
<1> USE NAssumption, DepthAssumption, TrigAssumption
    DEF NAssumption, DepthAssumption, TrigAssumption
<1>1. next \in [Node -> 0 .. MaxTrig]
  BY DEF Init
<1>2. m_events \in Seq(Event) /\ sent \in Seq(Event) /\ out \in Seq(Event)
  BY DEF Init
<1>3. g_ebs_depth \in -(MaxErrors + 1) .. MaxPend /\ errors \in 0 .. MaxErrors
  <2>1. MaxErrors \in Nat /\ MaxPend \in Nat /\ g_ebs_depth = 0 /\ errors = 0
    BY EnvAssumption, DepthAssumption DEF EnvAssumption, DepthAssumption, Init
  <2> QED
    BY <2>1
<1>4. stale \in 0 .. TrigMod - 1 /\ counting \in BOOLEAN
  <2>1. stale \in 0 .. TrigMod - 1
    BY DEF Init
  <2>2. counting = FALSE
    BY DEF Init
  <2>3. counting \in BOOLEAN
    BY <2>2, Zenon
  <2> QED
    BY <2>1, <2>3
<1> QED
  BY <1>1, <1>2, <1>3, <1>4 DEF Init, TypeOK

\* At first nothing is held and nothing counted.
LEMMA QueueInit == Init => QueueBound
<1> SUFFICES ASSUME Init PROVE QueueBound
  OBVIOUS
<1>1. MaxPend \in Nat
  BY DepthAssumption DEF DepthAssumption
<1>2. g_ebs_depth = 0 /\ held = 0 /\ errors = 0 /\ counting = FALSE
  BY DEF Init
<1>3. (IF counting THEN 1 ELSE 0) = 0
  BY <1>2, Zenon
<1>4. held - errors - 0 = 0 /\ held <= MaxPend + errors
  BY <1>1, <1>2
<1>5. g_ebs_depth = held - errors - (IF counting THEN 1 ELSE 0)
  BY <1>2, <1>3, <1>4, Zenon
<1> QED
  BY <1>4, <1>5 DEF QueueBound

\* What is typed stays so in a step that leaves the queue alone.
LEMMA QueueKept ==
    ASSUME TypeOK, QueueBound, UNCHANGED queue
    PROVE  QueueTyped'
<1> HIDE DEF Event
<1> QED
  BY DEF TypeOK, QueueBound, QueueTyped, queue

\* The types, given those of the queue.
LEMMA TypedRest ==
    ASSUME QueueTyped',
           next' \in [Node -> 0 .. MaxTrig], received' \in SUBSET Fragment,
           m_events' \in Seq(Event), peers' \in 0 .. 1,
           pc' \in {"recv", "flush", "send", "erase"},
           i' \in Nat, j' \in Nat, stale' \in 0 .. TrigMod - 1,
           pc' = "flush" => m_events' # << >>,
           pc' = "send" => j' \in 1 .. i' /\ i' <= Len(m_events'),
           pc' = "erase" => j' \in 1 .. i' /\ j' <= Len(m_events')
    PROVE  TypeOK' /\ QueueBound'
<1> HIDE DEF Event, Fragment
<1> QED
  BY DEF TypeOK, QueueTyped

\* Every step keeps the types, and the counter of the output what it counts.
LEMMA TypedStep == TypeOK /\ QueueBound /\ [Next]_vars => TypeOK' /\ QueueBound'
<1> USE NAssumption, DepthAssumption, TrigAssumption, EnvAssumption
    DEF NAssumption, DepthAssumption, TrigAssumption, EnvAssumption
<1> SUFFICES ASSUME TypeOK, QueueBound, [Next]_vars PROVE TypeOK' /\ QueueBound'
  OBVIOUS
<1>1. ASSUME NEW n \in Node, Receive(n) PROVE TypeOK' /\ QueueBound'
  <2>1. PICK t \in Deliverable(n) :
           LET f == [id |-> n, trig |-> t] IN
           /\ next' = [next EXCEPT ![n] = t + 1]
           /\ received' = received \cup {f}
           /\ \/ \E k \in DOMAIN m_events : AddFragment(f, k)
              \/ OpenEvent(f)
    BY <1>1 DEF Receive
  <2> DEFINE f == [id |-> n, trig |-> t]
  <2>2. t \in 0 .. MaxTrig - 1 /\ f \in Fragment
    BY DEF Deliverable, TypeOK, Fragment
  <2>3. next' \in [Node -> 0 .. MaxTrig] /\ received' \in SUBSET Fragment
    BY <2>1, <2>2 DEF TypeOK
  <2>4. pc = "recv" /\ ~ counting /\ UNCHANGED peers
    BY <1>1 DEF Receive
  <2> HIDE DEF f
  <2>5. ASSUME NEW k \in DOMAIN m_events, AddFragment(f, k) PROVE TypeOK' /\ QueueBound'
    <3> DEFINE e == [m_events[k] EXCEPT !.frags = @ \cup {f}]
    <3>1. k \in 1 .. Len(m_events) /\ m_events[k] \in Event
      BY DEF TypeOK
    <3>2. e \in Event
      BY <3>1, <2>2 DEF Event
    <3>3. m_events' = [m_events EXCEPT ![k] = e]
      BY <2>5 DEF AddFragment
    <3>4. m_events' \in Seq(Event) /\ Len(m_events') = Len(m_events)
      BY <3>1, <3>2, <3>3 DEF TypeOK
    <3>5. m_events[Len(m_events)].event_number \in 0 .. TrigMod - 1
      <4>1. m_events[Len(m_events)] \in Event
        BY <3>1 DEF TypeOK
      <4> QED
        BY <4>1 DEF Event
    <3>6. QueueTyped'
      BY <2>5, QueueKept DEF AddFragment
    <3>7. CASE UNCHANGED thread
      BY <3>4, <3>6, <3>7, <2>3, <2>4, TypedRest DEF TypeOK, thread
    <3>8. CASE /\ pc' = "send" /\ i' = k /\ j' = 1
               /\ stale' = m_events[Len(m_events)].event_number
      <4>1. peers' \in 0 .. 1 /\ Len(m_events) \in Nat
        BY <2>4 DEF TypeOK
      <4>2. j' \in 1 .. i' /\ i' <= Len(m_events')
        BY <3>1, <3>4, <3>8, <4>1
      <4>3. i' \in Nat /\ j' \in Nat
        BY <3>1, <3>8, <4>1
      <4> HIDE DEF Event, Fragment
      <4> QED
        BY <3>4, <3>5, <3>6, <3>8, <4>1, <4>2, <4>3, <2>3, TypedRest
    <3> QED
      BY <3>7, <3>8, <2>5 DEF AddFragment
  <2>6. ASSUME OpenEvent(f) PROVE TypeOK' /\ QueueBound'
    <3>1. NewEntry(f) \in Event
      BY <2>2, NumType DEF NewEntry, Event
    <3> HIDE DEF Event
    <3>2. CASE Alone
      <4>1. QueueTyped'
        BY <2>4, <2>6, <3>1, <3>2, SendDataType DEF OpenEvent
      <4>2. UNCHANGED <<m_events, thread>>
        BY <2>6, <3>2 DEF OpenEvent
      <4> QED
        BY <4>1, <4>2, <2>3, <2>4, TypedRest DEF TypeOK, thread
    <3>3. CASE ~ Alone
      <4>1. m_events' \in Seq(Event) /\ Len(m_events') = Len(m_events) + 1
        <5>1. m_events' = Append(m_events, NewEntry(f))
          BY <2>6, <3>3 DEF OpenEvent
        <5>2. m_events \in Seq(Event)
          BY DEF TypeOK
        <5> QED
          BY <3>1, <5>1, <5>2
      <4>2. UNCHANGED <<i, j, stale, queue>> /\ pc' \in {"flush", "recv"}
        BY <2>6, <3>3 DEF OpenEvent
      <4>3. QueueTyped'
        BY <4>2, QueueKept
      <4>4. m_events' # << >>
        <5>1. Len(m_events) \in Nat
          BY DEF TypeOK
        <5> QED
          BY <4>1, <5>1
      <4>5. i \in Nat /\ j \in Nat /\ stale \in 0 .. TrigMod - 1 /\ peers \in 0 .. 1
        BY DEF TypeOK
      <4> QED
        BY <4>1, <4>2, <4>3, <4>4, <4>5, <2>3, <2>4, TypedRest
    <3> QED
      BY <3>2, <3>3
  <2> QED
    BY <2>1, <2>5, <2>6 DEF f
<1>2. CASE FlushHead
  <2>1. m_events[1] \in Event /\ Tail(m_events) \in Seq(Event)
    BY <1>2 DEF FlushHead, TypeOK
  <2>2. QueueTyped'
    BY <1>2, <2>1, SendDataType DEF FlushHead
  <2> QED
    BY <1>2, <2>1, <2>2, TypedRest DEF FlushHead, TypeOK
<1>3. CASE SendLoop
  <2>1. i \in 1 .. Len(m_events) /\ j \in 1 .. i /\ m_events[j] \in Event
    BY <1>3 DEF SendLoop, TypeOK
  <2>2. QueueTyped'
    <3>1. CASE ToSend
      BY <1>3, <2>1, <3>1, SendDataType DEF SendLoop
    <3>2. CASE ~ ToSend
      BY <1>3, <3>2, QueueKept DEF SendLoop
    <3> QED
      BY <3>1, <3>2
  <2> QED
    BY <1>3, <2>1, <2>2, TypedRest DEF SendLoop, TypeOK
<1>4. CASE EraseLoop
  <2>1. j \in 1 .. Len(m_events) /\ m_events \in Seq(Event)
    BY <1>4 DEF EraseLoop, TypeOK
  <2>2. RemoveAt(m_events, j) \in Seq(Event) /\ Len(RemoveAt(m_events, j)) = Len(m_events) - 1
    BY <2>1, RemoveAtProperties
  <2>3. m_events' \in Seq(Event) /\ Len(m_events') >= Len(m_events) - 1
    BY <1>4, <2>1, <2>2 DEF EraseLoop
  <2>4. UNCHANGED <<next, received, queue, peers>>
    BY <1>4 DEF EraseLoop
  <2>5. QueueTyped'
    BY <2>4, QueueKept
  <2>6. \/ j > 1 /\ j' = j - 1 /\ UNCHANGED <<pc, i, stale>>
        \/ pc' = "recv" /\ i' = 0 /\ j' = 0 /\ stale' = 0
    BY <1>4 DEF EraseLoop
  <2>7. pc = "erase"
    BY <1>4 DEF EraseLoop
  <2> QED
    <3>1. /\ next' \in [Node -> 0 .. MaxTrig] /\ received' \in SUBSET Fragment
          /\ peers' \in 0 .. 1
      BY <2>4 DEF TypeOK
    <3>2. /\ i \in Nat /\ j \in 1 .. i /\ j <= Len(m_events) /\ Len(m_events) \in Nat
          /\ stale \in 0 .. TrigMod - 1
      BY <2>1, <2>7 DEF TypeOK
    <3>3. /\ pc' \in {"recv", "erase"} /\ i' \in Nat /\ j' \in Nat
          /\ stale' \in 0 .. TrigMod - 1
          /\ pc' = "erase" => j' \in 1 .. i' /\ j' <= Len(m_events')
      <4>1. CASE j > 1 /\ j' = j - 1 /\ UNCHANGED <<pc, i, stale>>
        <5>1. Len(m_events') \in Nat
          BY <2>3
        <5> QED
          BY <2>3, <2>7, <3>2, <4>1, <5>1
      <4>2. CASE pc' = "recv" /\ i' = 0 /\ j' = 0 /\ stale' = 0
        BY <3>2, <4>2
      <4> QED
        BY <2>6, <4>1, <4>2
    <3> HIDE DEF Event, Fragment
    <3> QED
      BY <2>3, <2>5, <3>1, <3>3, TypedRest
<1>5. CASE Count \/ BufFree
  <2>1. UNCHANGED <<next, received, m_events, thread, peers>>
    BY <1>5 DEF Count, BufFree
  <2>2. QueueTyped'
    <3>1. /\ held \in Nat /\ errors \in 0 .. MaxErrors
          /\ sent \in Seq(Event) /\ out \in Seq(Event) /\ counting \in BOOLEAN
          /\ UNCHANGED <<errors, sent, out>>
      BY <1>5 DEF TypeOK, Count, BufFree
    <3>2. held' \in Nat /\ counting' \in BOOLEAN
      <4>1. CASE Count
        BY <3>1, <4>1 DEF Count
      <4>2. CASE BufFree
        BY <3>1, <4>2 DEF BufFree
      <4> QED
        BY <1>5, <4>1, <4>2
    <3>3. QueueBound'
      <4>1. PICK c \in 0 .. 1 : c = IF counting THEN 1 ELSE 0
        OBVIOUS
      <4>2. g_ebs_depth = held - errors - c /\ held <= MaxPend + errors
        BY <4>1 DEF QueueBound
      <4>3. CASE Count
        BY <3>1, <4>1, <4>2, <4>3 DEF Count, QueueBound
      <4>4. CASE BufFree
        <5>1. g_ebs_depth' = held' - errors' - c /\ held' <= MaxPend + errors'
          BY <3>1, <4>2, <4>4 DEF BufFree
        <5>2. counting' = counting
          BY <4>4 DEF BufFree
        <5> QED
          BY <4>1, <5>1, <5>2 DEF QueueBound
      <4> QED
        BY <1>5, <4>3, <4>4
    <3>4. g_ebs_depth' \in -(MaxErrors + 1) .. MaxPend
      <4>1. PICK c \in 0 .. 1 : g_ebs_depth' = held' - errors' - c
        BY <3>3 DEF QueueBound
      <4>2. held' <= MaxPend + errors' /\ errors' \in 0 .. MaxErrors
        BY <3>1, <3>3 DEF QueueBound
      <4> QED
        BY <3>2, <4>1, <4>2, DepthRange
    <3> QED
      BY <3>1, <3>2, <3>3, <3>4 DEF QueueTyped
  <2> QED
    BY <2>1, <2>2, TypedRest DEF TypeOK, thread
<1>6. CASE Connect \/ Disconnect \/ UNCHANGED vars
  <2>1. UNCHANGED <<next, received, m_events, thread, queue>> /\ peers' \in 0 .. 1
    BY <1>6 DEF Connect, Disconnect, vars, TypeOK
  <2>2. QueueTyped'
    BY <2>1, QueueKept
  <2> QED
    BY <2>1, <2>2, TypedRest DEF TypeOK, thread
<1> QED
  BY <1>1, <1>2, <1>3, <1>4, <1>5, <1>6 DEF Next, Builder

\* Types and count hold together.
LEMMA Typed == Spec => [](TypeOK /\ QueueBound)
<1>1. TypeOK /\ QueueBound /\ [Next]_vars => TypeOK' /\ QueueBound'
  BY TypedStep
<1> QED
  BY <1>1, TypingInit, QueueInit, PTL DEF Spec

\* The types, and with them that the loops of dteb.cxx:305-317 only address
\* existing entries and that g_ebs_depth stays within its limit.
THEOREM Typing == Spec => []TypeOK
BY Typed, PTL

\* g_ebs_depth is what ZMQ holds, less one for every send that has thrown
\* (dteb.cxx:678-683) and, for a moment, the message just sent; so ZMQ never
\* holds more messages than the limit of line 669 and those sends allow.
THEOREM QueueCounted == Spec => []QueueBound
BY Typed, PTL

--------------------------------------------------------------------------------
(***************************************************************************)
(* The inductive invariant.  Everything up to the part on the stream       *)
(* assumes that the trigger number does not wrap.                          *)
(***************************************************************************)
NoWrap == MaxTrig <= TrigMod

\* Every fragment that was received lies behind the front end's counter, and
\* it is in the buffer or has been sent; what was sent carries its own number.
History ==
    /\ \A f \in received : f.trig < next[f.id]
    /\ Conservation
    /\ \A k \in DOMAIN m_events : m_events[k].frags # {}
    /\ \A k \in DOMAIN sent : \A f \in sent[k].frags :
          Num(f) = sent[k].event_number

\* When an entry stands before one with a smaller number, a front end that
\* contributed to the first has not contributed to the second, and never will.
Inversions ==
    \A a, b \in DOMAIN m_events :
        a < b /\ m_events[a].event_number > m_events[b].event_number
            => \E f \in m_events[a].frags :
                  \A g \in m_events[b].frags : g.id # f.id

\* Only the entry the loops work on can be complete, and it is complete until
\* the erase loop has removed it.
Working == pc = "send" \/ (pc = "erase" /\ j = i)
OneComplete ==
    /\ \A k \in DOMAIN m_events : IsFull(m_events[k].frags) => Working /\ k = i
    /\ Working => i \in DOMAIN m_events /\ IsFull(m_events[i].frags)

\* What the loops have passed, or will still erase, has been sent.
LoopSent ==
    /\ pc = "send" => \A k \in 1 .. j - 1 : m_events[k].frags \subseteq FragsOf(sent)
    /\ pc = "erase" => \A k \in 1 .. j : m_events[k].frags \subseteq FragsOf(sent)

\* The complete event being sent is younger than every complete event before.
Younger ==
    pc = "send" => \A k \in DOMAIN sent :
        IsFull(sent[k].frags) => sent[k].event_number < m_events[i].event_number

IInv == /\ TypeOK
        /\ EntriesKeyed
        /\ History
        /\ Inversions
        /\ OneComplete
        /\ LoopSent
        /\ Younger
        /\ CompleteInOrder

--------------------------------------------------------------------------------
\* What the steps do to m_events, index by index.

\* A fragment is added to entry k; nothing else moves (dteb.cxx:292-294).
LEMMA AddEffect ==
    ASSUME TypeOK, NEW f \in Fragment, NEW k \in DOMAIN m_events, AddFragment(f, k)
    PROVE  /\ k \in 1 .. Len(m_events)
           /\ m_events' \in Seq(Event)
           /\ Len(m_events') = Len(m_events)
           /\ Num(f) = m_events[k].event_number
           /\ \A a \in 1 .. Len(m_events) :
                m_events'[a].event_number = m_events[a].event_number
           /\ \A a \in 1 .. Len(m_events) : a # k =>
                m_events'[a].frags = m_events[a].frags
           /\ m_events'[k].frags = m_events[k].frags \cup {f}
<1> DEFINE e == [m_events[k] EXCEPT !.frags = @ \cup {f}]
<1>1. k \in 1 .. Len(m_events) /\ m_events[k] \in Event
  BY DEF TypeOK
<1>2. /\ e \in Event
      /\ e.event_number = m_events[k].event_number
      /\ e.frags = m_events[k].frags \cup {f}
  BY <1>1 DEF Event
<1>3. m_events' = [m_events EXCEPT ![k] = e]
  BY DEF AddFragment
<1> HIDE DEF e
<1>4. m_events' \in Seq(Event) /\ Len(m_events') = Len(m_events)
  BY <1>1, <1>2, <1>3 DEF TypeOK
<1>5. \A a \in 1 .. Len(m_events) : m_events'[a] = IF a = k THEN e ELSE m_events[a]
  BY <1>1, <1>3 DEF TypeOK
<1>6. Num(f) = m_events[k].event_number
  BY DEF AddFragment, Match
<1> QED
  BY <1>1, <1>2, <1>4, <1>5, <1>6

\* A new entry is put behind the others (dteb.cxx:335).
LEMMA PushEffect ==
    ASSUME TypeOK, NEW f \in Fragment, OpenEvent(f), ~ Alone
    PROVE  /\ m_events' \in Seq(Event)
           /\ Len(m_events') = Len(m_events) + 1
           /\ \A a \in 1 .. Len(m_events) : m_events'[a] = m_events[a]
           /\ m_events'[Len(m_events) + 1].event_number = Num(f)
           /\ m_events'[Len(m_events) + 1].frags = {f}
           /\ \A a \in 1 .. Len(m_events) : m_events[a].event_number # Num(f)
<1>1. NewEntry(f) \in Event /\ NewEntry(f).event_number = Num(f) /\ NewEntry(f).frags = {f}
  BY NumType DEF NewEntry, Event
<1>2. m_events' = Append(m_events, NewEntry(f))
  BY DEF OpenEvent
<1>3. /\ m_events' \in Seq(Event)
      /\ Len(m_events') = Len(m_events) + 1
      /\ \A a \in 1 .. Len(m_events) : m_events'[a] = m_events[a]
      /\ m_events'[Len(m_events) + 1] = NewEntry(f)
  BY <1>1, <1>2 DEF TypeOK
<1>4. \A a \in 1 .. Len(m_events) : m_events[a].event_number # Num(f)
  BY DEF OpenEvent, Match, TypeOK
<1> QED
  BY <1>1, <1>3, <1>4

\* Removing entry d shifts the entries behind it down by one.
Removed(d) ==
    /\ m_events' \in Seq(Event)
    /\ Len(m_events') = Len(m_events) - 1
    /\ \A a \in 1 .. Len(m_events) - 1 :
         m_events'[a] = IF a < d THEN m_events[a] ELSE m_events[a + 1]

\* The flush removes the first entry (dteb.cxx:341).
LEMMA FlushEffect ==
    ASSUME TypeOK, FlushHead
    PROVE  1 \in 1 .. Len(m_events) /\ Removed(1)
BY DEF TypeOK, FlushHead, Removed

\* One iteration of the erase loop removes entry j or nothing.
LEMMA EraseEffect ==
    ASSUME TypeOK, EraseLoop
    PROVE  /\ j \in 1 .. Len(m_events)
           /\ \/ Removed(j) /\ ToErase
              \/ m_events' = m_events /\ ~ ToErase
<1>1. j \in 1 .. Len(m_events) /\ m_events \in Seq(Event)
  BY DEF EraseLoop, TypeOK
<1>2. /\ RemoveAt(m_events, j) \in Seq(Event)
      /\ Len(RemoveAt(m_events, j)) = Len(m_events) - 1
      /\ \A m \in 1 .. Len(m_events) - 1 :
           RemoveAt(m_events, j)[m] = IF m < j THEN m_events[m] ELSE m_events[m + 1]
  BY <1>1, RemoveAtProperties
<1>3. m_events' = IF ToErase THEN RemoveAt(m_events, j) ELSE m_events
  BY DEF EraseLoop
<1> QED
  BY <1>1, <1>2, <1>3 DEF Removed

\* Removing an entry keeps the trigger numbers of the others distinct.
LEMMA RemovedKeyed ==
    ASSUME TypeOK, EntriesKeyed, NEW d \in 1 .. Len(m_events), Removed(d)
    PROVE  EntriesKeyed'
<1>1. DOMAIN m_events = 1 .. Len(m_events) /\ DOMAIN m_events' = 1 .. Len(m_events) - 1
  BY DEF TypeOK, Removed
<1>2. ASSUME NEW a \in 1 .. Len(m_events) - 1, NEW b \in 1 .. Len(m_events) - 1,
             m_events'[a].event_number = m_events'[b].event_number
      PROVE  a = b
  <2> DEFINE up(x) == IF x < d THEN x ELSE x + 1
  <2>1. Len(m_events) \in Nat
    BY DEF TypeOK
  <2>2. up(a) \in 1 .. Len(m_events) /\ up(b) \in 1 .. Len(m_events)
    BY <2>1
  <2>3. m_events'[a] = m_events[up(a)] /\ m_events'[b] = m_events[up(b)]
    BY DEF Removed
  <2>4. up(a) = up(b)
    BY <1>1, <1>2, <2>2, <2>3 DEF EntriesKeyed
  <2> QED
    BY <2>1, <2>4
<1>3. ASSUME NEW a \in 1 .. Len(m_events) - 1
      PROVE  \A f \in m_events'[a].frags : Num(f) = m_events'[a].event_number
  <2>1. Len(m_events) \in Nat
    BY DEF TypeOK
  <2>2. PICK x \in 1 .. Len(m_events) : m_events'[a] = m_events[x]
    BY <2>1 DEF Removed
  <2> QED
    BY <1>1, <2>2 DEF EntriesKeyed
<1> QED
  BY <1>1, <1>2, <1>3 DEF EntriesKeyed

\* The receive step in the form the other proofs use.
LEMMA ReceiveCases ==
    ASSUME TypeOK, NEW n \in Node, Receive(n)
    PROVE  \E t \in next[n] .. MaxTrig - 1 : \E f \in Fragment :
             /\ f.id = n /\ f.trig = t
             /\ next' = [next EXCEPT ![n] = t + 1]
             /\ received' = received \cup {f}
             /\ pc = "recv"
             /\ (\E k \in DOMAIN m_events : AddFragment(f, k)) \/ OpenEvent(f)
<1>1. PICK t \in Deliverable(n) :
         LET f == [id |-> n, trig |-> t] IN
         /\ next' = [next EXCEPT ![n] = t + 1]
         /\ received' = received \cup {f}
         /\ \/ \E k \in DOMAIN m_events : AddFragment(f, k)
            \/ OpenEvent(f)
  BY DEF Receive
<1> DEFINE f == [id |-> n, trig |-> t]
<1>2. t \in next[n] .. MaxTrig - 1
  BY DEF Deliverable
<1>3. next[n] \in Nat
  BY DEF TypeOK
<1>4. f \in Fragment /\ f.id = n /\ f.trig = t
  BY <1>2, <1>3, TrigAssumption DEF Fragment, TrigAssumption
<1>5. pc = "recv"
  BY DEF Receive
<1> QED
  BY <1>1, <1>2, <1>4, <1>5

\* No step opens a second entry for a number or mixes two numbers in one.
LEMMA KeyedStep == TypeOK /\ TypeOK' /\ EntriesKeyed /\ [Next]_vars => EntriesKeyed'
<1> SUFFICES ASSUME TypeOK, TypeOK', EntriesKeyed, [Next]_vars PROVE EntriesKeyed'
  OBVIOUS
<1>1. /\ DOMAIN m_events = 1 .. Len(m_events) /\ Len(m_events) \in Nat
      /\ DOMAIN m_events' = 1 .. Len(m_events')
  BY DEF TypeOK
<1>2. ASSUME NEW n \in Node, Receive(n) PROVE EntriesKeyed'
  <2>1. PICK t \in next[n] .. MaxTrig - 1 : \E f \in Fragment :
             /\ f.id = n /\ f.trig = t
             /\ next' = [next EXCEPT ![n] = t + 1]
             /\ received' = received \cup {f}
             /\ pc = "recv"
             /\ (\E k \in DOMAIN m_events : AddFragment(f, k)) \/ OpenEvent(f)
    BY <1>2, ReceiveCases
  <2>2. PICK f \in Fragment :
             (\E k \in DOMAIN m_events : AddFragment(f, k)) \/ OpenEvent(f)
    BY <2>1
  <2>3. ASSUME NEW k \in DOMAIN m_events, AddFragment(f, k) PROVE EntriesKeyed'
    <3>1. /\ k \in 1 .. Len(m_events)
          /\ Len(m_events') = Len(m_events)
          /\ Num(f) = m_events[k].event_number
          /\ \A a \in 1 .. Len(m_events) :
               m_events'[a].event_number = m_events[a].event_number
          /\ \A a \in 1 .. Len(m_events) : a # k =>
               m_events'[a].frags = m_events[a].frags
          /\ m_events'[k].frags = m_events[k].frags \cup {f}
      BY <2>3, AddEffect
    <3>2. ASSUME NEW a \in 1 .. Len(m_events), NEW b \in 1 .. Len(m_events),
                 m_events'[a].event_number = m_events'[b].event_number
          PROVE  a = b
      BY <1>1, <3>1, <3>2 DEF EntriesKeyed
    <3>3. ASSUME NEW a \in 1 .. Len(m_events), NEW g \in m_events'[a].frags
          PROVE  Num(g) = m_events'[a].event_number
      BY <1>1, <3>1 DEF EntriesKeyed
    <3> HIDE DEF Num
    <3> QED
      BY <1>1, <3>1, <3>2, <3>3 DEF EntriesKeyed
  <2>4. CASE OpenEvent(f) /\ Alone
    BY <2>4 DEF OpenEvent, EntriesKeyed
  <2>5. CASE OpenEvent(f) /\ ~ Alone
    <3>1. /\ Len(m_events') = Len(m_events) + 1
          /\ \A a \in 1 .. Len(m_events) : m_events'[a] = m_events[a]
          /\ m_events'[Len(m_events) + 1].event_number = Num(f)
          /\ m_events'[Len(m_events) + 1].frags = {f}
          /\ \A a \in 1 .. Len(m_events) : m_events[a].event_number # Num(f)
      BY <2>5, PushEffect
    <3>2. ASSUME NEW a \in 1 .. Len(m_events'), NEW b \in 1 .. Len(m_events'),
                 m_events'[a].event_number = m_events'[b].event_number
          PROVE  a = b
      BY <1>1, <3>1, <3>2 DEF EntriesKeyed
    <3>3. ASSUME NEW a \in 1 .. Len(m_events'), NEW g \in m_events'[a].frags
          PROVE  Num(g) = m_events'[a].event_number
      BY <1>1, <3>1 DEF EntriesKeyed
    <3> QED
      BY <1>1, <3>2, <3>3 DEF EntriesKeyed
  <2> QED
    BY <2>2, <2>3, <2>4, <2>5
<1>3. CASE FlushHead
  BY <1>3, FlushEffect, RemovedKeyed
<1>4. CASE EraseLoop
  <2>1. CASE m_events' = m_events
    BY <2>1 DEF EntriesKeyed
  <2> QED
    BY <1>4, <2>1, EraseEffect, RemovedKeyed
<1>5. CASE SendLoop \/ Count \/ BufFree \/ Connect \/ Disconnect \/ UNCHANGED vars
  BY <1>5 DEF SendLoop, Count, BufFree, Connect, Disconnect, vars, EntriesKeyed
<1> QED
  BY <1>2, <1>3, <1>4, <1>5 DEF Next, Builder

\* A trigger number never has two entries, and an entry never has fragments
\* of two numbers, whatever the loops erased in between (dteb.cxx:289-335).
THEOREM Keying == Spec => []EntriesKeyed
<1>1. Init => EntriesKeyed
  BY DEF Init, EntriesKeyed
<1>2. EntriesKeyed /\ TypeOK /\ TypeOK' /\ [Next]_vars => EntriesKeyed'
  BY KeyedStep
<1> QED
  BY <1>1, <1>2, Typing, PTL DEF Spec

\* Every push_back beyond the depth is followed by the flush of the head.
LEMMA BoundStep == TypeOK /\ BufferBound /\ [Next]_vars => BufferBound'
<1> SUFFICES ASSUME TypeOK, BufferBound, [Next]_vars PROVE BufferBound'
  OBVIOUS
<1>1. Len(m_events) \in Nat /\ MaxDepth \in Nat
  BY DepthAssumption DEF DepthAssumption, TypeOK
<1>2. ASSUME NEW n \in Node, Receive(n) PROVE BufferBound'
  <2>1. PICK f \in Fragment :
             /\ pc = "recv"
             /\ (\E k \in DOMAIN m_events : AddFragment(f, k)) \/ OpenEvent(f)
    BY <1>2, ReceiveCases
  <2>2. ASSUME NEW k \in DOMAIN m_events, AddFragment(f, k) PROVE BufferBound'
    <3>1. Len(m_events') = Len(m_events)
      BY <2>2, AddEffect
    <3> QED
      BY <1>1, <2>1, <3>1 DEF BufferBound
  <2>3. CASE OpenEvent(f) /\ Alone
    BY <1>1, <2>1, <2>3 DEF OpenEvent, BufferBound, thread
  <2>4. CASE OpenEvent(f) /\ ~ Alone
    <3>1. Len(m_events') = Len(m_events) + 1
      BY <2>4, PushEffect
    <3>2. pc' = IF Len(m_events') > MaxDepth THEN "flush" ELSE "recv"
      BY <2>4 DEF OpenEvent, Overflow
    <3> QED
      BY <1>1, <2>1, <3>1, <3>2 DEF BufferBound
  <2> QED
    BY <2>1, <2>2, <2>3, <2>4
<1>3. CASE FlushHead
  <2>1. Len(m_events') = Len(m_events) - 1
    BY <1>3, FlushEffect DEF Removed
  <2> QED
    BY <1>1, <1>3, <2>1 DEF FlushHead, BufferBound
<1>4. CASE EraseLoop
  <2>1. Len(m_events') <= Len(m_events)
    BY <1>1, <1>4, EraseEffect DEF Removed
  <2>2. pc = "erase" /\ pc' # "flush"
    BY <1>4 DEF EraseLoop
  <2>3. Len(m_events') \in Nat
    BY <1>1, <1>4, EraseEffect DEF Removed
  <2> QED
    BY <1>1, <2>1, <2>2, <2>3 DEF BufferBound
<1>5. CASE SendLoop \/ Count \/ BufFree \/ Connect \/ Disconnect \/ UNCHANGED vars
  BY <1>1, <1>5 DEF SendLoop, Count, BufFree, Connect, Disconnect, vars, thread, BufferBound
<1> QED
  BY <1>2, <1>3, <1>4, <1>5 DEF Next, Builder

\* m_events never exceeds m_max_event_depth once the flush of
\* dteb.cxx:339-342 has followed the push_back.
THEOREM Bounded == Spec => []BufferBound
<1>1. Init => BufferBound
  BY DepthAssumption DEF DepthAssumption, Init, BufferBound
<1>2. BufferBound /\ TypeOK /\ [Next]_vars => BufferBound'
  BY BoundStep
<1> QED
  BY <1>1, <1>2, Typing, PTL DEF Spec

--------------------------------------------------------------------------------
\* Without a wrap the masked number is the trigger itself.
LEMMA PlainNum == NoWrap => \A f \in Fragment : Num(f) = f.trig
<1> SUFFICES ASSUME NoWrap, NEW f \in Fragment PROVE Num(f) = f.trig
  OBVIOUS
<1>1. f.trig \in Int /\ 0 <= f.trig /\ f.trig < TrigMod
  BY TrigAssumption DEF TrigAssumption, NoWrap, Fragment
<1> QED
  BY <1>1, TrigAssumption DEF TrigAssumption, Num

\* There are N fragments of one trigger, one of each node.
LEMMA OnePerNode ==
    ASSUME NEW t, NEW frags \in SUBSET [id : Node, trig : {t}]
    PROVE  IsFull(frags) <=> frags = [id : Node, trig : {t}]
<1> DEFINE G == [id : Node, trig : {t}]
           h == [n \in Node |-> [id |-> n, trig |-> t]]
<1>1. IsFiniteSet(Node) /\ Cardinality(Node) = N
  BY FS_Interval, NAssumption DEF NAssumption, Node
<1>2. h \in Bijection(Node, G)
  <2>1. h \in [Node -> G]
    OBVIOUS
  <2>2. \A g \in G : \E n \in Node : h[n] = g
    OBVIOUS
  <2>3. \A m, n \in Node : h[m] = h[n] => m = n
    OBVIOUS
  <2> HIDE DEF G, h
  <2> QED
    BY <2>1, <2>2, <2>3 DEF Bijection, Injection, Surjection, IsInjective
<1> HIDE DEF h
<1>3. IsFiniteSet(G) /\ Cardinality(G) = N
  <2> HIDE DEF G
  <2> QED
    BY <1>1, <1>2, FS_Bijection DEF ExistsBijection
<1>4. frags \subseteq G
  OBVIOUS
<1> HIDE DEF G
<1>5. Cardinality(frags) \in Nat /\ Cardinality(frags) <= N
      /\ (Cardinality(frags) = N => frags = G)
  BY <1>3, <1>4, FS_CardinalityType, FS_Subset
<1>6. IsFull(frags) <=> frags = G
  BY <1>3, <1>5, NAssumption DEF NAssumption, IsFull
<1> QED
  BY <1>6 DEF G

\* Counting is enough (dteb.cxx:296): N fragments of one trigger are one fragment per node.
LEMMA FullNodes ==
    ASSUME NoWrap, NEW frags \in SUBSET Fragment, NEW v,
           \A f \in frags : Num(f) = v, IsFull(frags)
    PROVE  frags = [id : Node, trig : {v}]
<1>1. frags \in SUBSET [id : Node, trig : {v}]
  BY PlainNum DEF Fragment
<1> QED
  BY <1>1, OnePerNode

\* Appending an event adds its fragments.
LEMMA FragsOfAppend ==
    ASSUME NEW s \in Seq(Event), NEW e \in Event
    PROVE  FragsOf(Append(s, e)) = FragsOf(s) \cup e.frags
<1>1. /\ DOMAIN s = 1 .. Len(s) /\ Len(s) \in Nat
      /\ DOMAIN Append(s, e) = 1 .. Len(s) + 1
      /\ \A a \in 1 .. Len(s) : Append(s, e)[a] = s[a]
      /\ Append(s, e)[Len(s) + 1] = e
  OBVIOUS
<1> QED
  BY <1>1 DEF FragsOf

\* Removing an entry removes at most its own fragments.
LEMMA RemovedFrags ==
    ASSUME TypeOK, NEW d \in 1 .. Len(m_events), Removed(d)
    PROVE  FragsOf(m_events) = FragsOf(m_events') \cup m_events[d].frags
<1>1. /\ DOMAIN m_events = 1 .. Len(m_events) /\ Len(m_events) \in Nat
      /\ DOMAIN m_events' = 1 .. Len(m_events) - 1
  BY DEF TypeOK, Removed
<1>2. \A a \in 1 .. Len(m_events) - 1 : \E x \in 1 .. Len(m_events) :
         m_events'[a] = m_events[x]
  BY <1>1 DEF Removed
<1>3. \A x \in 1 .. Len(m_events) : x = d \/ \E a \in 1 .. Len(m_events) - 1 :
         m_events'[a] = m_events[x]
  <2> TAKE x \in 1 .. Len(m_events)
  <2>1. CASE x < d
    BY <1>1, <2>1 DEF Removed
  <2>2. CASE x > d
    <3>1. x - 1 \in 1 .. Len(m_events) - 1 /\ ~ (x - 1 < d) /\ (x - 1) + 1 = x
      BY <1>1, <2>2
    <3> QED
      BY <3>1 DEF Removed
  <2> QED
    BY <1>1, <2>1, <2>2
<1> QED
  BY <1>1, <1>2, <1>3 DEF FragsOf

\* Removing an entry creates no inversion.
LEMMA RemovedInversions ==
    ASSUME TypeOK, Inversions, NEW d \in 1 .. Len(m_events), Removed(d)
    PROVE  Inversions'
<1>1. /\ DOMAIN m_events = 1 .. Len(m_events) /\ Len(m_events) \in Nat
      /\ DOMAIN m_events' = 1 .. Len(m_events) - 1
  BY DEF TypeOK, Removed
<1> SUFFICES ASSUME NEW a \in 1 .. Len(m_events) - 1, NEW b \in 1 .. Len(m_events) - 1,
                    a < b, m_events'[a].event_number > m_events'[b].event_number
             PROVE  \E f \in m_events'[a].frags : \A g \in m_events'[b].frags : g.id # f.id
  BY <1>1 DEF Inversions
<1> DEFINE up(x) == IF x < d THEN x ELSE x + 1
<1>2. up(a) \in 1 .. Len(m_events) /\ up(b) \in 1 .. Len(m_events) /\ up(a) < up(b)
  BY <1>1
<1>3. m_events'[a] = m_events[up(a)] /\ m_events'[b] = m_events[up(b)]
  BY DEF Removed
<1> HIDE DEF up
<1> QED
  BY <1>1, <1>2, <1>3 DEF Inversions

\* A complete event that was sent lies behind every front end's counter.
LEMMA SentBehind ==
    ASSUME NoWrap, TypeOK, History, NEW s \in DOMAIN sent, IsFull(sent[s].frags),
           NEW n \in Node
    PROVE  sent[s].event_number < next[n]
<1>1. sent[s] \in Event
  BY DEF TypeOK
<1>2. sent[s].frags \in SUBSET Fragment
  BY <1>1 DEF Event
<1> DEFINE v == sent[s].event_number
           g == [id |-> n, trig |-> v]
<1>3. sent[s].frags = [id : Node, trig : {v}]
  BY <1>2, FullNodes DEF History
<1>4. g \in sent[s].frags
  BY <1>3
<1>5. g \in received
  BY <1>4 DEF History, Conservation, FragsOf
<1> QED
  BY <1>5 DEF History

\* The invariant is kept when a fragment joins an entry ...
LEMMA IInvAdd ==
    ASSUME NoWrap, IInv, TypeOK', EntriesKeyed',
           NEW n \in Node, NEW t \in next[n] .. MaxTrig - 1, NEW f \in Fragment,
           f.id = n, f.trig = t, next' = [next EXCEPT ![n] = t + 1],
           received' = received \cup {f}, pc = "recv",
           NEW k \in DOMAIN m_events, AddFragment(f, k)
    PROVE  IInv'
<1>1. TypeOK
  BY DEF IInv
<1>2. /\ DOMAIN m_events = 1 .. Len(m_events) /\ Len(m_events) \in Nat
      /\ DOMAIN m_events' = 1 .. Len(m_events)
      /\ k \in 1 .. Len(m_events)
      /\ Num(f) = m_events[k].event_number
      /\ \A a \in 1 .. Len(m_events) :
           m_events'[a].event_number = m_events[a].event_number
      /\ \A a \in 1 .. Len(m_events) : a # k =>
           m_events'[a].frags = m_events[a].frags
      /\ m_events'[k].frags = m_events[k].frags \cup {f}
  <2>1. m_events \in Seq(Event) /\ m_events' \in Seq(Event) /\ Len(m_events') = Len(m_events)
    BY <1>1, AddEffect DEF TypeOK
  <2>2. /\ DOMAIN m_events = 1 .. Len(m_events) /\ Len(m_events) \in Nat
        /\ DOMAIN m_events' = 1 .. Len(m_events)
    BY <2>1
  <2> QED
    BY <1>1, <2>2, AddEffect
<1>3. sent' = sent
  BY DEF AddFragment, queue
<1>4. \A m \in Node : next[m] \in Nat
  BY DEF IInv, TypeOK
<1>5. \A g \in Fragment : g.id \in Node /\ g.trig \in Nat
  BY TrigAssumption DEF TrigAssumption, Fragment
<1>6. received \in SUBSET Fragment
  BY DEF IInv, TypeOK
<1>7. \A m \in Node : next'[m] = IF m = n THEN t + 1 ELSE next[m]
  BY DEF IInv, TypeOK
<1>8. History'
  <2>1. \A g \in received' : g.trig < next'[g.id]
    BY <1>4, <1>5, <1>6, <1>7 DEF IInv, History
  <2>2. FragsOf(m_events') = FragsOf(m_events) \cup {f}
    <3>1. \A g : g \in FragsOf(m_events) <=> \E a \in 1 .. Len(m_events) : g \in m_events[a].frags
      BY <1>2 DEF FragsOf
    <3>2. \A g : g \in FragsOf(m_events') <=> \E a \in 1 .. Len(m_events) : g \in m_events'[a].frags
      BY <1>2 DEF FragsOf
    <3>3. \A a \in 1 .. Len(m_events) :
            m_events'[a].frags = m_events[a].frags \cup (IF a = k THEN {f} ELSE {})
      BY <1>2
    <3> QED
      BY <1>2, <3>1, <3>2, <3>3
  <2>3. Conservation'
    BY <1>3, <2>2 DEF IInv, History, Conservation
  <2>4. \A a \in DOMAIN m_events' : m_events'[a].frags # {}
    BY <1>2 DEF IInv, History
  <2> QED
    BY <1>3, <2>1, <2>3, <2>4 DEF IInv, History, Num
<1>9. Inversions'
  <2> SUFFICES ASSUME NEW a \in 1 .. Len(m_events), NEW b \in 1 .. Len(m_events),
                      a < b, m_events[a].event_number > m_events[b].event_number
               PROVE  \E x \in m_events'[a].frags : \A g \in m_events'[b].frags : g.id # x.id
    BY <1>2 DEF Inversions
  <2>1. PICK x \in m_events[a].frags : \A g \in m_events[b].frags : g.id # x.id
    BY <1>2 DEF IInv, Inversions
  <2>2. x \in m_events'[a].frags
    BY <1>2
  <2>3. x \in received
    BY <1>2 DEF IInv, History, Conservation, FragsOf
  <2>4. b = k => x.id # n
    <3> SUFFICES ASSUME b = k, x.id = n PROVE FALSE
      OBVIOUS
    <3>1. x.trig = m_events[a].event_number
      BY <1>2, <1>6, <2>3, PlainNum DEF IInv, EntriesKeyed
    <3>2. m_events[b].event_number = t
      BY <1>2, PlainNum
    <3>3. x.trig < next[n]
      BY <2>3 DEF IInv, History
    <3> QED
      BY <1>4, <1>5, <1>6, <2>3, <3>1, <3>2, <3>3
  <2> QED
    BY <1>2, <2>1, <2>2, <2>4
<1>10. \A a \in 1 .. Len(m_events) : ~ IsFull(m_events[a].frags)
  BY <1>2 DEF IInv, OneComplete, Working
<1>11. CASE ~ IsFull(m_events'[k].frags)
  <2>1. UNCHANGED thread
    <3>1. m_events[k].frags \cup {f} = m_events'[k].frags
      BY <1>2
    <3> QED
      BY <1>11, <3>1 DEF AddFragment
  <2>2. \A a \in 1 .. Len(m_events) : ~ IsFull(m_events'[a].frags)
    BY <1>2, <1>10, <1>11
  <2>3. OneComplete'
    BY <1>2, <2>1, <2>2 DEF OneComplete, Working, thread
  <2>4. LoopSent' /\ Younger'
    BY <2>1 DEF LoopSent, Younger, thread
  <2> QED
    BY <1>3, <1>8, <1>9, <2>3, <2>4 DEF IInv, CompleteInOrder, IsFull
<1>12. CASE IsFull(m_events'[k].frags)
  <2>1. pc' = "send" /\ i' = k /\ j' = 1
    <3>1. m_events[k].frags \cup {f} = m_events'[k].frags
      BY <1>2
    <3> QED
      BY <1>12, <3>1 DEF AddFragment
  <2>2. \A a \in 1 .. Len(m_events) : a # k => ~ IsFull(m_events'[a].frags)
    BY <1>2, <1>10
  <2>3. OneComplete'
    BY <1>2, <1>12, <2>1, <2>2 DEF OneComplete, Working
  <2>4. LoopSent'
    BY <2>1 DEF LoopSent
  <2>5. Younger'
    <3> SUFFICES ASSUME NEW s \in DOMAIN sent, IsFull(sent[s].frags)
                 PROVE  sent[s].event_number < m_events[k].event_number
      BY <1>2, <1>3, <2>1 DEF Younger, IsFull
    <3>1. sent[s].event_number < next[n]
      BY SentBehind DEF IInv
    <3>2. m_events[k].event_number = t
      BY <1>2, PlainNum
    <3>3. sent[s].event_number \in Nat
      <4>1. sent[s] \in Event
        <5>1. sent \in Seq(Event) /\ s \in DOMAIN sent
          BY DEF IInv, TypeOK
        <5> HIDE DEF Event
        <5> QED
          BY <5>1
      <4> QED
        BY <4>1, TrigAssumption DEF TrigAssumption, Event
    <3> QED
      BY <1>4, <3>1, <3>2, <3>3
  <2> QED
    BY <1>3, <1>8, <1>9, <2>3, <2>4, <2>5 DEF IInv, CompleteInOrder, IsFull
<1> QED
  BY <1>11, <1>12

\* ... when it opens one, or is sent alone with a single node ...
LEMMA IInvOpen ==
    ASSUME NoWrap, IInv, TypeOK', EntriesKeyed',
           NEW n \in Node, NEW t \in next[n] .. MaxTrig - 1, NEW f \in Fragment,
           f.id = n, f.trig = t, next' = [next EXCEPT ![n] = t + 1],
           received' = received \cup {f}, pc = "recv", OpenEvent(f)
    PROVE  IInv'
<1>1. TypeOK
  BY DEF IInv
<1>2. m_events \in Seq(Event) /\ sent \in Seq(Event)
      /\ m_events' \in Seq(Event) /\ sent' \in Seq(Event)
  BY <1>1 DEF TypeOK
<1>3. /\ DOMAIN m_events = 1 .. Len(m_events) /\ Len(m_events) \in Nat
      /\ DOMAIN m_events' = 1 .. Len(m_events')
      /\ DOMAIN sent = 1 .. Len(sent) /\ Len(sent) \in Nat
      /\ DOMAIN sent' = 1 .. Len(sent')
  BY <1>2
<1>4. \A m \in Node : next[m] \in Nat
  BY <1>1 DEF TypeOK
<1>5. \A g \in Fragment : g.id \in Node /\ g.trig \in Nat
  BY TrigAssumption DEF TrigAssumption, Fragment
<1>6. received \in SUBSET Fragment
  BY <1>1 DEF TypeOK
<1>7. \A m \in Node : next'[m] = IF m = n THEN t + 1 ELSE next[m]
  BY <1>1 DEF TypeOK
<1>8. \A g \in received' : g.trig < next'[g.id]
  BY <1>4, <1>5, <1>6, <1>7 DEF IInv, History
<1>9. Num(f) = t
  BY PlainNum
<1>10. \A a \in 1 .. Len(m_events) : ~ IsFull(m_events[a].frags)
  BY <1>3 DEF IInv, OneComplete, Working
<1>11. CASE Alone
  <2>1. UNCHANGED <<m_events, thread>> /\ sent' = Append(sent, NewEntry(f))
    BY <1>11 DEF OpenEvent, SendData
  <2>2. NewEntry(f) \in Event /\ NewEntry(f).event_number = t /\ NewEntry(f).frags = {f}
    BY <1>9, NumType DEF NewEntry, Event
  <2>3. /\ Len(sent') = Len(sent) + 1
        /\ \A a \in 1 .. Len(sent) : sent'[a] = sent[a]
        /\ sent'[Len(sent) + 1] = NewEntry(f)
    BY <1>2, <2>1, <2>2
  <2>4. FragsOf(sent') = FragsOf(sent) \cup {f}
    BY <1>2, <2>1, <2>2, FragsOfAppend
  <2>5. Conservation'
    BY <2>1, <2>4 DEF IInv, History, Conservation, FragsOf
  <2>6. History'
    <3>1. ASSUME NEW a \in DOMAIN sent', NEW g \in sent'[a].frags
          PROVE  Num(g) = sent'[a].event_number
      BY <1>3, <1>9, <2>2, <2>3 DEF IInv, History
    <3> QED
      BY <1>8, <2>1, <2>5, <3>1 DEF IInv, History
  <2>7. OneComplete' /\ LoopSent' /\ Younger' /\ Inversions'
    BY <1>10, <2>1 DEF IInv, OneComplete, Working, LoopSent, Younger, Inversions, thread
  <2>8. CompleteInOrder'
    <3> SUFFICES ASSUME NEW a \in 1 .. Len(sent'), NEW b \in 1 .. Len(sent'), a < b,
                        IsFull(sent'[a].frags), IsFull(sent'[b].frags)
                 PROVE  sent'[a].event_number < sent'[b].event_number
      BY <1>3 DEF CompleteInOrder, IsFull
    <3>1. CASE b <= Len(sent)
      <4>1. a \in 1 .. Len(sent) /\ b \in 1 .. Len(sent)
        BY <1>3, <2>3, <3>1
      <4>2. sent'[a] = sent[a] /\ sent'[b] = sent[b]
        BY <2>3, <4>1
      <4> QED
        BY <1>3, <4>1, <4>2 DEF IInv, CompleteInOrder
    <3>2. CASE b = Len(sent) + 1
      <4>1. a \in DOMAIN sent /\ IsFull(sent[a].frags) /\ sent'[a] = sent[a]
        BY <1>3, <2>3, <3>2
      <4>2. sent[a].event_number < next[n]
        BY <4>1, SentBehind DEF IInv
      <4>3. sent[a].event_number \in Nat
        <5>1. sent[a] \in Event
          BY <1>2, <4>1
        <5> QED
          BY <5>1, TrigAssumption DEF TrigAssumption, Event
      <4> QED
        BY <1>4, <2>2, <2>3, <3>2, <4>1, <4>2, <4>3
    <3> QED
      BY <1>3, <2>3, <3>1, <3>2
  <2> QED
    BY <2>6, <2>7, <2>8 DEF IInv
<1>12. CASE ~ Alone
  <2>1. /\ Len(m_events') = Len(m_events) + 1
        /\ \A a \in 1 .. Len(m_events) : m_events'[a] = m_events[a]
        /\ m_events'[Len(m_events) + 1].event_number = t
        /\ m_events'[Len(m_events) + 1].frags = {f}
    BY <1>1, <1>9, <1>12, PushEffect
  <2>2. \A a \in 1 .. Len(m_events') : a \in 1 .. Len(m_events) \/ a = Len(m_events) + 1
    BY <1>3, <2>1
  <2>3. sent' = sent /\ UNCHANGED <<i, j, stale>> /\ pc' \in {"recv", "flush"}
    BY <1>12 DEF OpenEvent, queue
  <2>4. FragsOf(m_events') = FragsOf(m_events) \cup {f}
    <3>1. m_events' = Append(m_events, NewEntry(f))
      BY <1>12 DEF OpenEvent
    <3>2. NewEntry(f) \in Event /\ NewEntry(f).frags = {f}
      BY NumType DEF NewEntry, Event
    <3> QED
      BY <1>2, <3>1, <3>2, FragsOfAppend
  <2>5. Conservation'
    BY <2>3, <2>4 DEF IInv, History, Conservation
  <2>6. \A a \in DOMAIN m_events' : m_events'[a].frags # {}
    <3>1. \A a \in 1 .. Len(m_events) : m_events[a].frags # {}
      BY <1>3 DEF IInv, History
    <3> QED
      BY <1>3, <2>2, <2>1, <3>1
  <2>7. History'
    BY <1>8, <2>3, <2>5, <2>6 DEF IInv, History
  <2>8. Inversions'
    <3> SUFFICES ASSUME NEW a \in 1 .. Len(m_events'), NEW b \in 1 .. Len(m_events'),
                        a < b, m_events'[a].event_number > m_events'[b].event_number
                 PROVE  \E x \in m_events'[a].frags :
                           \A g \in m_events'[b].frags : g.id # x.id
      BY <1>3 DEF Inversions
    <3>1. CASE b \in 1 .. Len(m_events)
      <4>1. a \in 1 .. Len(m_events)
        BY <1>3, <2>2, <3>1
      <4>2. m_events'[a] = m_events[a] /\ m_events'[b] = m_events[b]
        BY <2>1, <3>1, <4>1
      <4>3. m_events[a].event_number > m_events[b].event_number
        BY <4>2
      <4>4. \E x \in m_events[a].frags : \A g \in m_events[b].frags : g.id # x.id
        <5>1. Inversions /\ a \in DOMAIN m_events /\ b \in DOMAIN m_events /\ a < b
          BY <1>3, <3>1, <4>1 DEF IInv
        <5> QED
          BY <4>3, <5>1 DEF Inversions
      <4> QED
        BY <4>2, <4>4
    <3>2. CASE b = Len(m_events) + 1
      <4>1. a \in 1 .. Len(m_events) /\ m_events'[a] = m_events[a]
        BY <1>3, <2>1, <3>2
      <4>2. PICK x \in m_events[a].frags : TRUE
        BY <1>3, <4>1 DEF IInv, History
      <4>3. x \in received
        BY <1>3, <4>1 DEF IInv, History, Conservation, FragsOf
      <4>4. x.trig = m_events[a].event_number
        BY <1>3, <1>6, <4>1, <4>3, PlainNum DEF IInv, EntriesKeyed
      <4>5. x.trig < next[x.id]
        BY <4>3 DEF IInv, History
      <4>6. x.id # n
        BY <1>4, <1>5, <1>6, <2>1, <3>2, <4>1, <4>3, <4>4, <4>5
      <4> QED
        BY <2>1, <3>2, <4>1, <4>6
    <3> QED
      BY <2>2, <3>1, <3>2
  <2>9. ~ IsFull({f})
    <3>1. Cardinality({f}) = 1
      BY FS_Singleton
    <3> QED
      BY <1>12, <3>1, NAssumption DEF NAssumption, IsFull, Alone
  <2>10. OneComplete'
    <3>1. ~ Working'
      BY <2>3 DEF Working
    <3>2. \A a \in DOMAIN m_events' : ~ IsFull(m_events'[a].frags)
      BY <1>3, <1>10, <2>2, <2>1, <2>9
    <3> QED
      BY <3>1, <3>2 DEF OneComplete, IsFull
  <2>11. LoopSent' /\ Younger'
    BY <2>3 DEF LoopSent, Younger
  <2> QED
    BY <2>3, <2>7, <2>8, <2>10, <2>11 DEF IInv, CompleteInOrder, IsFull
<1> QED
  BY <1>11, <1>12

\* ... when the head is flushed ...
LEMMA IInvFlush ==
    ASSUME NoWrap, IInv, TypeOK', EntriesKeyed', FlushHead
    PROVE  IInv'
<1>1. TypeOK
  BY DEF IInv
<1>2. 1 \in 1 .. Len(m_events) /\ Removed(1)
  BY <1>1, FlushEffect
<1>3. /\ sent' = Append(sent, m_events[1]) /\ UNCHANGED <<next, received, i, j>>
      /\ pc = "flush" /\ pc' = "recv"
  BY DEF FlushHead, SendData
<1>4. m_events \in Seq(Event) /\ sent \in Seq(Event) /\ m_events[1] \in Event
  <2>1. m_events \in Seq(Event) /\ sent \in Seq(Event)
    BY <1>1 DEF TypeOK
  <2> QED
    BY <1>2, <2>1, ElementOfSeq
<1>5. /\ DOMAIN m_events = 1 .. Len(m_events) /\ Len(m_events) \in Nat
      /\ m_events' \in Seq(Event)
      /\ DOMAIN m_events' = 1 .. Len(m_events) - 1
  BY <1>2, <1>4 DEF Removed
<1>6. /\ DOMAIN sent = 1 .. Len(sent) /\ Len(sent) \in Nat
      /\ DOMAIN sent' = 1 .. Len(sent) + 1
      /\ \A a \in 1 .. Len(sent) : sent'[a] = sent[a]
      /\ sent'[Len(sent) + 1] = m_events[1]
  BY <1>3, <1>4
<1>7. \A a \in 1 .. Len(m_events) : ~ IsFull(m_events[a].frags)
  BY <1>3, <1>5 DEF IInv, OneComplete, Working
<1>8. \A a \in 1 .. Len(m_events) - 1 : \E x \in 1 .. Len(m_events) :
         m_events'[a] = m_events[x]
  BY <1>5, <1>2 DEF Removed
<1>9. History'
  <2>1. FragsOf(m_events) = FragsOf(m_events') \cup m_events[1].frags
    BY <1>1, <1>2, RemovedFrags
  <2>2. FragsOf(sent') = FragsOf(sent) \cup m_events[1].frags
    BY <1>3, <1>4, FragsOfAppend
  <2>3. Conservation'
    BY <1>3, <2>1, <2>2 DEF IInv, History, Conservation
  <2>4. \A a \in DOMAIN m_events' : m_events'[a].frags # {}
    BY <1>5, <1>8 DEF IInv, History
  <2>5. ASSUME NEW a \in DOMAIN sent', NEW g \in sent'[a].frags
        PROVE  Num(g) = sent'[a].event_number
    BY <1>2, <1>5, <1>6 DEF IInv, History, EntriesKeyed
  <2> QED
    BY <1>3, <2>3, <2>4, <2>5 DEF IInv, History
<1>10. Inversions'
  BY <1>1, <1>2, RemovedInversions DEF IInv
<1>11. OneComplete'
  <2>1. ~ Working'
    BY <1>3 DEF Working
  <2>2. \A a \in DOMAIN m_events' : ~ IsFull(m_events'[a].frags)
    BY <1>5, <1>7, <1>8
  <2> QED
    BY <2>1, <2>2 DEF OneComplete, IsFull
<1>12. LoopSent' /\ Younger'
  BY <1>3 DEF LoopSent, Younger
<1>13. CompleteInOrder'
  <2>1. ~ IsFull(sent'[Len(sent) + 1].frags)
    BY <1>2, <1>6, <1>7
  <2>2. ASSUME NEW a \in 1 .. Len(sent) + 1, NEW b \in 1 .. Len(sent) + 1, a < b,
               IsFull(sent'[a].frags), IsFull(sent'[b].frags)
        PROVE  sent'[a].event_number < sent'[b].event_number
    <3>1. a \in 1 .. Len(sent) /\ b \in 1 .. Len(sent)
      BY <1>6, <2>1, <2>2
    <3> QED
      BY <1>6, <2>2, <3>1 DEF IInv, CompleteInOrder
  <2> QED
    BY <1>6, <2>2 DEF CompleteInOrder, IsFull
<1> QED
  BY <1>9, <1>10, <1>11, <1>12, <1>13 DEF IInv

\* ... when the send loop passes an entry, which it always sends ...
LEMMA IInvSend ==
    ASSUME NoWrap, IInv, TypeOK', EntriesKeyed', SendLoop
    PROVE  IInv'
<1>1. TypeOK
  BY DEF IInv
<1>2. /\ UNCHANGED <<next, received, m_events, i>> /\ pc = "send"
      /\ (j < i /\ j' = j + 1 /\ pc' = "send") \/ (j >= i /\ j' = i /\ pc' = "erase")
  <2>1. j \in Nat /\ i \in Nat
    BY <1>1 DEF TypeOK
  <2> QED
    BY <2>1 DEF SendLoop
<1>3. /\ m_events \in Seq(Event) /\ sent \in Seq(Event)
      /\ i \in 1 .. Len(m_events) /\ j \in 1 .. i /\ Len(m_events) \in Nat
  BY <1>1, <1>2 DEF TypeOK
<1>4. DOMAIN m_events = 1 .. Len(m_events) /\ j \in 1 .. Len(m_events)
  BY <1>3
<1>5. m_events[i] \in Event /\ m_events[j] \in Event
  BY <1>3, <1>4
<1>6. m_events[i].event_number \in Nat /\ m_events[j].event_number \in Nat
  BY <1>5, TrigAssumption DEF TrigAssumption, Event
<1>7. IsFull(m_events[i].frags)
  BY <1>2 DEF IInv, OneComplete, Working
<1>8. ToSend
  <2> SUFFICES ASSUME ~ ToSend PROVE FALSE
    OBVIOUS
  <2>1. j < i /\ m_events[j].event_number > m_events[i].event_number
    BY <1>3, <1>6 DEF ToSend
  <2>2. PICK x \in m_events[j].frags : \A g \in m_events[i].frags : g.id # x.id
    BY <1>3, <1>4, <2>1 DEF IInv, Inversions
  <2>3. m_events[i].frags \in SUBSET Fragment /\ m_events[j].frags \in SUBSET Fragment
    BY <1>5 DEF Event
  <2> DEFINE v == m_events[i].event_number
             g == [id |-> x.id, trig |-> v]
  <2>4. \A y \in m_events[i].frags : Num(y) = v
    BY <1>3, <1>4 DEF IInv, EntriesKeyed
  <2>5. m_events[i].frags = [id : Node, trig : {v}]
    BY <1>7, <2>3, <2>4, FullNodes
  <2>6. x.id \in Node
    BY <2>3 DEF Fragment
  <2>7. g \in m_events[i].frags /\ g.id = x.id
    BY <2>5, <2>6
  <2> QED
    BY <2>2, <2>7
<1>9. sent' = Append(sent, m_events[j])
  BY <1>8 DEF SendLoop, SendData
<1>10. /\ DOMAIN sent = 1 .. Len(sent) /\ Len(sent) \in Nat
       /\ DOMAIN sent' = 1 .. Len(sent) + 1
       /\ \A a \in 1 .. Len(sent) : sent'[a] = sent[a]
       /\ sent'[Len(sent) + 1] = m_events[j]
       /\ \A a \in 1 .. Len(sent) + 1 : a \in 1 .. Len(sent) \/ a = Len(sent) + 1
  BY <1>3, <1>5, <1>9
<1>11. FragsOf(sent') = FragsOf(sent) \cup m_events[j].frags
  BY <1>3, <1>5, <1>9, FragsOfAppend
<1>12. m_events[j].frags \subseteq FragsOf(m_events)
  BY <1>4 DEF FragsOf
<1>13. History'
  <2>1. Conservation'
    BY <1>2, <1>11, <1>12 DEF IInv, History, Conservation, FragsOf
  <2>2. ASSUME NEW a \in DOMAIN sent', NEW g \in sent'[a].frags
        PROVE  Num(g) = sent'[a].event_number
    <3>1. CASE a \in 1 .. Len(sent)
      BY <1>10, <3>1 DEF IInv, History
    <3>2. CASE a = Len(sent) + 1
      <4>1. sent'[a] = m_events[j]
        BY <1>10, <3>2
      <4>2. j \in DOMAIN m_events /\ g \in m_events[j].frags
        BY <1>4, <4>1
      <4>3. Num(g) = m_events[j].event_number
        BY <4>2 DEF IInv, EntriesKeyed
      <4> QED
        BY <4>1, <4>3
    <3> QED
      BY <1>10, <3>1, <3>2
  <2> QED
    BY <1>2, <2>1, <2>2 DEF IInv, History
<1>14. Inversions'
  BY <1>2 DEF IInv, Inversions
<1>15. OneComplete'
  BY <1>2, <1>3 DEF IInv, OneComplete, Working
<1>16. LoopSent'
  <2>1. \A k \in 1 .. j : m_events[k].frags \subseteq FragsOf(sent')
    <3> TAKE k \in 1 .. j
    <3>1. k \in 1 .. j - 1 \/ k = j
      BY <1>3
    <3> QED
      BY <1>2, <1>11, <3>1 DEF IInv, LoopSent
  <2>2. pc' = "send" => j' - 1 = j
    BY <1>2, <1>3
  <2>3. pc' = "erase" => j' = j
    BY <1>2, <1>3
  <2> QED
    BY <1>2, <2>1, <2>2, <2>3 DEF LoopSent
<1>17. j < i => ~ IsFull(m_events[j].frags)
  BY <1>3, <1>4 DEF IInv, OneComplete
<1>18. Younger'
  <2> SUFFICES ASSUME pc' = "send", NEW a \in 1 .. Len(sent) + 1, IsFull(sent'[a].frags)
               PROVE  sent'[a].event_number < m_events[i].event_number
    BY <1>2, <1>10 DEF Younger, IsFull
  <2>1. a \in 1 .. Len(sent)
    <3>1. j < i
      <4>1. j \in Nat /\ i \in Nat
        BY <1>3
      <4> QED
        BY <1>2, <4>1
    <3>2. a # Len(sent) + 1
      <4>1. a = Len(sent) + 1 => sent'[a] = m_events[j]
        BY <1>10
      <4> QED
        BY <1>17, <3>1, <4>1
    <3> QED
      BY <1>10, <3>2
  <2> QED
    BY <1>2, <1>10, <2>1 DEF IInv, Younger
<1>19. CompleteInOrder'
  <2> SUFFICES ASSUME NEW a \in 1 .. Len(sent) + 1, NEW b \in 1 .. Len(sent) + 1, a < b,
                      IsFull(sent'[a].frags), IsFull(sent'[b].frags)
               PROVE  sent'[a].event_number < sent'[b].event_number
    BY <1>10 DEF CompleteInOrder, IsFull
  <2>1. a \in 1 .. Len(sent) /\ sent'[a] = sent[a]
    BY <1>10
  <2>2. CASE b \in 1 .. Len(sent)
    BY <1>10, <2>1, <2>2 DEF IInv, CompleteInOrder
  <2>3. CASE b = Len(sent) + 1
    <3>1. sent'[b] = m_events[j] /\ j = i
      BY <1>3, <1>10, <1>17, <2>3
    <3> QED
      BY <1>2, <1>10, <2>1, <3>1 DEF IInv, Younger
  <2> QED
    BY <1>10, <2>2, <2>3
<1> QED
  BY <1>13, <1>14, <1>15, <1>16, <1>18, <1>19 DEF IInv

\* ... when the erase loop passes an entry, which has always been sent ...
LEMMA IInvErase ==
    ASSUME NoWrap, IInv, TypeOK', EntriesKeyed', EraseLoop
    PROVE  IInv'
<1>1. TypeOK
  BY DEF IInv
<1>2. /\ UNCHANGED <<next, received, sent>> /\ pc = "erase"
      /\ (j > 1 /\ j' = j - 1 /\ pc' = pc /\ i' = i) \/ (j <= 1 /\ pc' = "recv")
  <2>1. j \in Nat
    BY <1>1 DEF TypeOK
  <2> QED
    BY <2>1 DEF EraseLoop, queue
<1>3. /\ m_events \in Seq(Event) /\ j \in 1 .. Len(m_events) /\ Len(m_events) \in Nat
      /\ i \in Nat /\ j \in 1 .. i
  BY <1>1, <1>2 DEF TypeOK
<1>4. DOMAIN m_events = 1 .. Len(m_events)
  BY <1>3
<1>5. \/ Removed(j) /\ ToErase
      \/ m_events' = m_events /\ ~ ToErase
  BY <1>1, EraseEffect
<1>6. j = i => ToErase
  <2>1. m_events[j] \in Event
    BY <1>3
  <2>2. m_events[j].event_number \in Nat
    BY <2>1, TrigAssumption DEF TrigAssumption, Event
  <2> QED
    BY <1>3, <2>2 DEF ToErase, Limit
<1>7. m_events[j].frags \subseteq FragsOf(sent)
  BY <1>2, <1>3 DEF IInv, LoopSent
<1>8. DOMAIN m_events' = 1 .. Len(m_events')
  BY DEF TypeOK
<1>9. \A a \in DOMAIN m_events' : \E x \in DOMAIN m_events : m_events'[a] = m_events[x]
  <2>1. CASE Removed(j)
    <3> SUFFICES ASSUME NEW a \in 1 .. Len(m_events) - 1
                 PROVE  \E x \in 1 .. Len(m_events) : m_events'[a] = m_events[x]
      BY <1>4, <1>8, <2>1 DEF Removed
    <3>1. a \in 1 .. Len(m_events) /\ a + 1 \in 1 .. Len(m_events)
      BY <1>3
    <3> QED
      BY <2>1, <3>1 DEF Removed
  <2>2. CASE m_events' = m_events
    BY <2>2
  <2> QED
    BY <1>5, <2>1, <2>2
<1>10. History'
  <2>1. FragsOf(m_events) \subseteq FragsOf(m_events') \cup m_events[j].frags
        /\ FragsOf(m_events') \subseteq FragsOf(m_events)
    <3>1. CASE Removed(j)
      BY <1>1, <1>3, <3>1, RemovedFrags
    <3>2. CASE m_events' = m_events
      BY <3>2 DEF FragsOf
    <3> QED
      BY <1>5, <3>1, <3>2
  <2>2. Conservation'
    BY <1>2, <1>7, <2>1 DEF IInv, History, Conservation, FragsOf
  <2>3. \A a \in DOMAIN m_events' : m_events'[a].frags # {}
    BY <1>9 DEF IInv, History
  <2> QED
    BY <1>2, <2>2, <2>3 DEF IInv, History
<1>11. Inversions'
  <2>1. CASE Removed(j)
    BY <1>1, <1>3, <2>1, RemovedInversions DEF IInv
  <2>2. CASE m_events' = m_events
    BY <2>2 DEF IInv, Inversions
  <2> QED
    BY <1>5, <2>1, <2>2
<1>12. \A a \in DOMAIN m_events' : ~ IsFull(m_events'[a].frags)
  <2>1. CASE j = i
    <3>1. Removed(j)
      BY <1>5, <1>6, <2>1
    <3>2. \A a \in 1 .. Len(m_events) - 1 : \E x \in 1 .. Len(m_events) :
             x # i /\ m_events'[a] = m_events[x]
      <4> TAKE a \in 1 .. Len(m_events) - 1
      <4>1. CASE a < j
        BY <1>3, <2>1, <3>1, <4>1 DEF Removed
      <4>2. CASE ~ (a < j)
        <5>1. a + 1 \in 1 .. Len(m_events) /\ a + 1 # i /\ m_events'[a] = m_events[a + 1]
          BY <1>3, <2>1, <3>1, <4>2 DEF Removed
        <5> QED
          BY <5>1
      <4> QED
        BY <4>1, <4>2
    <3>3. DOMAIN m_events' = 1 .. Len(m_events) - 1
      BY <1>8, <3>1 DEF Removed
    <3> QED
      BY <1>4, <3>2, <3>3 DEF IInv, OneComplete
  <2>2. CASE j # i
    <3>1. \A x \in DOMAIN m_events : ~ IsFull(m_events[x].frags)
      BY <1>2, <2>2 DEF IInv, OneComplete, Working
    <3> QED
      BY <1>9, <3>1
  <2> QED
    BY <2>1, <2>2
<1>13. OneComplete'
  <2>1. ~ Working'
    BY <1>2, <1>3 DEF Working
  <2> QED
    BY <1>12, <2>1 DEF OneComplete, IsFull
<1>14. LoopSent'
  <2> SUFFICES ASSUME pc' = "erase", NEW k \in 1 .. j'
               PROVE  m_events'[k].frags \subseteq FragsOf(sent)
    BY <1>2 DEF LoopSent
  <2>1. k \in 1 .. j /\ k < j
    BY <1>2, <1>3
  <2>2. m_events'[k] = m_events[k]
    BY <1>3, <1>5, <2>1 DEF Removed
  <2> QED
    BY <1>2, <2>1, <2>2 DEF IInv, LoopSent
<1>15. Younger' /\ CompleteInOrder'
  BY <1>2 DEF IInv, Younger, CompleteInOrder, IsFull
<1> QED
  BY <1>10, <1>11, <1>13, <1>14, <1>15 DEF IInv

\* ... and when the consumer or ZMQ moves.
LEMMA IInvOther ==
    ASSUME IInv, TypeOK', EntriesKeyed',
           Count \/ BufFree \/ Connect \/ Disconnect \/ UNCHANGED vars
    PROVE  IInv'
<1>1. UNCHANGED <<next, received, m_events, pc, i, j, stale, sent>>
  BY DEF Count, BufFree, Connect, Disconnect, vars, thread, queue
<1>2. History' /\ Inversions'
  BY <1>1 DEF IInv, History, Inversions, Conservation, FragsOf
<1>3. OneComplete' /\ LoopSent' /\ Younger' /\ CompleteInOrder'
  BY <1>1 DEF IInv, OneComplete, Working, LoopSent, Younger, CompleteInOrder,
              FragsOf, IsFull
<1> QED
  BY <1>2, <1>3 DEF IInv

\* Every step keeps the invariant.
LEMMA IInvStep == NoWrap /\ IInv /\ TypeOK' /\ [Next]_vars => IInv'
<1> SUFFICES ASSUME NoWrap, IInv, TypeOK', [Next]_vars PROVE IInv'
  OBVIOUS
<1>1. TypeOK /\ EntriesKeyed'
  BY KeyedStep DEF IInv
<1>2. ASSUME NEW n \in Node, Receive(n) PROVE IInv'
  <2>1. PICK t \in next[n] .. MaxTrig - 1 : \E f \in Fragment :
             /\ f.id = n /\ f.trig = t
             /\ next' = [next EXCEPT ![n] = t + 1]
             /\ received' = received \cup {f}
             /\ pc = "recv"
             /\ (\E k \in DOMAIN m_events : AddFragment(f, k)) \/ OpenEvent(f)
    BY <1>1, <1>2, ReceiveCases
  <2> QED
    BY <1>1, <2>1, IInvAdd, IInvOpen
<1> QED
  BY <1>1, <1>2, IInvFlush, IInvSend, IInvErase, IInvOther DEF Next, Builder

\* The invariant holds initially.
LEMMA IInvInit == Init => IInv
<1> SUFFICES ASSUME Init, TypeOK PROVE IInv
  BY TypingInit
<1>1. m_events = << >> /\ sent = << >> /\ received = {} /\ pc = "recv"
  BY DEF Init
<1>2. DOMAIN m_events = {} /\ DOMAIN sent = {}
  BY <1>1
<1>3. EntriesKeyed /\ History /\ Inversions
  BY <1>1, <1>2 DEF EntriesKeyed, History, Inversions, Conservation, FragsOf
<1>4. OneComplete /\ LoopSent /\ Younger /\ CompleteInOrder
  BY <1>1, <1>2 DEF OneComplete, Working, LoopSent, Younger, CompleteInOrder
<1> QED
  BY <1>3, <1>4 DEF IInv

\* The invariant makes every counted event whole.
LEMMA IInvWhole == NoWrap /\ IInv => WholeEvents
<1> SUFFICES ASSUME NoWrap, IInv, NEW k \in DOMAIN sent, IsFull(sent[k].frags)
             PROVE  \E t \in 0 .. MaxTrig - 1 : sent[k].frags = [id : Node, trig : {t}]
  BY DEF WholeEvents
<1> DEFINE v == sent[k].event_number
           g == [id |-> 1, trig |-> v]
<1>1. sent[k] \in Event
  BY DEF IInv, TypeOK
<1>2. sent[k].frags \in SUBSET Fragment
  BY <1>1 DEF Event
<1>3. sent[k].frags = [id : Node, trig : {v}]
  BY <1>2, FullNodes DEF IInv, History
<1>4. 1 \in Node
  BY NAssumption DEF NAssumption, Node
<1>5. g \in Fragment
  BY <1>2, <1>3, <1>4
<1>6. v \in 0 .. MaxTrig - 1
  BY <1>5 DEF Fragment
<1> QED
  BY <1>3, <1>6

\* IInv is an invariant of the event builder.
LEMMA Inductive ==
    ASSUME NoWrap
    PROVE  Spec => []IInv
<1>1. IInv /\ TypeOK' /\ [Next]_vars => IInv'
  BY IInvStep
<1> QED
  BY <1>1, IInvInit, Typing, PTL DEF Spec

\* Nothing the builder received is erased before it was handed to send_data
\* (dteb.cxx:305-317, 339-342), although the erase loop tests a moving slot.
THEOREM NothingLost ==
    ASSUME NoWrap
    PROVE  Spec => []Conservation
<1>1. IInv => Conservation
  BY DEF IInv, History
<1> QED
  BY <1>1, Inductive, PTL

\* Complete events are sent in trigger order, each trigger at most once
\* (dteb.cxx:296-317), whatever triggers the front ends skip.
THEOREM Ordered ==
    ASSUME NoWrap
    PROVE  Spec => []CompleteInOrder
<1>1. IInv => CompleteInOrder
  BY DEF IInv
<1> QED
  BY <1>1, Inductive, PTL

\* An event that was counted complete (dteb.cxx:296) holds exactly one
\* fragment of every node, all of its own trigger.
THEOREM Whole ==
    ASSUME NoWrap
    PROVE  Spec => []WholeEvents
<1>1. IInv => WholeEvents
  BY IInvWhole
<1> QED
  BY <1>1, Inductive, PTL

--------------------------------------------------------------------------------
(***************************************************************************)
(* The stream.  When the front ends skip nothing, and none is further      *)
(* ahead of another than the buffer is deep and trigger numbers are        *)
(* distinct, the builder implements TriggerStream, also across the wrap of *)
(* the trigger number (NoWrap is not assumed).  The buffer then holds a    *)
(* window of consecutive triggers that starts with the oldest one not yet  *)
(* complete, so that only its first entry ever completes: both loops make  *)
(* one turn, and the head is never flushed.                                *)
(***************************************************************************)
Lossless == ~ Lossy /\ MaxSkew < MaxDepth /\ MaxSkew < TrigMod

\* The trigger of the first entry: all before it have been sent, and during
\* the erase loop it has been sent too.
Oldest == IF pc = "erase" THEN Len(sent) - 1 ELSE Len(sent)

\* The fragments of trigger t that the builder has received.
Arrived(t) == {f \in Fragment : f.trig = t /\ next[f.id] > t}

\* The entries are the triggers from Oldest on, each with what has arrived.
Window ==
    /\ \A k \in 1 .. Len(m_events) :
          /\ m_events[k].event_number = (Oldest + k - 1) % TrigMod
          /\ m_events[k].frags = Arrived(Oldest + k - 1)
    /\ Len(m_events) <= MaxSkew + 1
    /\ Alone => Len(m_events) = 0

\* Some front end has just delivered, or still owes, the oldest trigger.
Frontier ==
    /\ \A n \in Node : next[n] \in Oldest .. Oldest + Len(m_events)
    /\ pc = "recv" => \E n \in Node : next[n] = Oldest
    /\ pc # "recv" => /\ \A n \in Node : next[n] > Oldest
                      /\ \E n \in Node : next[n] = Oldest + 1

SInv == /\ TypeOK
        /\ pc # "flush"
        /\ pc # "recv" => i = 1 /\ j = 1 /\ Len(m_events) > 0
        /\ Oldest \in Nat
        /\ Window
        /\ Frontier

\* Different numbers less than n apart stay different modulo n.
LEMMA ModDistinct ==
    ASSUME NEW n \in Nat \ {0}, NEW a \in Nat, NEW b \in Nat,
           a - b < n, b - a < n, a % n = b % n
    PROVE  a = b
<1>1. ASSUME NEW c \in Nat
      PROVE  c = (n * (c \div n)) + (c % n) /\ c \div n \in Int /\ c % n \in Nat
  <2>1. c = (n * (c \div n)) + (c % n)
    BY <1>1, SMTT(30)
  <2>2. c % n \in 0..(n - 1) /\ c \div n \in Int
    BY <1>1, SMTT(30)
  <2> QED
    BY <2>1, <2>2
<1>2. PICK p \in Int, r \in Nat : p = a \div n /\ r = a % n
  BY <1>1
<1>3. PICK q \in Int : q = b \div n
  BY <1>1
<1>4. a = (n * p) + r /\ b = (n * q) + r
  BY <1>1, <1>2, <1>3
<1>5. \A x \in Int : x >= 1 => n * x >= n
  BY SMTT(30)
<1>6. p - q \in Int /\ q - p \in Int /\ n * (p - q) = a - b /\ n * (q - p) = b - a
  BY <1>4, SMTT(30)
<1>7. ~ (p - q >= 1) /\ ~ (q - p >= 1)
  <2>1. p - q >= 1 => a - b >= n
    BY <1>5, <1>6
  <2>2. q - p >= 1 => b - a >= n
    BY <1>5, <1>6
  <2> QED
    BY <2>1, <2>2
<1>8. p = q
  BY <1>2, <1>3, <1>7
<1> QED
  BY <1>4, <1>8

\* What has arrived of a trigger changes only when a front end delivers it.
LEMMA ArrivedStep ==
    ASSUME TypeOK, NEW f \in Fragment, next[f.id] = f.trig,
           next' = [next EXCEPT ![f.id] = f.trig + 1]
    PROVE  /\ Arrived(f.trig)' = Arrived(f.trig) \cup {f}
           /\ \A t \in Nat : t # f.trig => Arrived(t)' = Arrived(t)
<1>1. f.id \in Node /\ f.trig \in Nat
  BY TrigAssumption DEF Fragment, TrigAssumption
<1>2. \A n \in Node : /\ next[n] \in Nat
                      /\ next'[n] = IF n = f.id THEN next[n] + 1 ELSE next[n]
  BY <1>1 DEF TypeOK
<1>3. \A g \in Fragment : g.id \in Node /\ g.trig \in Nat
  BY TrigAssumption DEF Fragment, TrigAssumption
<1>4. \A g \in Fragment : g.id = f.id /\ g.trig = f.trig => g = f
  BY DEF Fragment
<1> HIDE DEF Fragment
<1>5. ASSUME NEW t \in Nat, t # f.trig PROVE Arrived(t)' = Arrived(t)
  <2>1. \A n \in Node : next'[n] > t <=> next[n] > t
    BY <1>1, <1>2, <1>5
  <2> QED
    BY <1>3, <2>1 DEF Arrived
<1>6. ASSUME NEW g \in Fragment
      PROVE  g \in Arrived(f.trig)' <=> g \in Arrived(f.trig) \/ g = f
  <2>1. CASE g.id = f.id
    BY <1>1, <1>2, <1>3, <1>4, <2>1 DEF Arrived
  <2>2. CASE g.id # f.id
    BY <1>2, <1>3, <2>2 DEF Arrived
  <2> QED
    BY <2>1, <2>2
<1>7. Arrived(f.trig)' \subseteq Fragment /\ Arrived(f.trig) \subseteq Fragment
  BY DEF Arrived
<1> QED
  BY <1>5, <1>6, <1>7

\* Nothing of a trigger is missing when all front ends, with counters nx, are
\* past it.
LEMMA ArrivedAll ==
    ASSUME NEW nx, NEW t \in 0 .. MaxTrig - 1, NEW frags \in SUBSET Fragment,
           \A f \in Fragment : f \in frags <=> f.trig = t /\ nx[f.id] > t
    PROVE  /\ frags \in SUBSET [id : Node, trig : {t}]
           /\ frags = [id : Node, trig : {t}] <=> \A n \in Node : nx[n] > t
<1>1. frags \in SUBSET [id : Node, trig : {t}]
  BY DEF Fragment
<1>2. [id : Node, trig : {t}] \subseteq Fragment
  BY DEF Fragment
<1>3. ASSUME frags = [id : Node, trig : {t}], NEW n \in Node PROVE nx[n] > t
  <2> DEFINE f == [id |-> n, trig |-> t]
  <2>1. f \in frags /\ f \in Fragment /\ f.id = n
    BY <1>2, <1>3
  <2> QED
    BY <2>1
<1>4. ASSUME \A n \in Node : nx[n] > t PROVE frags = [id : Node, trig : {t}]
  <2>1. ASSUME NEW f \in [id : Node, trig : {t}] PROVE f \in frags
    BY <1>2, <1>4
  <2> QED
    BY <1>1, <2>1
<1> QED
  BY <1>1, <1>3, <1>4

\* What the step of a front end amounts to: it delivers a trigger of the window
\* or the one behind it, and there is room for that one.
LEMMA StreamReceive ==
    ASSUME Lossless, SInv, NEW n \in Node, Receive(n)
    PROVE  \E f \in Fragment :
             /\ f.id = n /\ f.trig = next[n]
             /\ f.trig \in Oldest .. Oldest + MaxSkew
             /\ f.trig \in Oldest .. Oldest + Len(m_events)
             /\ next' = [next EXCEPT ![f.id] = f.trig + 1]
             /\ pc = "recv"
             /\ (\E k \in DOMAIN m_events : AddFragment(f, k)) \/ OpenEvent(f)
<1>1. PICK t \in Deliverable(n) :
         LET f == [id |-> n, trig |-> t] IN
         /\ next' = [next EXCEPT ![n] = t + 1]
         /\ received' = received \cup {f}
         /\ \/ \E k \in DOMAIN m_events : AddFragment(f, k)
            \/ OpenEvent(f)
  BY DEF Receive
<1> DEFINE f == [id |-> n, trig |-> t]
<1>2. pc = "recv"
  BY DEF Receive
<1>3. /\ t = next[n] /\ t \in next[n] .. MaxTrig - 1
      /\ \A m \in Node : t <= next[m] + MaxSkew
  BY DEF Deliverable, Lossless
<1>4. next[n] \in Oldest .. Oldest + Len(m_events) /\ Oldest \in Nat
  BY DEF SInv, Frontier
<1>5. PICK m \in Node : next[m] = Oldest
  BY <1>2 DEF SInv, Frontier
<1>6. t \in Oldest .. Oldest + MaxSkew
  BY <1>3, <1>4, <1>5, TrigAssumption DEF TrigAssumption
<1>7. f \in Fragment /\ f.id = n /\ f.trig = t
  BY <1>3, <1>4 DEF Fragment
<1> QED
  BY <1>1, <1>2, <1>3, <1>4, <1>6, <1>7

\* The state of the stream: what it is refined to.
streamstate == <<out, Len(sent), held, errors>>

\* send_data with the event that is due is a step of the stream, whether the
\* consumer gets it, it is dropped, or the send throws.
LEMMA StreamSendData ==
    ASSUME TypeOK, QueueBound, ~ counting, NEW ev \in Event, SendData(ev),
           Len(sent) < MaxTrig, ev = Stream!EventOf(Len(sent))
    PROVE  Stream!Next
<1>1. sent \in Seq(Event) /\ sent' = Append(sent, ev)
  BY DEF TypeOK, SendData
<1>2. Len(sent') = Len(sent) + 1
  BY <1>1
<1>3. held \in Nat /\ errors \in Nat /\ MaxPend \in Nat
  BY DepthAssumption, EnvAssumption DEF DepthAssumption, EnvAssumption, TypeOK
<1>4. g_ebs_depth = held - errors
  BY <1>3 DEF QueueBound
<1>5. HasRoom <=> held < MaxPend + errors
  BY <1>3, <1>4 DEF HasRoom
<1>6. Stream!Emit \/ Stream!Fail \/ Stream!Drop
  <2>1. CASE Queue(ev)
    BY <1>5, <2>1 DEF Queue, Stream!Emit, Stream!HasRoom
  <2>2. CASE SendError
    BY <1>5, <2>2 DEF SendError, Stream!Fail, Stream!HasRoom
  <2>3. CASE Drop
    BY <1>5, <2>3 DEF Drop, Stream!Drop, Stream!HasRoom
  <2> QED
    BY <2>1, <2>2, <2>3 DEF SendData
<1> QED
  BY <1>2, <1>6 DEF Stream!Next, Stream!Build

\* A fragment joins the entry of its trigger.  It completes that entry only
\* when every front end is past the oldest trigger, and then it is the first.
LEMMA StreamAdd ==
    ASSUME Lossless, SInv, TypeOK', NEW f \in Fragment, NEW k \in DOMAIN m_events,
           f.trig = next[f.id], f.trig \in Oldest .. Oldest + MaxSkew,
           next' = [next EXCEPT ![f.id] = f.trig + 1],
           pc = "recv", AddFragment(f, k)
    PROVE  SInv' /\ UNCHANGED queue
<1>1. TypeOK
  BY DEF SInv
<1>2. /\ k \in 1 .. Len(m_events)
      /\ m_events' \in Seq(Event)
      /\ Len(m_events') = Len(m_events)
      /\ Num(f) = m_events[k].event_number
      /\ \A a \in 1 .. Len(m_events) :
           m_events'[a].event_number = m_events[a].event_number
      /\ \A a \in 1 .. Len(m_events) : a # k =>
           m_events'[a].frags = m_events[a].frags
      /\ m_events'[k].frags = m_events[k].frags \cup {f}
  BY <1>1, AddEffect
<1>3. Oldest = Len(sent) /\ Oldest \in Nat /\ UNCHANGED sent /\ UNCHANGED queue
  BY DEF Oldest, SInv, AddFragment, queue
<1>4. PICK B \in Nat : B = Len(sent)
  BY <1>3
<1>5. Len(m_events) \in Nat /\ Len(m_events) <= MaxSkew + 1 /\ MaxSkew \in Nat
  BY <1>1, TrigAssumption DEF TypeOK, TrigAssumption, SInv, Window
<1>6. f.id \in Node /\ f.trig \in 0 .. MaxTrig - 1 /\ f.trig \in Nat
  BY TrigAssumption DEF Fragment, TrigAssumption
<1>7. f.trig = B + k - 1
  <2>1. (B + k - 1) % TrigMod = f.trig % TrigMod
    BY <1>2, <1>3, <1>4 DEF SInv, Window, Num
  <2> DEFINE c == B + k - 1
  <2>2. f.trig \in B .. B + MaxSkew /\ c \in B .. B + MaxSkew
    BY <1>2, <1>3, <1>4, <1>5
  <2>3. TrigMod \in Nat \ {0} /\ MaxSkew < TrigMod
    BY TrigAssumption DEF TrigAssumption, Lossless
  <2>4. c \in Nat /\ c - f.trig < TrigMod /\ f.trig - c < TrigMod
    <3>1. PICK t \in Nat : t = f.trig
      BY <1>6
    <3>2. t \in B .. B + MaxSkew /\ c \in B .. B + MaxSkew
      BY <2>2, <3>1
    <3> HIDE DEF c
    <3>3. c \in Nat /\ c - t < TrigMod /\ t - c < TrigMod
      BY <1>4, <1>5, <2>3, <3>2
    <3> QED
      BY <3>1, <3>3
  <2>5. c % TrigMod = f.trig % TrigMod
    BY <2>1
  <2> HIDE DEF c
  <2>6. c = f.trig
    BY <1>6, <2>3, <2>4, <2>5, ModDistinct
  <2> QED
    BY <2>6 DEF c
<1>8. /\ Arrived(f.trig)' = Arrived(f.trig) \cup {f}
      /\ \A t \in Nat : t # f.trig => Arrived(t)' = Arrived(t)
  BY <1>1, ArrivedStep
<1>9. ASSUME NEW a \in 1 .. Len(m_events)
      PROVE  /\ m_events'[a].event_number = (B + a - 1) % TrigMod
             /\ m_events'[a].frags = Arrived(B + a - 1)'
  <2>1. /\ m_events[a].event_number = (B + a - 1) % TrigMod
        /\ m_events[a].frags = Arrived(B + a - 1)
    BY <1>3, <1>4, <1>9 DEF SInv, Window
  <2>2. CASE a = k
    BY <1>2, <1>7, <1>8, <2>1, <2>2
  <2>3. CASE a # k
    <3>1. B + a - 1 \in Nat /\ B + a - 1 # f.trig
      BY <1>2, <1>4, <1>5, <1>7, <1>9, <2>3
    <3> QED
      BY <1>2, <1>8, <1>9, <2>1, <2>3, <3>1
  <2> QED
    BY <2>2, <2>3
<1>10. \A m \in Node : /\ next[m] \in B .. B + Len(m_events)
                       /\ next'[m] = IF m = f.id THEN f.trig + 1 ELSE next[m]
  BY <1>1, <1>3, <1>4, <1>6 DEF SInv, Frontier, TypeOK
<1>11. ASSUME NEW m \in Node PROVE next'[m] \in B .. B + Len(m_events)
  <2>1. CASE m = f.id
    BY <1>2, <1>4, <1>5, <1>6, <1>7, <1>10, <2>1
  <2>2. CASE m # f.id
    BY <1>10, <2>2
  <2> QED
    BY <2>1, <2>2
<1>12. PICK m \in Node : next[m] = B
  BY <1>3, <1>4 DEF SInv, Frontier
<1> DEFINE full == IsFull(m_events'[k].frags)
<1>13. full <=> \A x \in Node : next'[x] > f.trig
  <2>1. PICK t \in 0 .. MaxTrig - 1, nx \in {next'}, s \in {m_events'[k].frags} : t = f.trig
    BY <1>6
  <2>2. s \in SUBSET Fragment /\ \A g \in Fragment : g \in s <=> g.trig = t /\ nx[g.id] > t
    <3>1. s = Arrived(f.trig)'
      BY <1>2, <1>7, <1>9, <2>1
    <3>2. /\ Arrived(f.trig)' \in SUBSET Fragment
          /\ \A g \in Fragment :
                g \in Arrived(f.trig)' <=> g.trig = f.trig /\ next'[g.id] > f.trig
      BY DEF Arrived
    <3> QED
      BY <2>1, <3>1, <3>2
  <2>3. /\ s \in SUBSET [id : Node, trig : {t}]
        /\ s = [id : Node, trig : {t}] <=> \A x \in Node : nx[x] > t
    BY <2>2, ArrivedAll
  <2>4. IsFull(s) <=> s = [id : Node, trig : {t}]
    BY <2>3, OnePerNode
  <2> QED
    BY <2>1, <2>3, <2>4
<1>14. CASE full
  <2>1. next'[m] > f.trig /\ f.trig >= B
    BY <1>2, <1>4, <1>6, <1>7, <1>13, <1>14
  <2>2. f.id = m /\ f.trig = B /\ k = 1
    <3>1. f.id = m
      BY <1>4, <1>6, <1>10, <1>12, <2>1
    <3>2. f.trig = B
      BY <1>12, <3>1
    <3> QED
      BY <1>2, <1>4, <1>7, <3>1, <3>2
  <2>3. pc' = "send" /\ i' = 1 /\ j' = 1
    BY <1>2, <1>14, <2>2 DEF AddFragment
  <2>4. Oldest' = B
    BY <1>3, <1>4, <2>3 DEF Oldest
  <2>5. Window'
    BY <1>2, <1>5, <1>9, <2>4 DEF SInv, Window, Alone
  <2>6. Frontier'
    BY <1>2, <1>10, <1>11, <1>13, <1>14, <2>2, <2>3, <2>4 DEF Frontier
  <2> QED
    BY <1>2, <1>3, <1>4, <1>5, <2>3, <2>4, <2>5, <2>6 DEF SInv
<1>15. CASE ~ full
  <2>1. UNCHANGED thread
    BY <1>2, <1>15 DEF AddFragment
  <2>2. pc' = "recv"
    BY <2>1 DEF thread
  <2>3. Oldest' = B
    BY <1>3, <1>4, <2>2 DEF Oldest
  <2>4. Window'
    BY <1>2, <1>5, <1>9, <2>3 DEF SInv, Window, Alone
  <2>5. \E x \in Node : next'[x] = B
    <3>1. CASE f.trig = B
      <4>1. PICK x \in Node : ~ (next'[x] > B)
        BY <1>13, <1>15, <3>1
      <4> QED
        BY <1>4, <1>5, <1>11, <4>1
    <3>2. CASE f.trig # B
      <4>1. m # f.id
        BY <1>12, <3>2
      <4> QED
        BY <1>10, <1>12, <4>1
    <3> QED
      BY <3>1, <3>2
  <2>6. Frontier'
    BY <1>2, <1>11, <2>2, <2>3, <2>5 DEF Frontier
  <2> QED
    BY <1>3, <1>4, <2>2, <2>3, <2>4, <2>6 DEF SInv
<1> QED
  BY <1>3, <1>14, <1>15

\* A new entry is opened for the trigger behind the window; with a single node
\* it is sent instead, and is the event of that trigger.
LEMMA StreamOpen ==
    ASSUME Lossless, SInv, QueueBound, ~ counting, TypeOK',
           NEW f \in Fragment, f.trig = next[f.id],
           f.trig \in Oldest .. Oldest + MaxSkew,
           f.trig \in Oldest .. Oldest + Len(m_events),
           next' = [next EXCEPT ![f.id] = f.trig + 1],
           pc = "recv", OpenEvent(f)
    PROVE  SInv' /\ (Stream!Next \/ UNCHANGED queue)
<1>1. TypeOK
  BY DEF SInv
<1>2. Oldest = Len(sent) /\ Oldest \in Nat
  BY DEF Oldest, SInv
<1>3. PICK B \in Nat : B = Len(sent)
  BY <1>2
<1>4. Len(m_events) \in Nat /\ Len(m_events) <= MaxSkew + 1 /\ MaxSkew \in Nat
  BY <1>1, TrigAssumption DEF TypeOK, TrigAssumption, SInv, Window
<1>5. f.id \in Node /\ f.trig \in 0 .. MaxTrig - 1 /\ f.trig \in Nat
  BY TrigAssumption DEF Fragment, TrigAssumption
<1>6. f.trig = B + Len(m_events)
  <2> SUFFICES ASSUME f.trig # B + Len(m_events) PROVE FALSE
    OBVIOUS
  <2>1. PICK k \in 1 .. Len(m_events) : f.trig = B + k - 1
    <3>1. PICK L \in Nat : L = Len(m_events)
      BY <1>4
    <3>2. PICK t \in Nat : t = f.trig
      BY <1>5
    <3>3. t \in B .. B + L /\ t # B + L
      BY <1>2, <1>3, <3>1, <3>2
    <3>4. t - B + 1 \in 1 .. L /\ t = B + (t - B + 1) - 1
      BY <3>3
    <3> QED
      BY <3>1, <3>2, <3>4
  <2>2. m_events[k].event_number = Num(f)
    BY <1>2, <1>3, <2>1 DEF SInv, Window, Num
  <2>3. k \in DOMAIN m_events
    <3>1. m_events \in Seq(Event)
      BY <1>1 DEF TypeOK
    <3> QED
      BY <2>1, <3>1
  <2> QED
    BY <2>2, <2>3 DEF OpenEvent, Match
<1>7. Len(m_events) <= MaxSkew
  BY <1>2, <1>3, <1>4, <1>6
<1>8. /\ Arrived(f.trig)' = Arrived(f.trig) \cup {f}
      /\ \A t \in Nat : t # f.trig => Arrived(t)' = Arrived(t)
  BY <1>1, ArrivedStep
<1>9. \A m \in Node : /\ next[m] \in B .. B + Len(m_events)
                      /\ next'[m] = IF m = f.id THEN f.trig + 1 ELSE next[m]
  BY <1>1, <1>2, <1>3, <1>5 DEF SInv, Frontier, TypeOK
<1>10. Arrived(f.trig)' = {f}
  <2>1. Arrived(f.trig) = {}
    <3>1. \A g \in Fragment : g.id \in Node
      BY DEF Fragment
    <3>2. \A m \in Node : ~ (next[m] > f.trig)
      BY <1>3, <1>4, <1>6, <1>9
    <3> QED
      BY <3>1, <3>2 DEF Arrived
  <2> QED
    BY <1>8, <2>1
<1>11. CASE Alone
  <2>1. Node = {1} /\ f.id = 1 /\ Len(m_events) = 0 /\ f.trig = B
    BY <1>3, <1>4, <1>5, <1>6, <1>11 DEF Alone, Node, SInv, Window
  <2>2. /\ sent' = Append(sent, NewEntry(f)) /\ UNCHANGED <<m_events, thread>>
    BY <1>11 DEF OpenEvent, SendData
  <2>3. f = [id |-> 1, trig |-> B] /\ {f} = [id : Node, trig : {B}]
    <3>1. f = [id |-> 1, trig |-> B]
      BY <2>1 DEF Fragment
    <3>2. [id : Node, trig : {B}] = {[id |-> 1, trig |-> B]}
      <4>1. \A g : g \in [id : {1}, trig : {B}] => g = [id |-> 1, trig |-> B]
        OBVIOUS
      <4>2. [id |-> 1, trig |-> B] \in [id : {1}, trig : {B}]
        OBVIOUS
      <4>3. [id : Node, trig : {B}] = [id : {1}, trig : {B}]
        BY <2>1
      <4> QED
        BY <4>1, <4>2, <4>3
    <3> QED
      BY <3>1, <3>2
  <2>4. NewEntry(f) = Stream!EventOf(B)
    BY <2>1, <2>3 DEF NewEntry, Num, Stream!EventOf
  <2>5. Stream!Next
    <3>1. NewEntry(f) \in Event
      BY NumType DEF NewEntry, Event
    <3>2. Len(sent) < MaxTrig
      BY <1>3, <1>5, <2>1, TrigAssumption DEF TrigAssumption
    <3>3. SendData(NewEntry(f))
      BY <1>11 DEF OpenEvent
    <3> QED
      BY <1>1, <1>3, <2>4, <3>1, <3>2, <3>3, StreamSendData
  <2>6. Len(sent') = B + 1 /\ pc' = "recv" /\ Oldest' = B + 1
    BY <1>1, <1>3, <2>2 DEF TypeOK, Oldest, thread
  <2>7. Window'
    BY <1>4, <2>1, <2>2 DEF Window, Alone
  <2>8. next'[1] = B + 1 /\ 1 \in Node
    BY <1>9, <2>1
  <2>9. Frontier'
    BY <1>3, <2>1, <2>2, <2>6, <2>8 DEF Frontier
  <2> QED
    BY <1>3, <2>5, <2>6, <2>7, <2>9 DEF SInv
<1>12. CASE ~ Alone
  <2>1. /\ m_events' \in Seq(Event)
        /\ Len(m_events') = Len(m_events) + 1
        /\ \A a \in 1 .. Len(m_events) : m_events'[a] = m_events[a]
        /\ m_events'[Len(m_events) + 1].event_number = Num(f)
        /\ m_events'[Len(m_events) + 1].frags = {f}
    BY <1>1, <1>12, PushEffect
  <2>2. UNCHANGED sent /\ UNCHANGED queue /\ pc' = "recv"
    <3>1. ~ Overflow(m_events')
      BY <1>4, <1>7, <2>1, DepthAssumption DEF Overflow, DepthAssumption, Lossless
    <3> QED
      BY <1>12, <3>1 DEF OpenEvent, queue
  <2>3. Oldest' = B
    BY <1>3, <2>2 DEF Oldest
  <2>4. ASSUME NEW a \in 1 .. Len(m_events) + 1
        PROVE  /\ m_events'[a].event_number = (B + a - 1) % TrigMod
               /\ m_events'[a].frags = Arrived(B + a - 1)'
    <3>1. CASE a \in 1 .. Len(m_events)
      <4>1. /\ m_events[a].event_number = (B + a - 1) % TrigMod
            /\ m_events[a].frags = Arrived(B + a - 1)
        BY <1>2, <1>3, <3>1 DEF SInv, Window
      <4>2. B + a - 1 \in Nat /\ B + a - 1 # f.trig
        BY <1>3, <1>4, <1>6, <3>1
      <4> QED
        BY <1>8, <2>1, <3>1, <4>1, <4>2
    <3>2. CASE a = Len(m_events) + 1
      <4>1. B + a - 1 = f.trig
        BY <1>3, <1>4, <1>6, <3>2
      <4> QED
        BY <1>10, <2>1, <3>2, <4>1 DEF Num
    <3> QED
      BY <1>4, <2>4, <3>1, <3>2
  <2>5. Window'
    BY <1>4, <1>7, <1>12, <2>1, <2>3, <2>4 DEF Window, Alone
  <2>6. \E x \in Node : next'[x] = B
    <3>1. PICK m \in Node : next[m] = B
      BY <1>2, <1>3 DEF SInv, Frontier
    <3>2. CASE m # f.id
      BY <1>9, <3>1, <3>2
    <3>3. CASE m = f.id
      <4>1. Len(m_events) = 0
        <5>1. PICK L \in Nat : L = Len(m_events)
          BY <1>4
        <5>2. B = B + L
          BY <1>6, <3>1, <3>3, <5>1
        <5> QED
          BY <5>1, <5>2
      <4>2. PICK x \in Node : x # f.id
        <5>1. 1 \in Node /\ 2 \in Node
          BY <1>12, NAssumption DEF Alone, Node, NAssumption
        <5> QED
          BY <5>1
      <4> QED
        BY <1>3, <1>9, <4>1, <4>2
    <3> QED
      BY <3>2, <3>3
  <2>7. \A x \in Node : next'[x] \in B .. B + Len(m_events')
    BY <1>3, <1>4, <1>6, <1>9, <2>1
  <2>8. Frontier'
    BY <2>2, <2>3, <2>6, <2>7 DEF Frontier
  <2> QED
    BY <1>3, <2>2, <2>3, <2>5, <2>8 DEF SInv
<1> QED
  BY <1>11, <1>12

\* The send loop sends the first entry, which is the next event of the stream.
LEMMA StreamSend ==
    ASSUME SInv, QueueBound, TypeOK', SendLoop
    PROVE  SInv' /\ Stream!Next
<1>1. TypeOK
  BY DEF SInv
<1>2. pc = "send" /\ i = 1 /\ j = 1 /\ Len(m_events) > 0 /\ Oldest = Len(sent)
  BY DEF SendLoop, SInv, Oldest
<1>3. PICK B \in Nat : B = Len(sent)
  BY <1>1 DEF TypeOK
<1>4. m_events \in Seq(Event) /\ m_events[1] \in Event /\ sent \in Seq(Event)
  <2>1. m_events \in Seq(Event) /\ sent \in Seq(Event)
    BY <1>1 DEF TypeOK
  <2>2. 1 \in 1 .. Len(m_events)
    BY <1>2, <2>1, LenProperties
  <2> QED
    BY <2>1, <2>2, ElementOfSeq
<1>5. ToSend
  <2>1. m_events[1].event_number \in Nat
    BY <1>4, TrigAssumption DEF TrigAssumption, Event
  <2> QED
    BY <1>2, <2>1 DEF ToSend
<1>6. /\ sent' = Append(sent, m_events[1])
      /\ j' = 1 /\ pc' = "erase" /\ UNCHANGED <<next, m_events, i>>
  BY <1>2, <1>5 DEF SendLoop, SendData
<1>7. \A n \in Node : next[n] > B
  BY <1>2, <1>3 DEF SInv, Frontier
<1>8. B \in 0 .. MaxTrig - 1
  <2>1. 1 \in Node /\ next[1] \in 0 .. MaxTrig
    BY <1>1, NAssumption DEF TypeOK, Node, NAssumption
  <2> QED
    BY <1>3, <1>7, <2>1, TrigAssumption DEF TrigAssumption
<1>9. m_events[1] = Stream!EventOf(B)
  <2>1. /\ m_events[1].event_number = B % TrigMod
        /\ m_events[1].frags = Arrived(B)
    <3>1. /\ m_events[1].event_number = (B + 1 - 1) % TrigMod
          /\ m_events[1].frags = Arrived(B + 1 - 1)
      BY <1>2, <1>3, <1>4 DEF SInv, Window
    <3>2. B + 1 - 1 = B
      BY <1>3
    <3> QED
      BY <3>1, <3>2
  <2>2. Arrived(B) = [id : Node, trig : {B}]
    <3>1. /\ Arrived(B) \in SUBSET Fragment
          /\ \A g \in Fragment : g \in Arrived(B) <=> g.trig = B /\ next[g.id] > B
      BY DEF Arrived
    <3> QED
      BY <1>7, <1>8, <3>1, ArrivedAll
  <2>3. m_events[1] = [event_number |-> m_events[1].event_number,
                       frags |-> m_events[1].frags]
    BY <1>4 DEF Event
  <2> QED
    BY <2>1, <2>2, <2>3 DEF Stream!EventOf
<1>10. Stream!Next
  <2>1. SendData(m_events[1]) /\ ~ counting
    BY <1>2, <1>5 DEF SendLoop
  <2>2. Len(sent) < MaxTrig
    BY <1>3, <1>8, TrigAssumption DEF TrigAssumption
  <2> QED
    BY <1>1, <1>3, <1>4, <1>9, <2>1, <2>2, StreamSendData
<1>11. Len(sent') = B + 1 /\ Oldest' = B
  BY <1>3, <1>4, <1>6 DEF Oldest
<1>12. Window'
  BY <1>2, <1>3, <1>6, <1>11 DEF SInv, Window, Arrived, Alone
<1>13. Frontier'
  BY <1>2, <1>3, <1>6, <1>11 DEF SInv, Frontier
<1> QED
  BY <1>2, <1>3, <1>6, <1>10, <1>11, <1>12, <1>13 DEF SInv

\* The erase loop removes it, and the next trigger is the oldest.
LEMMA StreamErase ==
    ASSUME SInv, TypeOK', EraseLoop
    PROVE  SInv' /\ UNCHANGED queue
<1>1. TypeOK
  BY DEF SInv
<1>2. /\ pc = "erase" /\ i = 1 /\ j = 1 /\ Len(m_events) > 0
      /\ Oldest = Len(sent) - 1 /\ Oldest \in Nat
  BY DEF EraseLoop, SInv, Oldest
<1>3. /\ UNCHANGED <<next, sent>> /\ UNCHANGED queue /\ pc' = "recv"
  BY <1>2 DEF EraseLoop, queue
<1>4. PICK B \in Nat : B = Len(sent) - 1
  BY <1>2
<1>5. m_events \in Seq(Event) /\ Len(m_events) \in Nat /\ m_events[1] \in Event
  <2>1. m_events \in Seq(Event)
    BY <1>1 DEF TypeOK
  <2> QED
    BY <1>2, <2>1
<1>6. ToErase
  <2>1. m_events[1].event_number \in Nat
    BY <1>5, TrigAssumption DEF TrigAssumption, Event
  <2> QED
    BY <1>2, <1>5, <2>1 DEF ToErase, Limit
<1>7. /\ Len(m_events') = Len(m_events) - 1
      /\ \A a \in 1 .. Len(m_events) - 1 : m_events'[a] = m_events[a + 1]
  <2>1. Removed(1)
    <3>1. Removed(j)
      BY <1>1, <1>6, EraseEffect
    <3> QED
      BY <1>2, <3>1
  <2> QED
    BY <1>5, <2>1 DEF Removed
<1>8. Oldest' = B + 1
  BY <1>1, <1>3, <1>4 DEF Oldest, TypeOK
<1>9. Window'
  <2>1. ASSUME NEW a \in 1 .. Len(m_events) - 1
        PROVE  /\ m_events'[a].event_number = (B + 1 + a - 1) % TrigMod
               /\ m_events'[a].frags = Arrived(B + 1 + a - 1)
    <3>1. a + 1 \in 1 .. Len(m_events) /\ B + (a + 1) - 1 = B + 1 + a - 1
      BY <1>4, <1>5
    <3> QED
      BY <1>2, <1>4, <1>7, <3>1 DEF SInv, Window
  <2>2. \A t : Arrived(t)' = Arrived(t)
    BY <1>3 DEF Arrived
  <2>3. Len(m_events') <= MaxSkew + 1 /\ ~ Alone
    BY <1>2, <1>5, <1>7, TrigAssumption DEF TrigAssumption, SInv, Window
  <2> QED
    BY <1>7, <1>8, <2>1, <2>2, <2>3 DEF Window, Alone
<1>10. Frontier'
  <2>1. \A n \in Node : /\ next[n] \in B .. B + Len(m_events)
                        /\ next[n] > B
    BY <1>2, <1>4 DEF SInv, Frontier
  <2>2. \E n \in Node : next[n] = B + 1
    BY <1>2, <1>4 DEF SInv, Frontier
  <2>3. \A n \in Node : next[n] \in B + 1 .. B + 1 + Len(m_events')
    BY <1>4, <1>5, <1>7, <2>1
  <2> QED
    BY <1>3, <1>8, <2>2, <2>3 DEF Frontier
<1> QED
  BY <1>3, <1>4, <1>8, <1>9, <1>10 DEF SInv

\* Every step keeps the window and is a step of the stream or none.
LEMMA StreamStep ==
    ASSUME Lossless, SInv, QueueBound, TypeOK', [Next]_vars
    PROVE  SInv' /\ [Stream!Next]_streamstate
<1>1. UNCHANGED queue => UNCHANGED streamstate
  BY DEF queue, streamstate
<1>2. ASSUME NEW n \in Node, Receive(n) PROVE SInv' /\ [Stream!Next]_streamstate
  <2>1. ~ counting
    BY <1>2 DEF Receive
  <2> QED
    BY <1>1, <1>2, <2>1, StreamReceive, StreamAdd, StreamOpen
<1>3. CASE FlushHead
  BY <1>3 DEF FlushHead, SInv
<1>4. CASE SendLoop
  BY <1>4, StreamSend
<1>5. CASE EraseLoop
  BY <1>1, <1>5, StreamErase
<1>6. CASE Count \/ BufFree \/ Connect \/ Disconnect \/ UNCHANGED vars
  <2>1. UNCHANGED <<next, m_events, pc, i, j, sent>>
    BY <1>6 DEF Count, BufFree, Connect, Disconnect, vars, thread, queue
  <2>2. Window' /\ Frontier'
    BY <2>1 DEF SInv, Window, Frontier, Oldest, Arrived, Alone
  <2>3. BufFree => Stream!Next
    BY DEF BufFree, Stream!Next, Stream!Release
  <2>4. Count \/ Connect \/ Disconnect \/ UNCHANGED vars => UNCHANGED streamstate
    BY <1>1 DEF Count, Connect, Disconnect, vars, streamstate
  <2> QED
    BY <1>6, <2>1, <2>2, <2>3, <2>4 DEF SInv, Oldest
<1> QED
  BY <1>2, <1>3, <1>4, <1>5, <1>6 DEF Next, Builder

\* The window is empty at first.
LEMMA StreamInit == Init => SInv /\ Stream!Init
<1> SUFFICES ASSUME Init, TypeOK PROVE SInv /\ Stream!Init
  BY TypingInit
<1>1. Len(m_events) = 0 /\ Len(sent) = 0 /\ pc = "recv" /\ Oldest = 0
  BY DEF Init, Oldest
<1>2. Window
  BY <1>1, TrigAssumption DEF Window, TrigAssumption
<1>3. 1 \in Node /\ \A n \in Node : next[n] = 0
  BY NAssumption DEF Init, Node, NAssumption
<1>4. Frontier
  BY <1>1, <1>3 DEF Frontier
<1> QED
  BY <1>1, <1>2, <1>4 DEF SInv, Stream!Init, Init

\* When the front ends skip nothing and stay within the depth of the buffer,
\* the builder gives the consumer the stream of TriggerStream, step by step:
\* what send_data (dteb.cxx:669-683) puts in the queue is the whole event of
\* each trigger, in order, also after the trigger number has wrapped, and an
\* event is left out only when the queue is at its limit or its send throws.
\* That the builder keeps going is not proved.
THEOREM StreamInOrder ==
    ASSUME Lossless
    PROVE  Spec => Stream!Init /\ [][Stream!Next]_streamstate
<1>1. SInv /\ QueueBound /\ TypeOK' /\ [Next]_vars
        => SInv' /\ [Stream!Next]_streamstate
  BY StreamStep
<1>2. Init => SInv /\ Stream!Init
  BY StreamInit
<1> QED
  BY <1>1, <1>2, Typing, QueueCounted, PTL DEF Spec
=============================================================================
