----------------------------- MODULE LebRun_proofs -----------------------------
(***************************************************************************)
(* Proofs about LebRun, for every set of front ends, every pipe length and *)
(* every pattern of commands, failing reads and failing sends.             *)
(*                                                                         *)
(* A buffer is always in exactly one place: being filled by its avant, in  *)
(* a pipe, in the builder's hand, or leaked.  So each step changes the set *)
(* Alive by as many buffers as it adds to g_avant_depth, and a counter at  *)
(* zero means that there is no buffer at all.                              *)
(***************************************************************************)
EXTENDS LebRun, FiniteSetTheorems, TLAPS

Numbered == \A m \in queue \cup hand \cup leaked : m[2] <= made[m[1]]
Filled(n) == at[n] \in {"read", "send"}
Apart ==
    /\ queue \cap hand = {} /\ queue \cap leaked = {} /\ hand \cap leaked = {}
    /\ \A n \in Avant : Filled(n) => /\ made[n] \in 1 .. MaxBuf
                                     /\ Current(n) \notin queue \cup hand \cup leaked
Behind == \A n \in Avant : decided[n] <= made[n]
Located == Numbered /\ Apart /\ Behind
IInv == TypeOK /\ Located /\ DepthExact /\ DropsOnlyLate

--------------------------------------------------------------------------------
\* There are finitely many buffers.
LEMMA BufferFinite == IsFiniteSet(Avant \X (1 .. MaxBuf))
<1>1. IsFiniteSet(Avant) /\ IsFiniteSet(1 .. MaxBuf)
  BY FS_Interval, TaskAssumption, BoundAssumption DEF TaskAssumption, BoundAssumption
<1> QED
  BY <1>1, FS_Product

\* What is being filled, without the set constructor.
LEMMA FillingMember == \A m : m \in Filling <=> \E n \in Avant : Filled(n) /\ m = Current(n)
  BY DEF Filling, Filled

LEMMA AliveFinite ==
    ASSUME TypeOK, Located
    PROVE  /\ Alive \subseteq Avant \X (1 .. MaxBuf)
           /\ IsFiniteSet(Alive) /\ IsFiniteSet(queue)
           /\ Cardinality(Alive) \in Nat
<1>1. Filling \subseteq Avant \X (1 .. MaxBuf)
  BY FillingMember DEF Located, Apart, Current
<1>2. queue \subseteq Avant \X (1 .. MaxBuf) /\ Alive \subseteq Avant \X (1 .. MaxBuf)
  BY <1>1 DEF TypeOK, Alive, Buffer
<1> QED
  BY <1>2, BufferFinite, FS_Subset, FS_CardinalityType

--------------------------------------------------------------------------------
LEMMA InitInv == Init => IInv
<1> SUFFICES ASSUME Init PROVE IInv
  OBVIOUS
<1> USE TaskAssumption, BoundAssumption DEF TaskAssumption, BoundAssumption
<1>1. TypeOK
  <2>1. TaskTypeOK
    BY DEF Init, TaskTypeOK, RunState, Places, Handlers
  <2>2. /\ at \in [Avant -> {"out", "check", "alloc", "read", "send", "leave"}]
        /\ made \in [Avant -> 0 .. MaxBuf] /\ decided \in [Avant -> 0 .. MaxBuf]
        /\ link \in [Avant -> {"none", "pending", "up", "cut"}]
    BY DEF Init
  <2>3. /\ \A n \in Avant : at[n] = "out"
        /\ queue = {} /\ hand = {} /\ leaked = {} /\ eat = "out"
        /\ g_avant_depth = 0 /\ errors = 0 /\ main = "command"
    BY DEF Init
  <2> QED
    BY <2>1, <2>2, <2>3 DEF TypeOK
<1>2. Located
  BY DEF Init, Located, Numbered, Apart, Behind, Filled
<1>3. Alive = {}
  BY FillingMember DEF Init, Alive, Filled
<1>4. DepthExact
  BY <1>3, FS_EmptySet DEF Init, DepthExact
<1>5. DropsOnlyLate
  BY DEF Init, DropsOnlyLate
<1> QED
  BY <1>1, <1>2, <1>4, <1>5 DEF IInv

--------------------------------------------------------------------------------
\* What TypeOK says of the threads, of the two loops and of the buffers.
LEMMA TypeStep ==
    ASSUME TypeOK, Located, [Next]_vars
    PROVE  TypeOK'
<1> USE TaskAssumption, BoundAssumption DEF TaskAssumption, BoundAssumption
<1>1. /\ IsFiniteSet(queue)
      /\ \A S \in SUBSET queue : Cardinality(S) \in Nat
  BY AliveFinite, FS_Subset, FS_CardinalityType
<1>2. ASSUME NEW n \in Avant, Enter(n) PROVE TypeOK'
  BY <1>1, <1>2 DEF TypeOK, TaskTypeOK, Enter, Goes, taskvars, ebvars, Buffer, Current, Places, Handlers, Goto
<1>3. ASSUME NEW n \in Avant, CheckState(n) PROVE TypeOK'
  BY <1>1, <1>3 DEF TypeOK, TaskTypeOK, CheckState, Goes, taskvars, ebvars, Buffer, Current, Places, Handlers, Goto
<1>4. ASSUME NEW n \in Avant, Alloc(n) PROVE TypeOK'
  BY <1>1, <1>4 DEF TypeOK, TaskTypeOK, Alloc, Goes, taskvars, ebvars, Buffer, Current, Places, Handlers, Goto
<1>5. ASSUME NEW n \in Avant, AllocFails(n) PROVE TypeOK'
  BY <1>1, <1>5 DEF TypeOK, TaskTypeOK, AllocFails, Goes, taskvars, ebvars, Buffer, Current, Places, Handlers, Goto
<1>6. ASSUME NEW n \in Avant, Read(n) PROVE TypeOK'
  BY <1>1, <1>6 DEF TypeOK, TaskTypeOK, Read, Goes, taskvars, ebvars, Buffer, Current, Places, Handlers, Goto
<1>7. ASSUME NEW n \in Avant, ReadFails(n) PROVE TypeOK'
  <2>1. Current(n) \in Buffer
    BY <1>7 DEF ReadFails, Located, Apart, Filled, Current, Buffer
  <2> QED
    BY <2>1, <1>1, <1>7 DEF TypeOK, TaskTypeOK, ReadFails, Goes, taskvars, ebvars, Places, Handlers, Goto
<1>8. ASSUME NEW n \in Avant, Send(n) PROVE TypeOK'
  <2>1. Current(n) \in Buffer
    BY <1>8 DEF Send, Located, Apart, Filled, Current, Buffer
  <2> QED
    BY <2>1, <1>1, <1>8 DEF TypeOK, TaskTypeOK, Send, Goes, taskvars, ebvars, Places, Handlers, Goto
<1>9. ASSUME NEW n \in Avant, SendFails(n) PROVE TypeOK'
  BY <1>1, <1>9 DEF TypeOK, TaskTypeOK, SendFails, Goes, taskvars, ebvars, Buffer, Current, Places, Handlers, Goto
<1>10. ASSUME NEW n \in Avant, Leave(n) PROVE TypeOK'
  BY <1>1, <1>10 DEF TypeOK, TaskTypeOK, Leave, Goes, taskvars, ebvars, Buffer, Current, Places, Handlers, Return, Queued, Goto
<1>11. ASSUME EbEnter PROVE TypeOK'
  BY <1>1, <1>11 DEF TypeOK, TaskTypeOK, EbEnter, taskvars, avantvars, Buffer, Places, Handlers
<1>12. ASSUME EbState PROVE TypeOK'
  BY <1>1, <1>12 DEF TypeOK, TaskTypeOK, EbState, taskvars, avantvars, Buffer, Places, Handlers
<1>13. ASSUME EbDepth PROVE TypeOK'
  BY <1>1, <1>13 DEF TypeOK, TaskTypeOK, EbDepth, taskvars, avantvars, Buffer, Places, Handlers
<1>14. ASSUME EbRecv PROVE TypeOK'
  BY <1>1, <1>14 DEF TypeOK, TaskTypeOK, EbRecv, taskvars, avantvars, Buffer, Places, Handlers
<1>15. ASSUME EbBuild PROVE TypeOK'
  BY <1>1, <1>15 DEF TypeOK, TaskTypeOK, EbBuild, taskvars, avantvars, Buffer, Places, Handlers
<1>16. ASSUME EbSend PROVE TypeOK'
  BY <1>1, <1>16 DEF TypeOK, TaskTypeOK, EbSend, taskvars, avantvars, Buffer, Places, Handlers
<1>17. ASSUME EbFree PROVE TypeOK'
  BY <1>1, <1>17 DEF TypeOK, TaskTypeOK, EbFree, taskvars, avantvars, Buffer, Places, Handlers
<1>18. ASSUME EbLeave PROVE TypeOK'
  BY <1>1, <1>18 DEF TypeOK, TaskTypeOK, EbLeave, taskvars, avantvars, Buffer, Places, Handlers, Return, Goto
<1>19. ASSUME NEW t \in Task, StateMachine(t) PROVE TypeOK'
  <2>1. /\ UNCHANGED rest /\ UNCHANGED c_state
        /\ \E p \in Places : Goto(t, p)
        /\ m_is_done' \in [Task -> BOOLEAN] /\ m_is_good' \in [Task -> BOOLEAN]
        /\ pc[t] # "running"
    BY <1>19 DEF TypeOK, TaskTypeOK, StateMachine, Switch, Initialise, Check, Return, Goto, Branch, RunState, Places, Handlers
  <2> QED
    BY <2>1 DEF TypeOK, TaskTypeOK, Goto, rest, avantvars, ebvars
<1>20. ASSUME Command \/ Quit \/ Join PROVE TypeOK'
  BY <1>20 DEF TypeOK, TaskTypeOK, Command, Quit, Join, SetState, RunState, rest, taskvars, avantvars, ebvars
<1>21. ASSUME UNCHANGED vars PROVE TypeOK'
  BY <1>21 DEF TypeOK, TaskTypeOK, vars, taskvars, avantvars, ebvars
<1> QED
  BY <1>2, <1>3, <1>4, <1>5, <1>6, <1>7, <1>8, <1>10, <1>11, <1>12, <1>13, <1>14, <1>15, <1>16, <1>17, <1>18, <1>19, <1>20, <1>21, <1>9 DEF Next, AvantStep, EbStep, EbInside

--------------------------------------------------------------------------------
\* A buffer stays in one place, and no buffer has a number not yet given out.
LEMMA LocatedStep ==
    ASSUME TypeOK, Located, [Next]_vars
    PROVE  Located'
<1> USE TaskAssumption, BoundAssumption DEF TaskAssumption, BoundAssumption
<1>1. /\ made \in [Avant -> 0 .. MaxBuf] /\ decided \in [Avant -> 0 .. MaxBuf]
      /\ at \in [Avant -> {"out", "check", "alloc", "read", "send", "leave"}]
      /\ queue \subseteq Avant \X (1 .. MaxBuf)
      /\ hand \subseteq Avant \X (1 .. MaxBuf)
      /\ leaked \subseteq Avant \X (1 .. MaxBuf)
  BY DEF TypeOK, Buffer
<1>2. ASSUME NEW n \in Avant, Enter(n) PROVE Located'
  BY <1>1, <1>2 DEF Located, Numbered, Apart, Behind, Filled, Current, Enter, Goes, ebvars
<1>3. ASSUME NEW n \in Avant, CheckState(n) PROVE Located'
  BY <1>1, <1>3 DEF Located, Numbered, Apart, Behind, Filled, Current, CheckState, Goes, ebvars
<1>4. ASSUME NEW n \in Avant, Alloc(n) PROVE Located'
  BY <1>1, <1>4 DEF Located, Numbered, Apart, Behind, Filled, Current, Alloc, Goes, ebvars
<1>5. ASSUME NEW n \in Avant, AllocFails(n) PROVE Located'
  BY <1>1, <1>5 DEF Located, Numbered, Apart, Behind, Filled, Current, AllocFails, Goes, ebvars
<1>6. ASSUME NEW n \in Avant, Read(n) PROVE Located'
  BY <1>1, <1>6 DEF Located, Numbered, Apart, Behind, Filled, Current, Read, Goes, ebvars
<1>7. ASSUME NEW n \in Avant, ReadFails(n) PROVE Located'
  BY <1>1, <1>7 DEF Located, Numbered, Apart, Behind, Filled, Current, ReadFails, Goes, ebvars
<1>8. ASSUME NEW n \in Avant, Send(n) PROVE Located'
  BY <1>1, <1>8 DEF Located, Numbered, Apart, Behind, Filled, Current, Send, Goes, ebvars
<1>9. ASSUME NEW n \in Avant, SendFails(n) PROVE Located'
  BY <1>1, <1>9 DEF Located, Numbered, Apart, Behind, Filled, Current, SendFails, Goes, ebvars
<1>10. ASSUME NEW n \in Avant, Leave(n) PROVE Located'
  BY <1>1, <1>10 DEF Located, Numbered, Apart, Behind, Filled, Current, Leave, Goes, ebvars, Queued
<1>11. ASSUME EbEnter PROVE Located'
  BY <1>1, <1>11 DEF Located, Numbered, Apart, Behind, Filled, Current, EbEnter, avantvars
<1>12. ASSUME EbState PROVE Located'
  BY <1>1, <1>12 DEF Located, Numbered, Apart, Behind, Filled, Current, EbState, avantvars
<1>13. ASSUME EbDepth PROVE Located'
  BY <1>1, <1>13 DEF Located, Numbered, Apart, Behind, Filled, Current, EbDepth, avantvars
<1>14. ASSUME EbRecv PROVE Located'
  BY <1>1, <1>14 DEF Located, Numbered, Apart, Behind, Filled, Current, EbRecv, avantvars
<1>15. ASSUME EbBuild PROVE Located'
  BY <1>1, <1>15 DEF Located, Numbered, Apart, Behind, Filled, Current, EbBuild, avantvars
<1>16. ASSUME EbSend PROVE Located'
  BY <1>1, <1>16 DEF Located, Numbered, Apart, Behind, Filled, Current, EbSend, avantvars
<1>17. ASSUME EbFree PROVE Located'
  BY <1>1, <1>17 DEF Located, Numbered, Apart, Behind, Filled, Current, EbFree, avantvars
<1>18. ASSUME EbLeave PROVE Located'
  BY <1>1, <1>18 DEF Located, Numbered, Apart, Behind, Filled, Current, EbLeave, avantvars
<1>19. ASSUME UNCHANGED <<avantvars, queue, ebvars, leaked>> PROVE Located'
  BY <1>19 DEF Located, Numbered, Apart, Behind, Filled, Current, avantvars, ebvars
<1> QED
  BY <1>2, <1>3, <1>4, <1>5, <1>6, <1>7, <1>8, <1>10, <1>11, <1>12, <1>13, <1>14, <1>15, <1>16, <1>17, <1>18, <1>19, <1>9 DEF Next, AvantStep, EbStep, EbInside, StateMachine, Command, Quit, Join, rest, vars, avantvars, ebvars

--------------------------------------------------------------------------------
\* Every step changes g_avant_depth by as many buffers as it adds to Alive.
LEMMA DepthStep ==
    ASSUME TypeOK, Located, DepthExact, [Next]_vars
    PROVE  DepthExact'
<1> USE TaskAssumption, BoundAssumption DEF TaskAssumption, BoundAssumption
<1>1. /\ made \in [Avant -> 0 .. MaxBuf]
      /\ at \in [Avant -> {"out", "check", "alloc", "read", "send", "leave"}]
      /\ IF eat \in {"build", "send", "free"} THEN \E m \in Buffer : hand = {m}
                                              ELSE hand = {}
      /\ g_avant_depth \in Int
  BY DEF TypeOK
<1>2. \A m : m \in Filling <=> \E n \in Avant : Filled(n) /\ m = Current(n)
  BY FillingMember
<1>3. \A m : m \in Filling' <=> \E n \in Avant : Filled(n)' /\ m = Current(n)'
  BY DEF Filling, Filled
<1>4. \A m : m \in Alive <=> m \in Filling \/ m \in queue \/ m \in hand \/ m \in leaked
  BY DEF Alive
<1>5. \A m : m \in Alive' <=> m \in Filling' \/ m \in queue' \/ m \in hand' \/ m \in leaked'
  BY DEF Alive
<1>6. IsFiniteSet(Alive) /\ Cardinality(Alive) \in Nat
  BY AliveFinite
<1>7. ASSUME Alive' = Alive, g_avant_depth' = g_avant_depth PROVE DepthExact'
  BY <1>7 DEF DepthExact
<1>8. ASSUME NEW n \in Avant, Enter(n) PROVE DepthExact'
  <2>1. \A m : m \in Alive' <=> m \in Alive
    BY <1>1, <1>2, <1>3, <1>4, <1>5, <1>8 DEF Enter, Goes, Filled, Current, ebvars
  <2> QED
    BY <1>7, <1>8, <2>1 DEF Enter
<1>9. ASSUME NEW n \in Avant, CheckState(n) PROVE DepthExact'
  <2>1. \A m : m \in Alive' <=> m \in Alive
    BY <1>1, <1>2, <1>3, <1>4, <1>5, <1>9 DEF CheckState, Goes, Filled, Current, ebvars
  <2> QED
    BY <1>7, <1>9, <2>1 DEF CheckState
<1>10. ASSUME NEW n \in Avant, AllocFails(n) PROVE DepthExact'
  <2>1. \A m : m \in Alive' <=> m \in Alive
    BY <1>1, <1>2, <1>3, <1>4, <1>5, <1>10 DEF AllocFails, Goes, Filled, Current, ebvars
  <2> QED
    BY <1>7, <1>10, <2>1 DEF AllocFails
<1>11. ASSUME NEW n \in Avant, Read(n) PROVE DepthExact'
  <2>1. \A m : m \in Alive' <=> m \in Alive
    BY <1>1, <1>2, <1>3, <1>4, <1>5, <1>11 DEF Read, Goes, Filled, Current, ebvars
  <2> QED
    BY <1>7, <1>11, <2>1 DEF Read
<1>12. ASSUME NEW n \in Avant, ReadFails(n) PROVE DepthExact'
  <2>1. \A m : m \in Alive' <=> m \in Alive
    BY <1>1, <1>2, <1>3, <1>4, <1>5, <1>12 DEF ReadFails, Goes, Filled, Current, ebvars
  <2> QED
    BY <1>7, <1>12, <2>1 DEF ReadFails
<1>13. ASSUME NEW n \in Avant, Send(n) PROVE DepthExact'
  <2>1. \A m : m \in Alive' <=> m \in Alive
    BY <1>1, <1>2, <1>3, <1>4, <1>5, <1>13 DEF Send, Goes, Filled, Current, ebvars
  <2> QED
    BY <1>7, <1>13, <2>1 DEF Send
<1>14. ASSUME EbEnter PROVE DepthExact'
  <2>1. \A m : m \in Alive' <=> m \in Alive
    BY <1>1, <1>2, <1>3, <1>4, <1>5, <1>14 DEF EbEnter, Filled, Current, avantvars
  <2> QED
    BY <1>7, <1>14, <2>1 DEF EbEnter
<1>15. ASSUME EbState PROVE DepthExact'
  <2>1. \A m : m \in Alive' <=> m \in Alive
    BY <1>1, <1>2, <1>3, <1>4, <1>5, <1>15 DEF EbState, Filled, Current, avantvars
  <2> QED
    BY <1>7, <1>15, <2>1 DEF EbState
<1>16. ASSUME EbDepth PROVE DepthExact'
  <2>1. \A m : m \in Alive' <=> m \in Alive
    BY <1>1, <1>2, <1>3, <1>4, <1>5, <1>16 DEF EbDepth, Filled, Current, avantvars
  <2> QED
    BY <1>7, <1>16, <2>1 DEF EbDepth
<1>17. ASSUME EbRecv PROVE DepthExact'
  <2>1. \A m : m \in Alive' <=> m \in Alive
    BY <1>1, <1>2, <1>3, <1>4, <1>5, <1>17 DEF EbRecv, Filled, Current, avantvars
  <2> QED
    BY <1>7, <1>17, <2>1 DEF EbRecv
<1>18. ASSUME EbBuild PROVE DepthExact'
  <2>1. \A m : m \in Alive' <=> m \in Alive
    BY <1>1, <1>2, <1>3, <1>4, <1>5, <1>18 DEF EbBuild, Filled, Current, avantvars
  <2> QED
    BY <1>7, <1>18, <2>1 DEF EbBuild
<1>19. ASSUME EbSend PROVE DepthExact'
  <2>1. \A m : m \in Alive' <=> m \in Alive
    BY <1>1, <1>2, <1>3, <1>4, <1>5, <1>19 DEF EbSend, Filled, Current, avantvars
  <2> QED
    BY <1>7, <1>19, <2>1 DEF EbSend
<1>20. ASSUME UNCHANGED <<avantvars, queue, ebvars, leaked, g_avant_depth>> PROVE DepthExact'
  <2>1. \A m : m \in Alive' <=> m \in Alive
    BY <1>2, <1>3, <1>4, <1>5, <1>20 DEF Filled, Current, avantvars, ebvars
  <2> QED
    BY <1>7, <1>20, <2>1
<1>21. ASSUME NEW n \in Avant, Alloc(n) PROVE DepthExact'
  <2>1. Current(n)' = <<n, made[n] + 1>>
    BY <1>1, <1>21 DEF Alloc, Current
  <2>2. Current(n)' \notin Alive
    BY <1>1, <1>2, <1>4, <1>21, <2>1 DEF Alloc, Located, Numbered, Filled, Current
  <2>3. \A m : m \in Alive' <=> m \in Alive \cup {Current(n)'}
    BY <1>1, <1>2, <1>3, <1>4, <1>5, <1>21 DEF Alloc, Goes, Filled, Current, ebvars
  <2>4. Alive' = Alive \cup {Current(n)'}
    BY <2>3
  <2>5. Cardinality(Alive') = Cardinality(Alive) + 1
    BY <1>6, <2>2, <2>4, FS_AddElement
  <2> QED
    BY <2>5, <1>21 DEF Alloc, DepthExact
<1>22. ASSUME NEW n \in Avant, SendFails(n) PROVE DepthExact'
  <2>1. Current(n) \in Alive /\ Current(n) \notin queue \cup hand \cup leaked
    BY <1>2, <1>4, <1>22 DEF SendFails, Filled, Located, Apart
  <2>2. \A m : m \in Filling' <=> m \in Filling /\ m # Current(n)
    BY <1>1, <1>2, <1>3, <1>22 DEF SendFails, Goes, Filled, Current
  <2>3. Alive' = Alive \ {Current(n)}
    BY <1>4, <1>5, <1>22, <2>1, <2>2 DEF SendFails, ebvars
  <2> QED
    BY <1>6, <1>22, <2>1, <2>3, FS_RemoveElement DEF SendFails, DepthExact
<1>23. ASSUME NEW n \in Avant, Leave(n) PROVE DepthExact'
  <2>1. PICK freed \in SUBSET queue : /\ queue' = queue \ freed
                                      /\ g_avant_depth' = g_avant_depth - Cardinality(freed)
    BY <1>23 DEF Leave, Queued
  <2>2. \A m : m \in Filling' <=> m \in Filling
    BY <1>1, <1>2, <1>3, <1>23 DEF Leave, Goes, Filled, Current
  <2>3. freed \cap Filling = {} /\ freed \cap hand = {} /\ freed \cap leaked = {}
    BY <1>2, <2>1 DEF Located, Apart
  <2>4. Alive' = Alive \ freed /\ Alive \cap freed = freed
    BY <1>4, <1>5, <1>23, <2>1, <2>2, <2>3 DEF Leave, ebvars
  <2> QED
    BY <1>6, <2>1, <2>4, FS_Difference DEF DepthExact
<1>24. ASSUME EbFree PROVE DepthExact'
  <2>1. PICK m : hand = {m}
    BY <1>1, <1>24 DEF EbFree
  <2>2. \A x : x \in Filling' <=> x \in Filling
    BY <1>2, <1>3, <1>24 DEF EbFree, Filled, Current, avantvars
  <2>3. m \in Alive /\ m \notin Filling /\ m \notin queue /\ m \notin leaked
    BY <1>2, <1>4, <2>1 DEF Located, Apart
  <2>4. Alive' = Alive \ {m}
    BY <1>4, <1>5, <1>24, <2>1, <2>2, <2>3 DEF EbFree
  <2> QED
    BY <1>6, <1>24, <2>3, <2>4, FS_RemoveElement DEF EbFree, DepthExact
<1>25. ASSUME EbLeave PROVE DepthExact'
  <2>1. \A m : m \in Filling' <=> m \in Filling
    BY <1>2, <1>3, <1>25 DEF EbLeave, Filled, Current
  <2>2. queue \cap Filling = {} /\ queue \cap hand = {} /\ queue \cap leaked = {}
    BY <1>2 DEF Located, Apart
  <2>3. Alive' = Alive \ queue /\ Alive \cap queue = queue
    BY <1>4, <1>5, <1>25, <2>1, <2>2 DEF EbLeave
  <2>4. Cardinality(Alive \ queue) = Cardinality(Alive) - Cardinality(queue)
    BY <1>6, <2>3, FS_Difference
  <2>5. g_avant_depth' = g_avant_depth - Cardinality(queue)
    BY <1>25 DEF EbLeave
  <2> QED
    BY <2>3, <2>4, <2>5 DEF DepthExact
<1> QED
  BY <1>8, <1>9, <1>10, <1>11, <1>12, <1>13, <1>14, <1>15, <1>16, <1>17, <1>18, <1>19, <1>20, <1>21, <1>23, <1>24, <1>25, <1>22 DEF Next, AvantStep, EbStep, EbInside, StateMachine, Command, Quit, Join, rest, vars, avantvars, ebvars

--------------------------------------------------------------------------------
\* A builder that decides to leave has found no buffer, so what comes into its
\* pipes afterwards has a later number.
LEMMA DropsStep ==
    ASSUME TypeOK, Located, DepthExact, DropsOnlyLate, [Next]_vars
    PROVE  DropsOnlyLate'
<1> USE TaskAssumption, BoundAssumption DEF TaskAssumption, BoundAssumption
<1>1. /\ made \in [Avant -> 0 .. MaxBuf] /\ decided \in [Avant -> 0 .. MaxBuf]
      /\ at \in [Avant -> {"out", "check", "alloc", "read", "send", "leave"}]
      /\ queue \subseteq Avant \X (1 .. MaxBuf)
  BY DEF TypeOK, Buffer
<1>2. \A m : m \in Filling <=> \E n \in Avant : Filled(n) /\ m = Current(n)
  BY FillingMember
<1>3. \A m : m \in Filling' <=> \E n \in Avant : Filled(n)' /\ m = Current(n)'
  BY DEF Filling, Filled
<1>4. eat = "leave" => \A m : m \in queue \/ m \in Filling => m[2] > decided[m[1]]
  BY DEF DropsOnlyLate
<1>5. ASSUME eat' = "leave" => \A m : m \in queue' \/ m \in Filling' => m[2] > decided'[m[1]]
      PROVE  DropsOnlyLate'
  BY <1>5 DEF DropsOnlyLate
<1>6. ASSUME NEW n \in Avant, Enter(n) PROVE DropsOnlyLate'
  BY <1>1, <1>2, <1>3, <1>4, <1>5, <1>6 DEF Enter, Goes, Filled, Current, ebvars
<1>7. ASSUME NEW n \in Avant, CheckState(n) PROVE DropsOnlyLate'
  BY <1>1, <1>2, <1>3, <1>4, <1>5, <1>7 DEF CheckState, Goes, Filled, Current, ebvars
<1>8. ASSUME NEW n \in Avant, Alloc(n) PROVE DropsOnlyLate'
  BY <1>1, <1>2, <1>3, <1>4, <1>5, <1>8 DEF Alloc, Goes, Filled, Current, ebvars, Located, Behind
<1>9. ASSUME NEW n \in Avant, AllocFails(n) PROVE DropsOnlyLate'
  BY <1>1, <1>2, <1>3, <1>4, <1>5, <1>9 DEF AllocFails, Goes, Filled, Current, ebvars
<1>10. ASSUME NEW n \in Avant, Read(n) PROVE DropsOnlyLate'
  BY <1>1, <1>2, <1>3, <1>4, <1>5, <1>10 DEF Read, Goes, Filled, Current, ebvars
<1>11. ASSUME NEW n \in Avant, ReadFails(n) PROVE DropsOnlyLate'
  BY <1>1, <1>2, <1>3, <1>4, <1>5, <1>11 DEF ReadFails, Goes, Filled, Current, ebvars
<1>12. ASSUME NEW n \in Avant, Send(n) PROVE DropsOnlyLate'
  BY <1>1, <1>2, <1>3, <1>4, <1>5, <1>12 DEF Send, Goes, Filled, Current, ebvars
<1>13. ASSUME NEW n \in Avant, SendFails(n) PROVE DropsOnlyLate'
  BY <1>1, <1>2, <1>3, <1>4, <1>5, <1>13 DEF SendFails, Goes, Filled, Current, ebvars
<1>14. ASSUME NEW n \in Avant, Leave(n) PROVE DropsOnlyLate'
  BY <1>1, <1>2, <1>3, <1>4, <1>5, <1>14 DEF Leave, Goes, Filled, Current, ebvars
<1>15. ASSUME EbDepth PROVE DropsOnlyLate'
  <2>1. CASE Drained
    <3>1. Cardinality(Alive) = 0 /\ IsFiniteSet(Alive)
      BY <2>1, AliveFinite DEF Drained, DepthExact
    <3>2. Alive = {}
      BY <3>1, FS_EmptySet
    <3>3. \A m : m \in Filling' <=> m \in Filling
      BY <1>2, <1>3, <1>15 DEF EbDepth, Filled, Current, avantvars
    <3> QED
      BY <1>5, <1>15, <3>2, <3>3 DEF Alive, EbDepth
  <2>2. CASE ~ Drained
    BY <1>5, <1>15, <2>2 DEF EbDepth
  <2> QED
    BY <2>1, <2>2
<1>16. ASSUME EbEnter \/ EbState \/ EbRecv \/ EbBuild \/ EbSend \/ EbFree \/ EbLeave
      PROVE DropsOnlyLate'
  BY <1>5, <1>16 DEF EbEnter, EbState, EbRecv, EbBuild, EbSend, EbFree, EbLeave
<1>17. ASSUME UNCHANGED <<avantvars, queue, ebvars>> PROVE DropsOnlyLate'
  <2>1. \A m : m \in Filling' <=> m \in Filling
    BY <1>2, <1>3, <1>17 DEF Filled, Current, avantvars
  <2> QED
    BY <1>4, <1>5, <1>17, <2>1 DEF ebvars
<1> QED
  BY <1>6, <1>7, <1>8, <1>9, <1>10, <1>11, <1>12, <1>14, <1>15, <1>16, <1>17, <1>13 DEF Next, AvantStep, EbStep, EbInside, StateMachine, Command, Quit, Join, rest, vars, avantvars, ebvars

--------------------------------------------------------------------------------
\* All parts of the invariant hold in every reachable state.
LEMMA Invariance == Spec => []IInv
<1>1. ASSUME IInv, [Next]_vars PROVE IInv'
  BY <1>1, TypeStep, LocatedStep, DepthStep, DropsStep DEF IInv
<1> QED
  BY InitInv, <1>1, PTL DEF Spec

\* The types, and how the position of each thread inside st_running goes with
\* its socket and the buffer it holds (dtarecbe.cxx:122-235, dteb.cxx:174-394).
THEOREM RunTyping == Spec => []TypeOK
BY Invariance, PTL DEF IInv

\* g_avant_depth is exact for any number of avants (dtarecbe.cxx:38, 158).
THEOREM CounterExact == Spec => []DepthExact
BY Invariance, PTL DEF IInv

\* The builder discards no fragment allocated before it found the pipeline empty
\* (dteb.cxx:220, 394).
THEOREM NoEarlyDrop == Spec => []DropsOnlyLate
BY Invariance, PTL DEF IInv
================================================================================
