--------------------------- MODULE KolThread_proofs ---------------------------
(***************************************************************************)
(* Proofs about KolThread, for any number of threads and any pattern of    *)
(* posts.  The inductive invariant says what each place of a deleter       *)
(* entails (Gone, Fate), that delthread is exclusive (Exclusive), that the *)
(* counter is the number of objects counted less those deleted (Counted),  *)
(* and what the destructor finds (Quiet).                                  *)
(***************************************************************************)
EXTENDS KolThread, FiniteSetTheorems, TLAPS

CountedSet == {p \in Threads : post[p] = "counted"}
FreedSet == {p \in Threads : freed[p] = TRUE}

Unposted == \A p \in Threads : post[p] = "no" => w[p] = "none" /\ d[p] = "none"
Exclusive ==
  \A p, q \in Threads :
    d[p] \in {"locked", "took", "freed"} /\ d[q] \in {"locked", "took", "freed"} => p = q
Gone ==
  \A p \in Threads :
    /\ freed[p] = TRUE => d[p] \in {"freed", "exit"} /\ w[p] = "exit"
    /\ d[p] \in {"freed", "exit"} => freed[p] = TRUE
\* A deleter past TakeId is missed, or to be joined next, or joined once.
Fate ==
  \A p \in Threads :
    /\ d[p] \in {"none", "ready", "locked"} =>
         p \notin missed /\ m_threadid # p /\ joined[p] = 0
    /\ p \in missed => m_threadid # p /\ joined[p] = 0
    /\ m_threadid = p => joined[p] = 0
    /\ d[p] \in {"took", "freed", "exit"} /\ p \notin missed /\ m_threadid # p => joined[p] = 1
Counted == m_running = Cardinality(CountedSet) - Cardinality(FreedSet)
Quiet ==
  main \in {"join", "end"} /\ early = FALSE =>
    \A p \in Threads :
      post[p] = "no" \/ (post[p] = "counted" /\ freed[p] = TRUE /\ d[p] = "exit" /\ w[p] = "exit")
Ended == main = "end" /\ early = FALSE => m_threadid = None

IInv == TypeOK /\ Unposted /\ Exclusive /\ Gone /\ Fate /\ Counted /\ Quiet /\ Ended

USE KolAssumption

\* Before the first post everything is in order.
LEMMA InitHolds == Init => IInv
<1> SUFFICES ASSUME Init PROVE IInv
  OBVIOUS
<1>1. TypeOK
  <2>1. /\ post \in [Threads -> {"no", "started", "counted"}]
        /\ w \in [Threads -> {"none", "run", "store", "exit"}]
        /\ d \in [Threads -> {"none", "ready", "locked", "took", "freed", "exit"}]
        /\ \A p \in Threads : d[p] = "none"
    BY DEF Init
  <2>2. /\ delid \in [Threads -> BOOLEAN] /\ freed \in [Threads -> BOOLEAN]
        /\ joined \in [Threads -> Nat]
    BY DEF Init
  <2>3. m_running \in Int /\ main \in {"post", "wait", "join", "end"}
    BY DEF Init
  <2>4. early \in BOOLEAN
    BY Zenon DEF Init
  <2>5. m_threadid \in Threads \cup {None} /\ missed \subseteq Threads /\ lost \subseteq Threads
    BY Zenon DEF Init
  <2> QED
    BY <2>1, <2>2, <2>3, <2>4, <2>5 DEF TypeOK
<1>2. Unposted /\ Exclusive /\ Gone /\ Fate /\ Quiet /\ Ended
  BY DEF Init, Unposted, Exclusive, Gone, Fate, Quiet, Ended
<1>3. CountedSet = {} /\ FreedSet = {}
  BY DEF Init, CountedSet, FreedSet
<1>4. Counted
  BY <1>3, FS_EmptySet DEF Counted, Init
<1> QED
  BY <1>1, <1>2, <1>4 DEF IInv

\* Every action keeps the types.
LEMMA TypeStep == ASSUME IInv, [Next]_vars PROVE TypeOK'
<1> USE DEF IInv
<1>1. ASSUME NEW p \in Threads, Start(p) PROVE TypeOK'
  BY <1>1 DEF Start, MayPost, TypeOK, Unposted
<1>2. ASSUME NEW p \in Threads, StartFails(p) PROVE TypeOK'
  BY <1>2 DEF StartFails, TypeOK
<1>3. ASSUME NEW p \in Threads, Count(p) PROVE TypeOK'
  BY <1>3 DEF Count, TypeOK
<1>4. ASSUME NEW p \in Threads, Done(p) PROVE TypeOK'
  BY <1>4 DEF Done, AfterRun, TypeOK
<1>5. ASSUME NEW p \in Threads, DoneFails(p) PROVE TypeOK'
  BY <1>5 DEF DoneFails, TypeOK
<1>6. ASSUME NEW p \in Threads, StoreId(p) PROVE TypeOK'
  BY <1>6 DEF StoreId, TypeOK
<1>7. ASSUME NEW p \in Threads, Lock(p) PROVE TypeOK'
  BY <1>7 DEF Lock, TypeOK
<1>8. ASSUME JoinPrevious PROVE joined' \in [Threads -> Nat]
  BY <1>8 DEF JoinPrevious, TypeOK
<1>9. ASSUME NEW p \in Threads, TakeId(p) PROVE TypeOK'
  BY <1>8, <1>9 DEF TakeId, TypeOK
<1>10. ASSUME NEW p \in Threads, Free(p) PROVE TypeOK'
  BY <1>10 DEF Free, Down, TypeOK
<1>11. ASSUME NEW p \in Threads, Unlock(p) PROVE TypeOK'
  BY <1>11 DEF Unlock, TypeOK
<1>12. CASE Destroy
  BY <1>12 DEF Destroy, TypeOK
<1>13. CASE SeeNone
  BY <1>13 DEF SeeNone, TypeOK
<1>14. CASE JoinLast
  BY <1>8, <1>14 DEF JoinLast, TypeOK
<1>15. CASE UNCHANGED vars
  BY <1>15 DEF vars, TypeOK
<1> QED
  BY <1>1, <1>2, <1>3, <1>4, <1>5, <1>6, <1>7, <1>9, <1>10, <1>11, <1>12, <1>13, <1>14, <1>15
  DEF Next, Worker, Deleter, Destructor

\* post, w, d and freed go together, and delthread is exclusive.
LEMMA PlaceStep ==
  ASSUME IInv, [Next]_vars PROVE Unposted' /\ Exclusive' /\ Gone'
<1> USE DEF IInv, TypeOK, Unposted, Exclusive, Gone
<1>1. ASSUME NEW p \in Threads, Start(p) PROVE Unposted' /\ Exclusive' /\ Gone'
  BY <1>1 DEF Start
<1>2. ASSUME NEW p \in Threads, StartFails(p) PROVE Unposted' /\ Exclusive' /\ Gone'
  BY <1>2 DEF StartFails
<1>3. ASSUME NEW p \in Threads, Count(p) PROVE Unposted' /\ Exclusive' /\ Gone'
  BY <1>3 DEF Count
<1>4. ASSUME NEW p \in Threads, Done(p) PROVE Unposted' /\ Exclusive' /\ Gone'
  BY <1>4 DEF Done, AfterRun
<1>5. ASSUME NEW p \in Threads, DoneFails(p) PROVE Unposted' /\ Exclusive' /\ Gone'
  BY <1>5 DEF DoneFails
<1>6. ASSUME NEW p \in Threads, StoreId(p) PROVE Unposted' /\ Exclusive' /\ Gone'
  BY <1>6 DEF StoreId
<1>7. ASSUME NEW p \in Threads, Lock(p) PROVE Unposted' /\ Exclusive' /\ Gone'
  BY <1>7 DEF Lock, MutexFree
<1>8. ASSUME NEW p \in Threads, TakeId(p) PROVE Unposted' /\ Exclusive' /\ Gone'
  BY <1>8 DEF TakeId
<1>9. ASSUME NEW p \in Threads, Free(p) PROVE Unposted' /\ Exclusive' /\ Gone'
  BY <1>9 DEF Free, Exited
<1>10. ASSUME NEW p \in Threads, Unlock(p) PROVE Unposted' /\ Exclusive' /\ Gone'
  BY <1>10 DEF Unlock
<1>11. CASE Destroy \/ SeeNone \/ JoinLast
  BY <1>11 DEF Destroy, SeeNone, JoinLast
<1>12. CASE UNCHANGED vars
  BY <1>12 DEF vars
<1> QED
  BY <1>1, <1>2, <1>3, <1>4, <1>5, <1>6, <1>7, <1>8, <1>9, <1>10, <1>11, <1>12
  DEF Next, Worker, Deleter, Destructor

\* Only TakeId and the destructor's join decide what becomes of a deleter.
LEMMA FateStep == ASSUME IInv, [Next]_vars PROVE Fate'
<1> USE DEF IInv, TypeOK
<1>1. ASSUME NEW p \in Threads, Start(p) \/ StartFails(p) \/ Count(p) \/ DoneFails(p) \/ StoreId(p)
      PROVE  Fate'
  BY <1>1 DEF Start, StartFails, Count, DoneFails, StoreId, Fate
<1>2. ASSUME NEW p \in Threads, Done(p) PROVE Fate'
  BY <1>2 DEF Done, Fate
<1>3. ASSUME NEW p \in Threads, Lock(p) \/ Free(p) \/ Unlock(p) PROVE Fate'
  BY <1>3 DEF Lock, Free, Unlock, Fate
<1>4. ASSUME NEW p \in Threads, TakeId(p) PROVE Fate'
  <2>1. CASE m_threadid = None
    BY <1>4, <2>1 DEF TakeId, JoinPrevious, Fate
  <2>2. CASE m_threadid # None
    <3>1. /\ m_threadid \in Threads /\ m_threadid # p
          /\ d[m_threadid] = "exit" /\ joined[m_threadid] = 0 /\ m_threadid \notin missed
      BY <1>4, <2>2 DEF TakeId, JoinPrevious, Fate
    <3>2. joined' = [joined EXCEPT ![m_threadid] = 1]
      BY <1>4, <2>2, <3>1 DEF TakeId, JoinPrevious
    <3> QED
      BY <1>4, <3>1, <3>2 DEF TakeId, Fate
  <2> QED
    BY <2>1, <2>2
<1>5. CASE JoinLast
  <2>1. CASE m_threadid = None
    BY <1>5, <2>1 DEF JoinLast, JoinPrevious, Fate
  <2>2. CASE m_threadid # None
    <3>1. /\ m_threadid \in Threads
          /\ d[m_threadid] = "exit" /\ joined[m_threadid] = 0 /\ m_threadid \notin missed
      BY <1>5, <2>2 DEF JoinLast, JoinPrevious, Fate
    <3>2. joined' = [joined EXCEPT ![m_threadid] = 1]
      BY <1>5, <2>2, <3>1 DEF JoinLast, JoinPrevious
    <3> QED
      BY <1>5, <3>1, <3>2 DEF JoinLast, Fate
  <2> QED
    BY <2>1, <2>2
<1>6. CASE Destroy \/ SeeNone
  BY <1>6 DEF Destroy, SeeNone, Fate
<1>7. CASE UNCHANGED vars
  BY <1>7 DEF vars, Fate
<1> QED
  BY <1>1, <1>2, <1>3, <1>4, <1>5, <1>6, <1>7 DEF Next, Worker, Deleter, Destructor

LEMMA Finite == IsFiniteSet(CountedSet) /\ IsFiniteSet(FreedSet)
BY FS_Subset DEF CountedSet, FreedSet

\* Count adds one object to those counted, Free one to those deleted.
LEMMA CountStep == ASSUME IInv, [Next]_vars PROVE Counted'
<1> USE DEF IInv
<1>0. /\ IsFiniteSet(CountedSet) /\ IsFiniteSet(FreedSet)
      /\ Cardinality(CountedSet) \in Nat /\ Cardinality(FreedSet) \in Nat
  BY Finite, FS_CardinalityType
<1>1. ASSUME NEW p \in Threads, Count(p) PROVE Counted'
  <2>1. p \notin CountedSet /\ CountedSet' = CountedSet \cup {p} /\ FreedSet' = FreedSet
    BY <1>1 DEF Count, CountedSet, FreedSet, TypeOK
  <2>2. Cardinality(CountedSet') = Cardinality(CountedSet) + 1
    BY <1>0, <2>1, FS_AddElement
  <2> QED
    BY <1>0, <1>1, <2>1, <2>2 DEF Count, Counted
<1>2. ASSUME NEW p \in Threads, Free(p) PROVE Counted'
  <2>1. p \notin FreedSet /\ FreedSet' = FreedSet \cup {p} /\ CountedSet' = CountedSet
    BY <1>2 DEF Free, CountedSet, FreedSet, TypeOK, Gone
  <2>2. Cardinality(FreedSet') = Cardinality(FreedSet) + 1
    BY <1>0, <2>1, FS_AddElement
  <2> QED
    BY <1>0, <1>2, <2>1, <2>2 DEF Free, Down, Counted
<1>3. ASSUME CountedSet' = CountedSet, FreedSet' = FreedSet, m_running' = m_running PROVE Counted'
  BY <1>3 DEF Counted
<1>4. ASSUME NEW p \in Threads, Start(p) \/ StartFails(p) PROVE Counted'
  <2>1. CountedSet' = CountedSet /\ FreedSet' = FreedSet /\ m_running' = m_running
    BY <1>4 DEF Start, StartFails, CountedSet, FreedSet, TypeOK
  <2> QED
    BY <1>3, <2>1
<1>5. ASSUME UNCHANGED <<post, freed, m_running>> PROVE Counted'
  BY <1>3, <1>5 DEF CountedSet, FreedSet
<1>6. ASSUME NEW p \in Threads,
             Done(p) \/ DoneFails(p) \/ StoreId(p) \/ Lock(p) \/ TakeId(p) \/ Unlock(p)
      PROVE  Counted'
  BY <1>5, <1>6 DEF Done, DoneFails, StoreId, Lock, TakeId, Unlock
<1>7. CASE Destroy \/ SeeNone \/ JoinLast \/ UNCHANGED vars
  BY <1>5, <1>7 DEF Destroy, SeeNone, JoinLast, vars
<1> QED
  BY <1>1, <1>2, <1>4, <1>6, <1>7 DEF Next, Worker, Deleter, Destructor

\* A count of 0 with no post half done: every object that was counted is deleted.
LEMMA AllFreed ==
  ASSUME IInv, m_running = 0, \A p \in Threads : post[p] # "started"
  PROVE  CountedSet = FreedSet
<1> USE DEF IInv
<1>1. FreedSet \subseteq CountedSet
  BY DEF FreedSet, CountedSet, Gone, Unposted, TypeOK
<1>2. /\ IsFiniteSet(CountedSet) /\ IsFiniteSet(FreedSet)
      /\ Cardinality(CountedSet) \in Nat /\ Cardinality(FreedSet) \in Nat
  BY Finite, FS_CardinalityType
<1>3. Cardinality(CountedSet) = Cardinality(FreedSet)
  BY <1>2 DEF Counted
<1> QED
  BY <1>1, <1>2, <1>3, FS_Subset

\* The destructor leaves its loop with everything at rest, and so it stays.
LEMMA QuietStep == ASSUME IInv, [Next]_vars PROVE Quiet' /\ Ended'
<1> USE DEF IInv
<1>1. CASE SeeNone
  <2>1. ASSUME early' = FALSE PROVE Quiet'
    <3>1. CountedSet = FreedSet
      BY <1>1, <2>1, AllFreed DEF SeeNone, NoneRunning
    <3>2. \A p \in Threads :
            post[p] = "no" \/ (post[p] = "counted" /\ freed[p] = TRUE)
      BY <1>1, <2>1, <3>1 DEF SeeNone, CountedSet, FreedSet, TypeOK
    <3> QED
      BY <1>1, <3>2 DEF SeeNone, Quiet, Gone, MutexFree
  <2>2. Quiet'
    BY <2>1 DEF Quiet
  <2> QED
    BY <1>1, <2>2 DEF SeeNone, Ended
<1>2. CASE Destroy
  BY <1>2 DEF Destroy, Quiet, Ended
<1>3. CASE JoinLast
  BY <1>3 DEF JoinLast, Quiet, Ended
<1>4. CASE UNCHANGED vars
  BY <1>4 DEF vars, Quiet, Ended
<1>5. ASSUME NEW p \in Threads, Start(p) \/ StartFails(p) \/ Worker(p) \/ Deleter(p)
      PROVE  Quiet' /\ Ended'
  <2>1. main' = main /\ early' = early
    BY <1>5 DEF Start, StartFails, Worker, Count, Done, DoneFails, StoreId,
                Deleter, Lock, TakeId, Free, Unlock
  <2>2. ASSUME main \in {"join", "end"}, early = FALSE PROVE FALSE
    <3>1. \A q \in Threads : w[q] \in {"none", "exit"} /\ d[q] \in {"none", "exit"}
                             /\ post[q] # "started"
      BY <2>2 DEF Quiet, Unposted, TypeOK
    <3>2. ~MayPost(Poster[p])
      BY <2>2, <3>1 DEF MayPost
    <3> QED
      BY <1>5, <3>1, <3>2 DEF Start, StartFails, Worker, Count, Done, DoneFails, StoreId,
                              Deleter, Lock, TakeId, Free, Unlock
  <2> QED
    BY <2>1, <2>2 DEF Quiet, Ended
<1> QED
  BY <1>1, <1>2, <1>3, <1>4, <1>5 DEF Next, Destructor

LEMMA StepHolds == IInv /\ [Next]_vars => IInv'
BY TypeStep, PlaceStep, FateStep, CountStep, QuietStep DEF IInv

THEOREM Invariant == Spec => []IInv
<1> QED
  BY InitHolds, StepHolds, PTL DEF Spec

\* Types of the objects, their threads, their deleters and the controller.
THEOREM ThreadTyping == Spec => []TypeOK
<1>1. IInv => TypeOK
  BY DEF IInv
<1> QED
  BY <1>1, Invariant, PTL

\* kolthread.cpp's delthread deletes an object only when its thread has ended.
THEOREM NoDangling == Spec => []NoUseAfterFree
<1>1. IInv => NoUseAfterFree
  BY DEF IInv, Gone, NoUseAfterFree, TypeOK
<1> QED
  BY <1>1, Invariant, PTL

\* No deleter is joined twice; those that are never joined are the ones whose id
\* delthread read too early.
THEOREM OneJoin == Spec => []JoinedOnce
<1>1. IInv => JoinedOnce
  <2> SUFFICES ASSUME IInv, early = FALSE, NEW p \in Threads
               PROVE  /\ joined[p] <= 1
                      /\ main = "end" /\ d[p] # "none" => (joined[p] = 0 <=> p \in missed)
    BY DEF JoinedOnce, IInv, TypeOK
  <2>1. joined[p] \in {0, 1}
    BY DEF IInv, Fate, TypeOK
  <2>2. ASSUME main = "end", d[p] # "none" PROVE joined[p] = 0 <=> p \in missed
    <3>1. d[p] = "exit" /\ m_threadid # p
      BY <2>2 DEF IInv, Quiet, Ended, Unposted
    <3> QED
      BY <3>1 DEF IInv, Fate
  <2> QED
    BY <2>1, <2>2
<1> QED
  BY <1>1, Invariant, PTL

\* Unless the destructor saw 0 while a post was half done, it leaves no object
\* behind and none is posted after it.
THEOREM LastOut == Spec => []DestroyedLast
<1>1. IInv => DestroyedLast
  BY DEF IInv, Quiet, DestroyedLast, Alive, Uncounted, TypeOK
<1> QED
  BY <1>1, Invariant, PTL
=============================================================================
