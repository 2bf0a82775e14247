------------------------------ MODULE KolThread ------------------------------
(***************************************************************************)
(* kol/kolthread.cpp: a ThreadController runs Thread objects that delete   *)
(* themselves.  post() starts a thread and counts it.  When its run() has  *)
(* returned, done() starts a second thread, the deleter, that joins the    *)
(* first, deletes the object and counts it down.  A deleter is joined by   *)
(* the deleter that comes after it, the last one by the destructor.        *)
(*                                                                         *)
(* Every access to shared data outside m_mutex is a step; a section under  *)
(* m_mutex is one step, except that of the deleter, which waits in it.     *)
(***************************************************************************)
EXTENDS Integers, FiniteSets

CONSTANTS Threads,   \* the Thread objects
          Main,      \* the thread that owns the controller
          Poster,    \* per object, who posts it: Main, or a thread in its run()
          None       \* no thread id

ASSUME KolAssumption ==
  /\ IsFiniteSet(Threads)
  /\ Main \notin Threads /\ None \notin Threads
  /\ Poster \in [Threads -> Threads \cup {Main}]

VARIABLES post,      \* per object: "no", "started" (not yet counted), "counted"
          w,         \* its thread: "none", "run", "store" (in done(), the deleter runs), "exit"
          d,         \* its deleter: "none", "ready", "locked", "took", "freed", "exit"
          delid,     \* m_delthreadid: has done() stored the id of the deleter
          freed,     \* has the object been deleted
          m_running, m_threadid,
          main,      \* "post", "wait" (the loop of the destructor), "join", "end"
          joined,    \* history: how often the deleter was joined
          missed,    \* history: deleters whose id was read before it was stored
          lost,      \* history: objects for which no thread or no deleter could be created
          early      \* history: the destructor saw 0 while a post was half done

vars == <<post, w, d, delid, freed, m_running, m_threadid, main, joined, missed,
          lost, early>>

Init ==
  /\ post = [p \in Threads |-> "no"]
  /\ w = [p \in Threads |-> "none"]
  /\ d = [p \in Threads |-> "none"]
  /\ delid = [p \in Threads |-> FALSE]
  /\ freed = [p \in Threads |-> FALSE]
  /\ m_running = 0 /\ m_threadid = None
  /\ main = "post"
  /\ joined = [p \in Threads |-> 0]
  /\ missed = {} /\ lost = {} /\ early = FALSE

\* Nobody is in the section of delthread.
MutexFree == \A p \in Threads : d[p] \notin {"locked", "took", "freed"}

\* The half-done posts of thread x.
Posting(x) == \E q \in Threads : Poster[q] = x /\ post[q] = "started"

\* A poster makes one call at a time.
MayPost(x) ==
  /\ ~Posting(x)
  /\ IF x = Main THEN main = "post" ELSE w[x] = "run"

(***************************************************************************)
(* post                                                                    *)
(***************************************************************************)
Start(p) ==
  /\ post[p] = "no" /\ MayPost(Poster[p])
  /\ post' = [post EXCEPT ![p] = "started"]
  /\ w' = [w EXCEPT ![p] = "run"]
  /\ UNCHANGED <<d, delid, freed, m_running, m_threadid, main, joined, missed, lost, early>>

\* pthread_create fails, which post() does not look at: the object is counted and
\* will never be done.
StartFails(p) ==
  /\ post[p] = "no" /\ MayPost(Poster[p])
  /\ post' = [post EXCEPT ![p] = "started"]
  /\ lost' = lost \cup {p}
  /\ UNCHANGED <<w, d, delid, freed, m_running, m_threadid, main, joined, missed, early>>

Count(p) ==
  /\ post[p] = "started" /\ MutexFree
  /\ post' = [post EXCEPT ![p] = "counted"]
  /\ m_running' = m_running + 1
  /\ UNCHANGED <<w, d, delid, freed, m_threadid, main, joined, missed, lost, early>>

(***************************************************************************)
(* start_routine: run() returns, then done()                               *)
(***************************************************************************)
\* run() has returned; and it has not.
AfterRun_early == "run"
AfterRun == "store"

Done(p) ==
  /\ w[p] = "run" /\ ~Posting(p)
  /\ w' = [w EXCEPT ![p] = AfterRun]
  /\ d' = [d EXCEPT ![p] = "ready"]
  /\ UNCHANGED <<post, delid, freed, m_running, m_threadid, main, joined, missed, lost, early>>

\* pthread_create fails: nobody will delete the object or count it down.
DoneFails(p) ==
  /\ w[p] = "run" /\ ~Posting(p)
  /\ w' = [w EXCEPT ![p] = "exit"]
  /\ lost' = lost \cup {p}
  /\ UNCHANGED <<post, d, delid, freed, m_running, m_threadid, main, joined, missed, early>>

StoreId(p) ==
  /\ w[p] = "store"
  /\ delid' = [delid EXCEPT ![p] = TRUE]
  /\ w' = [w EXCEPT ![p] = "exit"]
  /\ UNCHANGED <<post, d, freed, m_running, m_threadid, main, joined, missed, lost, early>>

(***************************************************************************)
(* ctrl_routine, delthread                                                 *)
(***************************************************************************)
Lock(p) ==
  /\ d[p] = "ready" /\ MutexFree
  /\ d' = [d EXCEPT ![p] = "locked"]
  /\ UNCHANGED <<post, w, delid, freed, m_running, m_threadid, main, joined, missed, lost, early>>

\* join() of the previous deleter, if there is one to join; and that join left out.
JoinPrevious_not == joined' = joined
JoinPrevious ==
  \/ m_threadid = None /\ joined' = joined
  \/ /\ m_threadid # None /\ d[m_threadid] = "exit"
     /\ joined' = [joined EXCEPT ![m_threadid] = @ + 1]

\* join(), closeid(), and the id of this deleter read from the object.
TakeId(p) ==
  /\ d[p] = "locked" /\ JoinPrevious
  /\ d' = [d EXCEPT ![p] = "took"]
  /\ m_threadid' = IF delid[p] THEN p ELSE None
  /\ missed' = IF delid[p] THEN missed ELSE missed \cup {p}
  /\ UNCHANGED <<post, w, delid, freed, m_running, main, lost, early>>

\* What p->join() waits for; and no wait.
Exited_any(p) == TRUE
Exited(p) == w[p] = "exit"
\* --m_running; and that forgotten.
Down_not == m_running
Down == m_running - 1

\* p->join(), delete p, --m_running.
Free(p) ==
  /\ d[p] = "took" /\ Exited(p)
  /\ d' = [d EXCEPT ![p] = "freed"]
  /\ freed' = [freed EXCEPT ![p] = TRUE]
  /\ m_running' = Down
  /\ UNCHANGED <<post, w, delid, m_threadid, main, joined, missed, lost, early>>

Unlock(p) ==
  /\ d[p] = "freed"
  /\ d' = [d EXCEPT ![p] = "exit"]
  /\ UNCHANGED <<post, w, delid, freed, m_running, m_threadid, main, joined, missed, lost, early>>

(***************************************************************************)
(* ~ThreadController, in the thread Main                                   *)
(***************************************************************************)
Destroy ==
  /\ main = "post" /\ ~Posting(Main)
  /\ main' = "wait"
  /\ UNCHANGED <<post, w, d, delid, freed, m_running, m_threadid, joined, missed, lost, early>>

\* numrunning() returns 0; and a test that is one off.
NoneRunning_one == m_running <= 1
NoneRunning == m_running = 0

SeeNone ==
  /\ main = "wait" /\ MutexFree /\ NoneRunning
  /\ main' = "join"
  /\ early' = (\E p \in Threads : post[p] = "started")
  /\ UNCHANGED <<post, w, d, delid, freed, m_running, m_threadid, joined, missed, lost>>

JoinLast ==
  /\ main = "join" /\ JoinPrevious
  /\ m_threadid' = None
  /\ main' = "end"
  /\ UNCHANGED <<post, w, d, delid, freed, m_running, missed, lost, early>>

Worker(p) == Count(p) \/ Done(p) \/ DoneFails(p) \/ StoreId(p)
Deleter(p) == Lock(p) \/ TakeId(p) \/ Free(p) \/ Unlock(p)
Destructor == SeeNone \/ JoinLast

Next ==
  \/ \E p \in Threads : Start(p) \/ StartFails(p) \/ Worker(p) \/ Deleter(p)
  \/ Destroy \/ Destructor

Spec == Init /\ [][Next]_vars

\* Threads are scheduled and run() returns; the mutex is fair enough that a thread
\* that asks for it again and again gets it.
FairSpec ==
  /\ Spec
  /\ \A p \in Threads : SF_vars(Count(p)) /\ WF_vars(Done(p) \/ DoneFails(p))
                        /\ WF_vars(StoreId(p)) /\ SF_vars(Lock(p)) /\ WF_vars(TakeId(p))
                        /\ WF_vars(Free(p)) /\ WF_vars(Unlock(p))
  /\ SF_vars(SeeNone) /\ WF_vars(JoinLast)
-----------------------------------------------------------------------------
Alive == {p \in Threads : post[p] # "no" /\ ~freed[p]}
Uncounted == {p \in Threads : post[p] = "started"}

TypeOK ==
  /\ post \in [Threads -> {"no", "started", "counted"}]
  /\ w \in [Threads -> {"none", "run", "store", "exit"}]
  /\ d \in [Threads -> {"none", "ready", "locked", "took", "freed", "exit"}]
  /\ delid \in [Threads -> BOOLEAN]
  /\ freed \in [Threads -> BOOLEAN]
  /\ m_running \in Int
  /\ m_threadid \in Threads \cup {None}
  /\ main \in {"post", "wait", "join", "end"}
  /\ joined \in [Threads -> Nat]
  /\ missed \subseteq Threads /\ lost \subseteq Threads
  /\ early \in BOOLEAN
  /\ \A p \in Threads : d[p] # "none" => w[p] \in {"store", "exit"}

\* post() starts a thread before it counts it (kolthread.cpp:314), so m_running is
\* short by the posts that are half done, and may be negative: the destructor must
\* not take it for the number of threads.  When it does see 0 and no post is half
\* done, every object posted has been deleted and none will be posted.
DestroyedLast ==
  main \in {"join", "end"} /\ ~early => Alive = {} /\ Uncounted = {}

\* No deleter is joined twice, and when a controller was destroyed in good order
\* every deleter has been joined, except those whose id delthread read before
\* done() had stored it (kolthread.cpp:301): these leak.
JoinedOnce ==
  ~early =>
    \A p \in Threads :
      /\ joined[p] <= 1
      /\ main = "end" /\ d[p] # "none" => (joined[p] = 0 <=> p \in missed)

\* The thread of an object still writes to it in done() while its deleter runs; the
\* object is not deleted before that thread has ended.
NoUseAfterFree == \A p \in Threads : freed[p] => w[p] = "exit" /\ d[p] \in {"freed", "exit"}

\* The destructor comes to its end, unless some thread could not be created: nobody
\* counts its object down, and neither post() nor start_routine looks at the failure.
DestructorEnds == main = "wait" ~> (main = "end" \/ lost # {})
=============================================================================
