-------------------------------- MODULE DAQTask --------------------------------
(***************************************************************************)
(* The DAQ task class (src/daqtask.cxx): every task is a thread that runs  *)
(* state_machine(), and all of them follow one static variable, c_state,   *)
(* which the main thread sets.  There is no lock: each access below is a   *)
(* step of its own.  What the handlers st_init, st_idle, st_running and    *)
(* st_end do is left to the modules that extend this one; here they are    *)
(* the places where a thread is.                                           *)
(***************************************************************************)
EXTENDS Integers, Sequences, FiniteSets

CONSTANT Task       \* the tasks of the program

VARIABLES
    c_state,        \* the state all tasks are asked to be in
    pc,             \* where each thread is
    m_is_done,      \* per task: the last st_init has finished
    m_is_good       \* per task: st_init has not failed (uninitialised at first)

taskvars == <<c_state, pc, m_is_done, m_is_good>>

RunState == {"SM_INIT", "SM_IDLE", "SM_RUNNING", "SM_END", "SM_EXIT"}
Handlers == {"idle", "running", "end"}
Places == Handlers \cup {"new", "switch", "test", "init", "done", "check", "stopped"}

TaskTypeOK ==
    /\ c_state \in RunState
    /\ pc \in [Task -> Places]
    /\ m_is_done \in [Task -> BOOLEAN]
    /\ m_is_good \in [Task -> BOOLEAN]

TaskInit ==
    /\ c_state = "SM_INIT"
    /\ pc = [t \in Task |-> "new"]
    /\ m_is_done = [t \in Task |-> FALSE]
    /\ m_is_good \in [Task -> BOOLEAN]

Goto(t, place) == pc' = [pc EXCEPT ![t] = place]

\* `switch (c_state)': the handler of each state; SM_EXIT has none.
Branch == [SM_INIT    |-> "test",
           SM_IDLE    |-> "idle",
           SM_RUNNING |-> "running",
           SM_END     |-> "end",
           SM_EXIT    |-> "check"]

Switch(t) ==
    /\ pc[t] = "switch"
    /\ Goto(t, Branch[c_state])
    /\ UNCHANGED <<c_state, m_is_done, m_is_good>>

\* `if (!m_is_done) st_init(context); else usleep(1000);'
TestDone(t) ==
    /\ pc[t] = "test"
    /\ Goto(t, IF m_is_done[t] THEN "done" ELSE "init")
    /\ UNCHANGED <<c_state, m_is_done, m_is_good>>

\* st_init returns; a task that cannot connect says so in m_is_good.  The st_init
\* of the base class sets m_is_done, those of the programs do not.
StInit(t, good, base) ==
    /\ pc[t] = "init"
    /\ m_is_good' = [m_is_good EXCEPT ![t] = @ /\ good]
    /\ m_is_done' = [m_is_done EXCEPT ![t] = @ \/ base]
    /\ Goto(t, "done")
    /\ UNCHANGED c_state

\* `m_is_done = true;', whether or not st_init was called or succeeded.
SetDone_ifgood(t) ==
    /\ pc[t] = "done"
    /\ m_is_done' = [m_is_done EXCEPT ![t] = m_is_good[t]]
    /\ Goto(t, "check")
    /\ UNCHANGED <<c_state, m_is_good>>
SetDone_never(t) ==
    /\ pc[t] = "done"
    /\ Goto(t, "check")
    /\ UNCHANGED <<c_state, m_is_done, m_is_good>>
SetDone(t) ==
    /\ pc[t] = "done"
    /\ m_is_done' = [m_is_done EXCEPT ![t] = TRUE]
    /\ Goto(t, "check")
    /\ UNCHANGED <<c_state, m_is_good>>

\* st_idle, st_running or st_end returns, with the same difference.
Return(t, base) ==
    /\ pc[t] \in Handlers
    /\ m_is_done' = [m_is_done EXCEPT ![t] = @ \/ base]
    /\ Goto(t, "check")
    /\ UNCHANGED <<c_state, m_is_good>>

\* `if (c_state == SM_EXIT) break;'
Check_end(t) ==
    /\ pc[t] = "check"
    /\ Goto(t, IF c_state = "SM_END" THEN "stopped" ELSE "switch")
    /\ UNCHANGED <<c_state, m_is_done, m_is_good>>
Check(t) ==
    /\ pc[t] = "check"
    /\ Goto(t, IF c_state = "SM_EXIT" THEN "stopped" ELSE "switch")
    /\ UNCHANGED <<c_state, m_is_done, m_is_good>>

\* The member functions main calls.
Run(t) ==
    /\ pc[t] = "new"
    /\ Goto(t, "switch")
    /\ UNCHANGED <<c_state, m_is_done, m_is_good>>
SetState(s) == c_state' = s /\ UNCHANGED <<pc, m_is_done, m_is_good>>
ClearIsDone(t) == /\ m_is_done' = [m_is_done EXCEPT ![t] = FALSE]
                  /\ UNCHANGED <<c_state, pc, m_is_good>>
ClearIsGood(t) == /\ m_is_good' = [m_is_good EXCEPT ![t] = TRUE]
                  /\ UNCHANGED <<c_state, pc, m_is_done>>
================================================================================
