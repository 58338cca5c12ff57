----------------------------- MODULE ClientCall -----------------------------
(***************************************************************************)
(* ClientImpl::getAllActiveStations of src/src/client.cpp: a blocking call *)
(* built from an asynchronous RPC.  The calling thread keeps a mutex, a    *)
(* condition variable, a flag and a status on its stack and hands          *)
(* references to them to a callback gRPC runs on a thread of its own; it   *)
(* waits for the flag, reads the status and returns, which ends the        *)
(* lifetime of all four.  Every calling thread has its own set.            *)
(***************************************************************************)
CONSTANTS Thread,     \* the threads that call the client
          List,       \* the lists of stations a response may hold
          Malformed,  \* a response with a message the Station constructor refuses
          Failed,     \* a status that is not OK
          Unset,      \* the status a grpc::Status has at first: OK, with no response
          Exception   \* the call threw

VARIABLES caller,    \* caller[t]: where the calling thread is
          callback,  \* callback[t]: where the callback of its call is
          holder,    \* holder[t]: who holds the mutex of t's frame
          done,      \* done[t]: the flag
          notified,  \* notified[t]: a notification reached the waiting caller
          frame,     \* frame[t]: the locals of t's call are alive
          verdict,   \* verdict[t]: what gRPC passes to the callback
          status,    \* status[t]: the caller's status
          outcome    \* outcome[t]: how t's last call ended

clientVars == <<caller, callback, holder, done, notified, frame, verdict, status, outcome>>

(***************************************************************************)
(* What an RPC can come to: a status, and the response if it is OK.        *)
(***************************************************************************)
Verdict == List \cup {Malformed, Failed}

ClientInit ==
    /\ caller = [t \in Thread |-> "idle"]
    /\ callback = [t \in Thread |-> "none"]
    /\ holder = [t \in Thread |-> "nobody"]
    /\ done = [t \in Thread |-> FALSE]
    /\ notified = [t \in Thread |-> FALSE]
    /\ frame = [t \in Thread |-> FALSE]
    /\ verdict = [t \in Thread |-> Unset]
    /\ status = [t \in Thread |-> Unset]
    /\ outcome = [t \in Thread |-> Unset]

CallerGoes(t, from, to) ==
    caller[t] = from /\ caller' = [caller EXCEPT ![t] = to]

CallbackGoes(t, from, to) ==
    callback[t] = from /\ callback' = [callback EXCEPT ![t] = to]

(***************************************************************************)
(* The locals are constructed and the RPC is started.                      *)
(***************************************************************************)
Invoke(t) ==
    /\ CallerGoes(t, "idle", "lock")
    /\ callback' = [callback EXCEPT ![t] = "pending"]
    /\ holder' = [holder EXCEPT ![t] = "nobody"]
    /\ done' = [done EXCEPT ![t] = FALSE]
    /\ notified' = [notified EXCEPT ![t] = FALSE]
    /\ frame' = [frame EXCEPT ![t] = TRUE]
    /\ verdict' = [verdict EXCEPT ![t] = Unset]
    /\ status' = [status EXCEPT ![t] = Unset]
    /\ outcome' = [outcome EXCEPT ![t] = Unset]

(***************************************************************************)
(* gRPC (external) has the result and runs the callback.                   *)
(***************************************************************************)
Complete(t) ==
    /\ CallbackGoes(t, "pending", "assign")
    /\ \E v \in Verdict : verdict' = [verdict EXCEPT ![t] = v]
    /\ UNCHANGED <<caller, holder, done, notified, frame, status, outcome>>

(* Mutant: the flag is raised together with the status, before the lock. *)
AssignStatusAndFlag(t) ==
    /\ CallbackGoes(t, "assign", "acquire")
    /\ status' = [status EXCEPT ![t] = verdict[t]]
    /\ done' = [done EXCEPT ![t] = TRUE]
    /\ UNCHANGED <<caller, holder, notified, frame, verdict, outcome>>

(* Mutant: the lambda captures the status by value. *)
AssignCopy(t) ==
    /\ CallbackGoes(t, "assign", "acquire")
    /\ UNCHANGED <<caller, holder, done, notified, frame, verdict, status, outcome>>

AssignStatus(t) ==
    /\ CallbackGoes(t, "assign", "acquire")
    /\ status' = [status EXCEPT ![t] = verdict[t]]
    /\ UNCHANGED <<caller, holder, done, notified, frame, verdict, outcome>>

(* Mutant: the callback takes no lock. *)
AcquireNothing(t) ==
    /\ CallbackGoes(t, "acquire", "set")
    /\ UNCHANGED <<caller, holder, done, notified, frame, verdict, status, outcome>>

AcquireLock(t) ==
    /\ CallbackGoes(t, "acquire", "set")
    /\ holder[t] = "nobody"
    /\ holder' = [holder EXCEPT ![t] = "callback"]
    /\ UNCHANGED <<caller, done, notified, frame, verdict, status, outcome>>

SetDone(t) ==
    /\ CallbackGoes(t, "set", "notify")
    /\ done' = [done EXCEPT ![t] = TRUE]
    /\ UNCHANGED <<caller, holder, notified, frame, verdict, status, outcome>>

(* Mutant: nobody is notified. *)
NotifyNobody(t) ==
    /\ CallbackGoes(t, "notify", "unlock")
    /\ UNCHANGED <<caller, holder, done, notified, frame, verdict, status, outcome>>

(***************************************************************************)
(* cv.notify_one wakes the caller if it waits, and is lost otherwise.      *)
(***************************************************************************)
Notify(t) ==
    /\ CallbackGoes(t, "notify", "unlock")
    /\ notified' = [notified EXCEPT ![t] = @ \/ caller[t] = "waiting"]
    /\ UNCHANGED <<caller, holder, done, frame, verdict, status, outcome>>

Unlock(t) ==
    /\ CallbackGoes(t, "unlock", "none")
    /\ holder' = [holder EXCEPT ![t] = "nobody"]
    /\ UNCHANGED <<caller, done, notified, frame, verdict, status, outcome>>

(***************************************************************************)
(* std::unique_lock, and the lock cv.wait takes again before it returns.   *)
(***************************************************************************)
LockMutex(t) ==
    /\ CallerGoes(t, "lock", "test")
    /\ holder[t] = "nobody"
    /\ holder' = [holder EXCEPT ![t] = "caller"]
    /\ UNCHANGED <<callback, done, notified, frame, verdict, status, outcome>>

(***************************************************************************)
(* while (!done)                                                           *)
(***************************************************************************)
TestDone(t) ==
    /\ CallerGoes(t, "test", IF done[t] THEN "read" ELSE "wait")
    /\ UNCHANGED <<callback, holder, done, notified, frame, verdict, status, outcome>>

(* Mutant: the caller keeps the mutex while it waits. *)
WaitLocked(t) ==
    /\ CallerGoes(t, "wait", "waiting")
    /\ notified' = [notified EXCEPT ![t] = FALSE]
    /\ UNCHANGED <<callback, holder, done, frame, verdict, status, outcome>>

(***************************************************************************)
(* cv.wait releases the mutex and starts to wait in one step.              *)
(***************************************************************************)
Wait(t) ==
    /\ CallerGoes(t, "wait", "waiting")
    /\ holder' = [holder EXCEPT ![t] = "nobody"]
    /\ notified' = [notified EXCEPT ![t] = FALSE]
    /\ UNCHANGED <<callback, done, frame, verdict, status, outcome>>

Wake(t) ==
    /\ notified[t]
    /\ CallerGoes(t, "waiting", "lock")
    /\ UNCHANGED <<callback, holder, done, notified, frame, verdict, status, outcome>>

SpuriousWake(t) ==
    /\ ~notified[t]
    /\ CallerGoes(t, "waiting", "lock")
    /\ UNCHANGED <<callback, holder, done, notified, frame, verdict, status, outcome>>

(***************************************************************************)
(* The caller takes what the status says, returns or throws, and its       *)
(* locals are destroyed, the lock first.  One station message that cannot  *)
(* be converted loses the whole list.                                      *)
(***************************************************************************)
Leave(t) ==
    /\ CallerGoes(t, "read", "idle")
    /\ outcome' = [outcome EXCEPT ![t] =
          IF status[t] \in {Malformed, Failed} THEN Exception ELSE status[t]]
    /\ holder' = [holder EXCEPT ![t] = "nobody"]
    /\ frame' = [frame EXCEPT ![t] = FALSE]
    /\ UNCHANGED <<callback, done, notified, verdict, status>>

CallerStep(t) == LockMutex(t) \/ TestDone(t) \/ Wait(t) \/ Wake(t) \/ Leave(t)

CallbackStep(t) ==
    AssignStatus(t) \/ AcquireLock(t) \/ SetDone(t) \/ Notify(t) \/ Unlock(t)

ClientNext ==
    \E t \in Thread :
        Invoke(t) \/ Complete(t) \/ CallbackStep(t) \/ CallerStep(t) \/ SpuriousWake(t)

ClientSpec == ClientInit /\ [][ClientNext]_clientVars

-----------------------------------------------------------------------------

Inside == {"assign", "acquire", "set", "notify", "unlock"}

ClientTypeOK ==
    /\ caller \in [Thread -> {"idle", "lock", "test", "wait", "waiting", "read"}]
    /\ callback \in [Thread -> Inside \cup {"none", "pending"}]
    /\ holder \in [Thread -> {"nobody", "caller", "callback"}]
    /\ done \in [Thread -> BOOLEAN]
    /\ notified \in [Thread -> BOOLEAN]
    /\ frame \in [Thread -> BOOLEAN]
    /\ verdict \in [Thread -> Verdict \cup {Unset}]
    /\ status \in [Thread -> Verdict \cup {Unset}]
    /\ outcome \in [Thread -> List \cup {Unset, Exception}]

(***************************************************************************)
(* The locals live while the RPC or its callback may still use them: the   *)
(* caller cannot return before the callback has let go of the mutex.       *)
(***************************************************************************)
FrameSafe == \A t \in Thread : callback[t] # "none" => frame[t]

(***************************************************************************)
(* The caller never takes the status a grpc::Status starts with (OK, and   *)
(* an empty list) for the answer, although it is assigned outside the lock.*)
(***************************************************************************)
StatusSeen == \A t \in Thread : caller[t] = "read" => status[t] = verdict[t]

(***************************************************************************)
(* No wake-up is lost: a caller waits unnotified only while the flag is    *)
(* down or the notification is still to come.                              *)
(***************************************************************************)
NoLostWakeup ==
    \A t \in Thread :
        caller[t] = "waiting" /\ ~notified[t] => ~done[t] \/ callback[t] = "notify"

(***************************************************************************)
(* The inductive invariant: who holds the mutex where, and how far the     *)
(* callback has come when the flag is up.                                  *)
(***************************************************************************)
ClientInv ==
    /\ ClientTypeOK
    /\ \A t \in Thread :
        /\ holder[t] = "caller" <=> caller[t] \in {"test", "wait", "read"}
        /\ holder[t] = "callback" <=> callback[t] \in {"set", "notify", "unlock"}
        /\ frame[t] <=> caller[t] # "idle"
        /\ caller[t] = "idle" => callback[t] = "none"
        /\ callback[t] \in {"pending", "assign", "acquire", "set"} => ~done[t]
        /\ callback[t] \in {"notify", "unlock"} => done[t]
        /\ callback[t] \in {"acquire", "set", "notify", "unlock"} => status[t] = verdict[t]
        /\ caller[t] # "idle" /\ callback[t] = "none" => done[t] /\ status[t] = verdict[t]
        /\ caller[t] = "wait" => ~done[t]
        /\ caller[t] = "read" => done[t]
    /\ NoLostWakeup

=============================================================================
