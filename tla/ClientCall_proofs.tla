-------------------------- MODULE ClientCall_proofs --------------------------
(***************************************************************************)
(* The hand-over of src/src/client.cpp is safe for any number of threads,  *)
(* with spurious wake-ups at any moment.                                   *)
(***************************************************************************)
EXTENDS ClientCall, TLAPS

(***************************************************************************)
(* Before any thread calls, the invariant of the hand-over holds.          *)
(***************************************************************************)
LEMMA ClientInitInvariant == ClientInit => ClientInv
BY DEF ClientInit, ClientInv, ClientTypeOK, NoLostWakeup, Inside

(***************************************************************************)
(* One thread's step keeps the invariant of every thread.                  *)
(***************************************************************************)
LEMMA ClientStepInvariant == ClientInv /\ [ClientNext]_clientVars => ClientInv'
<1> SUFFICES ASSUME ClientInv, [ClientNext]_clientVars PROVE ClientInv'
  OBVIOUS
<1> USE DEF ClientInv, ClientTypeOK, NoLostWakeup, Inside
<1>1. CASE UNCHANGED clientVars
  BY <1>1 DEF clientVars
<1>2. ASSUME NEW t \in Thread, Invoke(t) PROVE ClientInv'
  BY <1>2 DEF Invoke, CallerGoes
<1>3. ASSUME NEW t \in Thread, Complete(t) PROVE ClientInv'
  BY <1>3 DEF Complete, CallbackGoes, Verdict
<1>4. ASSUME NEW t \in Thread, AssignStatus(t) PROVE ClientInv'
  BY <1>4 DEF AssignStatus, CallbackGoes
<1>5. ASSUME NEW t \in Thread, AcquireLock(t) PROVE ClientInv'
  BY <1>5 DEF AcquireLock, CallbackGoes
<1>6. ASSUME NEW t \in Thread, SetDone(t) PROVE ClientInv'
  BY <1>6 DEF SetDone, CallbackGoes
<1>7. ASSUME NEW t \in Thread, Notify(t) PROVE ClientInv'
  BY <1>7 DEF Notify, CallbackGoes
<1>8. ASSUME NEW t \in Thread, Unlock(t) PROVE ClientInv'
  BY <1>8 DEF Unlock, CallbackGoes
<1>9. ASSUME NEW t \in Thread, LockMutex(t) PROVE ClientInv'
  BY <1>9 DEF LockMutex, CallerGoes
<1>10. ASSUME NEW t \in Thread, TestDone(t) PROVE ClientInv'
  BY <1>10 DEF TestDone, CallerGoes
<1>11. ASSUME NEW t \in Thread, Wait(t) PROVE ClientInv'
  BY <1>11 DEF Wait, CallerGoes
<1>12. ASSUME NEW t \in Thread, Wake(t) PROVE ClientInv'
  BY <1>12 DEF Wake, CallerGoes
<1>13. ASSUME NEW t \in Thread, SpuriousWake(t) PROVE ClientInv'
  BY <1>13 DEF SpuriousWake, CallerGoes
<1>14. ASSUME NEW t \in Thread, Leave(t) PROVE ClientInv'
  BY <1>14 DEF Leave, CallerGoes, Verdict
<1>15. QED
  BY <1>1, <1>2, <1>3, <1>4, <1>5, <1>6, <1>7, <1>8, <1>9, <1>10, <1>11, <1>12,
     <1>13, <1>14 DEF ClientNext, CallerStep, CallbackStep

(***************************************************************************)
(* Every reachable state of the call meets the inductive invariant: who    *)
(* holds the mutex where, and how far the callback has come when the flag  *)
(* is up.                                                                  *)
(***************************************************************************)
THEOREM ClientInvariantHolds == ClientSpec => []ClientInv
BY ClientInitInvariant, ClientStepInvariant, PTL DEF ClientSpec

(***************************************************************************)
(* The callback never outlives the stack frame it refers to.               *)
(***************************************************************************)
THEOREM FrameStaysSafe == ClientSpec => []FrameSafe
<1>1. ClientInv => FrameSafe
  BY DEF ClientInv, ClientTypeOK, FrameSafe
<1>2. QED
  BY <1>1, ClientInvariantHolds, PTL

(***************************************************************************)
(* The caller reads the status the callback assigned.                      *)
(***************************************************************************)
THEOREM StatusIsSeen == ClientSpec => []StatusSeen
<1>1. ASSUME ClientInv, NEW t \in Thread, caller[t] = "read"
      PROVE  status[t] = verdict[t]
  <2>1. done[t] /\ callback[t] \notin {"pending", "assign", "acquire", "set"}
    BY <1>1 DEF ClientInv
  <2>2. callback[t] \in {"notify", "unlock", "none"}
    BY <2>1, <1>1 DEF ClientInv, ClientTypeOK, Inside
  <2>3. QED
    BY <1>1, <2>2 DEF ClientInv
<1>2. ClientInv => StatusSeen
  BY <1>1 DEF StatusSeen
<1>3. QED
  BY <1>2, ClientInvariantHolds, PTL

(***************************************************************************)
(* No interleaving of the callback and the wait loses the wake-up.         *)
(***************************************************************************)
THEOREM WakeupIsNotLost == ClientSpec => []NoLostWakeup
<1>1. ClientInv => NoLostWakeup
  BY DEF ClientInv
<1>2. QED
  BY <1>1, ClientInvariantHolds, PTL
=============================================================================
