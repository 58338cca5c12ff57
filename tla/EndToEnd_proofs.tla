---------------------------- MODULE EndToEnd_proofs ----------------------------
(***************************************************************************)
(* The client, the server and the loaders together keep the promise of     *)
(* StationQuery, for any number of calling threads, other requests,        *)
(* loaders and faults.                                                     *)
(***************************************************************************)
EXTENDS EndToEnd, StationService_proofs, ClientCall_proofs

(***************************************************************************)
(* What the server, the loaders and the transport do is what they do in    *)
(* StationService ...                                                      *)
(***************************************************************************)
LEMMA ServerSideSteps == EndToEndNext => [ServiceNext]_allVars
<1> SUFFICES ASSUME EndToEndNext PROVE [ServiceNext]_allVars
  OBVIOUS
<1>1. CASE ServerSide
  BY <1>1 DEF ServerSide, ServiceNext
<1>2. ASSUME NEW t \in Thread, Arrive(t) \/ Reply(t) PROVE ServiceNext
  <2>1. t \in Call
    BY EndToEndAssumption
  <2>2. BeginCall(t) \/ EndCall(t)
    BY <1>2 DEF Arrive, Reply, BeginCall
  <2>3. QED
    BY <2>1, <2>2 DEF ServiceNext
<1>3. CASE UNCHANGED allVars
  BY <1>3
<1>4. QED
  BY <1>1, <1>2, <1>3 DEF EndToEndNext, Transport, Unavailable, ReturnList

(***************************************************************************)
(* ... and the client's part is a step of ClientCall.                      *)
(***************************************************************************)
LEMMA ClientSideSteps == EndToEndNext => [ClientNext]_clientVars
<1> SUFFICES ASSUME EndToEndNext PROVE [ClientNext]_clientVars
  OBVIOUS
<1>1. ASSUME NEW t \in Thread, Transport(t) \/ ReturnList(t) PROVE [ClientNext]_clientVars
  BY <1>1 DEF Transport, Arrive, Reply, Unavailable, ReturnList, ClientNext, CallerStep
<1>2. ASSUME NEW t \in Thread, Invoke(t) \/ Waiting(t) \/ SpuriousWake(t) \/ CallbackStep(t)
      PROVE  ClientNext
  BY <1>2 DEF Waiting, ClientNext, CallerStep
<1>3. QED
  BY <1>1, <1>2 DEF EndToEndNext

(***************************************************************************)
(* A server that has just loaded a region the table takes is in a state    *)
(* the invariant of the loading describes.                                 *)
(***************************************************************************)
LEMMA LoadedInvariant == EndToEndInit => LoadInv
<1> SUFFICES ASSUME EndToEndInit PROVE LoadInv
  OBVIOUS
<1>0. /\ server \in Process /\ Batch[server] \in Seq(Station) /\ MaxFaults \in Nat
      /\ WellKeyed(Region) /\ Region \cap (Unkeyed \cup Unlocated) = {}
  BY ServiceAssumption, LoaderAssumption, EndToEndAssumption
<1>1. Region \subseteq Station
  BY <1>0 DEF Region
<1>2. TypeOK
  <2>1. FileTypeOK
    BY <1>1 DEF EndToEndInit, FileTypeOK, LockLevel, Table
  <2>2. Len(Batch[server]) + 1 \in Nat \ {0}
    BY <1>0
  <2>3. AtItem
    BY DEF EndToEndInit, AtItem, Working
  <2>4. QED
    BY <1>0, <2>1, <2>2, <2>3 DEF EndToEndInit, TypeOK, Label
<1>3. LockExclusion /\ JournalQuiet /\ LockDiscipline /\ FileOpened /\ SchemaKnown
  BY DEF EndToEndInit, LockExclusion, OtherHolds, JournalQuiet, LockDiscipline, FileOpened,
     SchemaKnown, Working
<1>4. StoreConsistent
  BY <1>0 DEF EndToEndInit, StoreConsistent
<1>5. CheckedAtCommit /\ PresentSettled /\ GettersPassed
  BY DEF EndToEndInit, CheckedAtCommit, PresentSettled, GettersPassed, Working, Inserting
<1>6. SettledOrWarned
  <2> SUFFICES ASSUME NEW i \in 1..Len(Batch[server])
               PROVE  Exists(rows, Batch[server][i])
    BY DEF EndToEndInit, SettledOrWarned
  <2> DEFINE s == Batch[server][i]
  <2>1. s \in rows /\ s \in Station
    BY <1>1 DEF EndToEndInit, Region
  <2>2. Covers(s, s)
    BY <2>1, StationAssumption DEF Covers
  <2>3. QED
    BY <2>1, <2>2 DEF Exists
<1>7. HalfFilledNeverStored
  BY <1>0 DEF EndToEndInit, HalfFilledNeverStored
<1>8. DoneMeansThrough
  BY <1>0 DEF EndToEndInit, DoneMeansThrough
<1>9. QED
  BY <1>2, <1>3, <1>4, <1>5, <1>6, <1>7, <1>8 DEF LoadInv

(***************************************************************************)
(* Before anything has happened the invariant holds.                       *)
(***************************************************************************)
LEMMA EndToEndInitInvariant == EndToEndInit => EndToEndInv
<1> SUFFICES ASSUME EndToEndInit PROVE EndToEndInv
  OBVIOUS
<1>1. LoadInv /\ TypeOK
  BY LoadedInvariant DEF LoadInv
<1>2. call \in [Call -> HandlerState] /\ HandlersOK
  BY NoCallOK DEF EndToEndInit, HandlersOK
<1>3. ServiceTypeOK
  BY <1>1, <1>2, ServiceAssumption DEF EndToEndInit, ServiceTypeOK
<1>4. ReaderReleases /\ StartUpOrder /\ ServingPrepared
  BY DEF EndToEndInit, ReaderReleases, StartUpOrder, ServingPrepared
<1>5. ClientInv
  BY ClientInitInvariant DEF EndToEndInit
<1>6. JoinInv
  BY EndToEndAssumption DEF EndToEndInit, ClientInit, JoinInv, Joined, NoCall
<1>7. QED
  BY <1>1, <1>2, <1>3, <1>4, <1>5, <1>6 DEF EndToEndInv, ServiceInv

(***************************************************************************)
(* The reply of a handler that had no mishap is what it saw.               *)
(***************************************************************************)
LEMMA RepliedAll ==
    ASSUME EndToEndInv, NEW t \in Thread, call[t].at # "free"
    PROVE  /\ call[t].at = "replied" /\ call[t].mishap = "none" =>
                 call[t].got = call[t].seen
           /\ call[t].mishap = "none" => call[t].got \subseteq call[t].seen
           /\ call[t].got \in SUBSET Station /\ call[t].seen \in SUBSET Station
<1>1. /\ ServiceInv /\ t \in Call /\ call[t].want = All /\ All # Blank
      /\ call[t] \in HandlerState /\ HandlerOK(call[t])
  BY EndToEndAssumption, ServiceAssumption, HandlerFacts DEF EndToEndInv, JoinInv, Joined
<1>2. QED
  BY <1>1 DEF HandlerState, HandlerOK, Faithful, Wanted

(***************************************************************************)
(* One step of the handler of t's request: it reads the file and changes   *)
(* nothing but its own slot; what it has seen gets less, but for the       *)
(* moment it looks at the table.                                           *)
(***************************************************************************)
LEMMA HandlerLooks ==
    ASSUME EndToEndInv, NEW t \in Thread, Answering(t) \/ HandlerErrs(t)
    PROVE  /\ UNCHANGED <<rows, now>>
           /\ \A u \in Thread \ {t} : call'[u] = call[u]
           /\ call[t].at # "free" /\ call'[t].at \notin {"free", "query"}
           /\ call'[t].want = call[t].want
           /\ \/ Basis(t)' \subseteq Basis(t)
              \/ Basis(t) = {} /\ Basis(t)' = Running
<1>0. /\ t \in Call /\ Thread \subseteq Call /\ call \in [Call -> HandlerState]
      /\ call[t] \in HandlerState /\ HandlerOK(call[t])
  BY EndToEndAssumption, HandlerFacts DEF EndToEndInv, ServiceInv, ServiceTypeOK
<1>1. UNCHANGED <<rows, now>>
  BY DEF Answering, RejectArguments, OpenScan, ScanBusy, ScanRow, ScanEnd, Finish, HandlerErrs,
     QueryBreaks, ScanBreaks, QueryThrows, vars, fileVars
<1>2. PICK h : Become(t, h)
  BY DEF Answering, RejectArguments, OpenScan, ScanBusy, ScanRow, ScanEnd, Finish, HandlerErrs,
     QueryBreaks, ScanBreaks, QueryThrows
<1>3. call'[t] = h /\ \A u \in Thread \ {t} : call'[u] = call[u]
  BY <1>0, <1>2 DEF Become
<1>4. call[t].at # "free"
  BY DEF Answering, RejectArguments, OpenScan, ScanBusy, ScanRow, ScanEnd, Finish, HandlerErrs,
     QueryBreaks, ScanBreaks, QueryThrows, Handler
<1>5. /\ call[t].want = All /\ All # Blank
      /\ call[t].at = "query" => call[t].seen = {}
      /\ call[t].mishap = "none" => call[t].got \subseteq call[t].seen
  BY <1>4, RepliedAll, ServiceAssumption DEF EndToEndInv, JoinInv, Joined
<1>6. CASE OpenScan(t)
  <2>1. call'[t] = [Asked(t) EXCEPT !.at = "scan"]
    BY <1>0, <1>6 DEF OpenScan, Become
  <2>2. call[t].mishap = "none" /\ call[t].at = "query"
    BY <1>0, <1>6 DEF OpenScan, Handler, HandlerOK
  <2>3. QED
    BY <1>0, <1>1, <1>3, <1>4, <1>5, <2>1, <2>2 DEF Basis, Asked, HandlerState
<1>7. CASE ScanBusy(t)
  <2>1. call'[t] = [Asked(t) EXCEPT !.at = "finish", !.mishap = "busy"]
    BY <1>0, <1>7 DEF ScanBusy, Become
  <2>2. call[t].got = {}
    BY <1>0, <1>7 DEF ScanBusy, Handler, HandlerOK
  <2>3. QED
    BY <1>0, <1>1, <1>3, <1>4, <2>1, <2>2 DEF Basis, Asked, HandlerState
<1>8. CASE ScanRow(t)
  <2>1. PICK r : call'[t] = [call[t] EXCEPT !.got = @ \cup {r}]
    BY <1>0, <1>8 DEF ScanRow, Become
  <2>2. call[t].mishap = "none" /\ call[t].at = "scan"
    BY <1>0, <1>8 DEF ScanRow, Handler, HandlerOK
  <2>3. QED
    BY <1>0, <1>1, <1>3, <1>4, <2>1, <2>2 DEF Basis, HandlerState
<1>9. CASE ScanEnd(t)
  <2>1. call'[t] = [call[t] EXCEPT !.at = "finish"]
    BY <1>0, <1>9 DEF ScanEnd, Become
  <2>2. QED
    BY <1>0, <1>1, <1>3, <1>4, <2>1 DEF Basis, HandlerState
<1>10. CASE Finish(t) \/ RejectArguments(t)
  <2>1. \E code : call'[t] = [call[t] EXCEPT !.at = "replied", !.status = code]
    <3>1. CASE Finish(t)
      BY <1>0, <3>1 DEF Finish, Become, HandlerState
    <3>2. CASE RejectArguments(t)
      BY <1>0, <3>2 DEF RejectArguments, Become
    <3>3. QED
      BY <1>10, <3>1, <3>2
  <2>2. QED
    BY <1>0, <1>1, <1>3, <1>4, <2>1 DEF Basis, HandlerState
<1>11. CASE ScanBreaks(t)
  <2>1. call'[t] = [call[t] EXCEPT !.at = "finish", !.mishap = "broken"]
    BY <1>0, <1>11 DEF ScanBreaks, Become
  <2>2. call[t].mishap = "none"
    BY <1>0, <1>11 DEF ScanBreaks, Handler, HandlerOK
  <2>3. QED
    BY <1>0, <1>1, <1>3, <1>4, <1>5, <2>1, <2>2 DEF Basis, HandlerState
<1>12. CASE QueryThrows(t)
  <2>1. PICK part \in SUBSET call[t].got :
           call'[t] = [call[t] EXCEPT !.at = IF call[t].want = All THEN "finish" ELSE "replied",
                                      !.status = "UNKNOWN", !.got = part, !.mishap = "threw"]
    BY <1>0, <1>12 DEF QueryThrows, Become
  <2>2. QED
    BY <1>0, <1>1, <1>3, <1>4, <1>5, <2>1 DEF Basis, HandlerState
<1>13. CASE QueryBreaks(t)
  <2>1. call'[t] = [Asked(t) EXCEPT !.at = "finish", !.mishap = "broken"]
    BY <1>0, <1>13 DEF QueryBreaks, Become
  <2>2. call[t].got = {}
    BY <1>0, <1>13 DEF QueryBreaks, Handler, HandlerOK
  <2>3. QED
    BY <1>0, <1>1, <1>3, <1>4, <2>1, <2>2 DEF Basis, Asked, HandlerState
<1>14. QED
  BY <1>6, <1>7, <1>8, <1>9, <1>10, <1>11, <1>12, <1>13 DEF Answering, HandlerErrs

(***************************************************************************)
(* A step of the server's side is one of t's handler, leaves the handlers  *)
(* of all threads alone, or ends the server and them.                      *)
(***************************************************************************)
LEMMA ServerSideCalls ==
    ASSUME EndToEndInv, ServerSide
    PROVE  \/ \A t \in Thread : call'[t] = call[t]
           \/ UNCHANGED <<rows, now>> /\ \A t \in Thread : call'[t] = NoCall
           \/ \E t \in Thread : Answering(t) \/ HandlerErrs(t)
<1>0. Thread \subseteq Call /\ call \in [Call -> HandlerState]
  BY EndToEndAssumption DEF EndToEndInv, ServiceInv, ServiceTypeOK
<1>1. CASE (\E p \in Process : Load(p)) \/ StartUp \/ StartUpErrs \/ Tick
  BY <1>1 DEF Load, serviceVars, StartUp, StartUpErrs, OpenReadOnly, PrepareStationTable, StepStationTable,
     StartServing, GiveUpServing, Tick
<1>2. CASE Stop \/ ServerCrash
  BY <1>0, <1>2 DEF Stop, ServerCrash, Gone
<1>3. ASSUME NEW c \in Call \ Thread,
             BeginCall(c) \/ EndCall(c) \/ Answering(c) \/ HandlerErrs(c)
      PROVE  \A t \in Thread : call'[t] = call[t]
  <2>1. PICK h : Become(c, h)
    BY <1>3 DEF BeginCall, EndCall, Answering, RejectArguments, OpenScan, ScanBusy, ScanRow,
       ScanEnd, Finish, HandlerErrs, QueryBreaks, ScanBreaks, QueryThrows
  <2>2. QED
    BY <1>0, <2>1 DEF Become
<1>4. QED
  BY <1>1, <1>2, <1>3 DEF ServerSide

(***************************************************************************)
(* The server's side keeps the two sides of every call together ...        *)
(***************************************************************************)
LEMMA ServerSideJoined ==
    ASSUME EndToEndInv, ServerSide, UNCHANGED <<clientVars, endVars>>
    PROVE  JoinInv'
<1>0. UNCHANGED <<caller, callback, verdict, sent, basis>> /\ JoinInv
  BY DEF clientVars, endVars, EndToEndInv
<1> SUFFICES ASSUME NEW u \in Thread PROVE Joined(u)'
  BY <1>0 DEF JoinInv
<1> DEFINE Continued ==
              /\ call'[u].at # "free" => call[u].at # "free" /\ call'[u].want = call[u].want
              /\ call'[u].at = "query" => call[u].at = "query" /\ call'[u].seen = call[u].seen
<1>1. ASSUME NEW t \in Thread, Answering(t) \/ HandlerErrs(t)
      PROVE  Continued
  BY <1>1, HandlerLooks
<1>2. Continued
  BY <1>1, ServerSideCalls DEF NoCall
<1>3. QED
  BY <1>0, <1>2 DEF JoinInv, Joined

(***************************************************************************)
(* ... and so do the transport and the client.                             *)
(***************************************************************************)
LEMMA TransportJoined ==
    ASSUME EndToEndInv, NEW t \in Thread, Transport(t)
    PROVE  JoinInv'
<1>0. /\ JoinInv /\ ClientInv /\ ClientTypeOK /\ Thread \subseteq Call
      /\ call \in [Call -> HandlerState] /\ callback \in [Thread -> Inside \cup {"none", "pending"}]
      /\ verdict \in [Thread -> Verdict \cup {Unset}]
      /\ sent \subseteq Thread /\ basis \in [Thread -> SUBSET Station]
      /\ callback[t] = "pending" => caller[t] # "idle"
  BY EndToEndAssumption DEF EndToEndInv, ServiceInv, ServiceTypeOK, ClientInv, ClientTypeOK, JoinInv
<1>1. CASE Arrive(t)
  <2>1. call' = [call EXCEPT ![t] = [NoCall EXCEPT !.at = "query", !.want = All]]
    BY <1>1 DEF Arrive, Become
  <2>2. call'[t].want = All /\ call'[t].seen = {}
    BY <1>0, <2>1 DEF NoCall
  <2>3. QED
    BY <1>0, <1>1, <2>1, <2>2 DEF Arrive, clientVars, JoinInv, Joined
<1>2. CASE Reply(t)
  <2>1. call[t].at = "replied" /\ call' = [call EXCEPT ![t] = NoCall]
    BY <1>2 DEF Reply, EndCall, Handler, Become
  <2>2. Basis(t) \in SUBSET Station /\ verdict'[t] \in {Basis(t), Failed}
    BY <1>2, <2>1, RepliedAll DEF Reply, Basis
  <2>3. /\ callback' = [callback EXCEPT ![t] = "assign"] /\ callback[t] = "pending"
        /\ UNCHANGED caller /\ \A u \in Thread \ {t} : verdict'[u] = verdict[u]
        /\ basis' = [basis EXCEPT ![t] = Basis(t)] /\ sent' = sent \ {t}
    BY <1>0, <1>2 DEF Reply, Complete, CallbackGoes
  <2>4. Joined(t)'
    BY <1>0, <2>1, <2>2, <2>3 DEF Joined, NoCall
  <2>5. ASSUME NEW u \in Thread \ {t} PROVE Joined(u)'
    BY <1>0, <2>1, <2>3 DEF JoinInv, Joined
  <2>6. QED
    BY <1>0, <2>2, <2>3, <2>4, <2>5 DEF JoinInv
<1>3. CASE Unavailable(t)
  <2>1. call[t].at = "free" /\ basis[t] = {} /\ UNCHANGED <<call, basis>>
    BY <1>0, <1>3 DEF Unavailable, Complete, CallbackGoes, JoinInv, Joined, allVars, serviceVars
  <2>2. /\ callback' = [callback EXCEPT ![t] = "assign"] /\ callback[t] = "pending"
        /\ UNCHANGED caller /\ \A u \in Thread \ {t} : verdict'[u] = verdict[u]
        /\ verdict'[t] = Failed /\ sent' = sent \ {t}
    BY <1>0, <1>3 DEF Unavailable, Complete, CallbackGoes
  <2>3. Joined(t)'
    BY <1>0, <2>1, <2>2 DEF Joined
  <2>4. ASSUME NEW u \in Thread \ {t} PROVE Joined(u)'
    BY <1>0, <2>1, <2>2 DEF JoinInv, Joined
  <2>5. QED
    BY <1>0, <2>1, <2>2, <2>3, <2>4 DEF JoinInv
<1>4. QED
  BY <1>1, <1>2, <1>3 DEF Transport

(***************************************************************************)
(* Asking, waiting, the callback and the return.                           *)
(***************************************************************************)
LEMMA ClientJoined ==
    ASSUME EndToEndInv, NEW t \in Thread,
           \/ ReturnList(t)
           \/ /\ Invoke(t) \/ Waiting(t) \/ SpuriousWake(t) \/ CallbackStep(t)
              /\ UNCHANGED <<allVars, endVars>>
    PROVE  JoinInv'
<1>0. /\ JoinInv /\ ClientInv /\ ClientTypeOK
      /\ UNCHANGED <<call, sent>>
  BY DEF EndToEndInv, ClientInv, ReturnList, allVars, serviceVars, endVars
<1> USE <1>0 DEF JoinInv, Joined, ClientTypeOK
<1>1. CASE ReturnList(t)
  <2>1. callback[t] # "pending"
    BY <1>1 DEF ReturnList, Leave, CallerGoes, ClientInv
  <2>2. QED
    BY <1>1, <2>1 DEF ReturnList, Leave, CallerGoes
<1>2. CASE Invoke(t) /\ UNCHANGED endVars
  <2>1. callback[t] = "none" /\ caller[t] = "idle"
    BY <1>2 DEF Invoke, CallerGoes, ClientInv
  <2>2. QED
    BY <1>2, <2>1 DEF Invoke, CallerGoes, endVars
<1>3. CASE (Waiting(t) \/ SpuriousWake(t)) /\ UNCHANGED endVars
  BY <1>3 DEF Waiting, SpuriousWake, LockMutex, TestDone, Wait, Wake, CallerGoes, endVars
<1>4. CASE CallbackStep(t) /\ UNCHANGED endVars
  BY <1>4 DEF CallbackStep, AssignStatus, AcquireLock, SetDone, Notify, Unlock, CallbackGoes,
     endVars
<1>5. QED
  BY <1>1, <1>2, <1>3, <1>4 DEF endVars

(***************************************************************************)
(* Every step of the system keeps the invariant.                           *)
(***************************************************************************)
LEMMA EndToEndInvariant == EndToEndInv /\ [EndToEndNext]_everything => EndToEndInv'
<1> SUFFICES ASSUME EndToEndInv, [EndToEndNext]_everything PROVE EndToEndInv'
  OBVIOUS
<1>1. [ServiceNext]_allVars /\ [ClientNext]_clientVars
  BY ServerSideSteps, ClientSideSteps DEF everything
<1>2. ServiceInv' /\ ClientInv'
  BY <1>1, ServiceInvariant, ClientStepInvariant DEF EndToEndInv
<1>3. JoinInv'
  <2>1. CASE UNCHANGED everything
    BY <2>1 DEF everything, allVars, serviceVars, clientVars, endVars, EndToEndInv, JoinInv, Joined
  <2>2. CASE EndToEndNext
    BY <2>2, ServerSideJoined, TransportJoined, ClientJoined DEF EndToEndNext
  <2>3. QED
    BY <2>1, <2>2
<1>4. QED
  BY <1>2, <1>3 DEF EndToEndInv

(***************************************************************************)
(* The invariant of client, server and loaders holds of every reachable    *)
(* state: the rows a reply carries, the callback hands over and the caller *)
(* takes are those its own handler had.                                    *)
(***************************************************************************)
THEOREM EndToEndInvariantHolds == EndToEndSpec => []EndToEndInv
BY EndToEndInitInvariant, EndToEndInvariant, PTL DEF EndToEndSpec

(***************************************************************************)
(* The transport uses the client as ClientCall says: what is proved of the *)
(* hand-over there holds with any server, any death of it and any fault.   *)
(***************************************************************************)
THEOREM ClientIsAsSpecified == EndToEndSpec => ClientSpec
<1>1. EndToEndInit => ClientInit
  BY DEF EndToEndInit
<1>2. [EndToEndNext]_everything => [ClientNext]_clientVars
  BY ClientSideSteps DEF everything
<1>3. QED
  BY <1>1, <1>2, PTL DEF EndToEndSpec, ClientSpec

(***************************************************************************)
(* A step of the server's side is a change of what is active, the moment a *)
(* handler looks, or a mishap.                                             *)
(***************************************************************************)
LEMMA ServerSideRefines ==
    ASSUME EndToEndInv, EndToEndInv', ServerSide, UNCHANGED <<clientVars, endVars>>
    PROVE  [Query!QueryNext]_(Query!queryVars)
<1> DEFINE seen(t) == IF t \in sent THEN Basis(t) ELSE basis[t]
           view == [t \in Thread |-> seen(t)]
           asking == {t \in Thread : caller[t] # "idle"}
<1>0. /\ UNCHANGED <<caller, callback, outcome, sent, basis>> /\ JoinInv
      /\ Running \in SUBSET Station /\ Running' \in SUBSET Station
      /\ view \in [Thread -> SUBSET Station] /\ view' \in [Thread -> SUBSET Station]
  <2>1. UNCHANGED <<caller, callback, outcome, sent, basis>> /\ JoinInv /\ JoinInv'
    BY DEF clientVars, endVars, EndToEndInv
  <2>2. Running \in SUBSET Station /\ Running' \in SUBSET Station
    BY DEF EndToEndInv, ServiceInv, LoadInv, TypeOK, FileTypeOK, Running
  <2>3. \A t \in Thread : /\ t \in Call
                          /\ call[t] \in HandlerState /\ call'[t] \in HandlerState
    BY EndToEndAssumption DEF EndToEndInv, ServiceInv, ServiceTypeOK, HandlerState
  <2>4. \A t \in Thread : seen(t) \in SUBSET Station /\ seen(t)' \in SUBSET Station
    BY <2>1, <2>3 DEF HandlerState, Basis, JoinInv
  <2>5. QED
    BY <2>1, <2>2, <2>4
<1>1. CASE \A t \in Thread : call'[t] = call[t]
  <2>1. view' = view /\ asking' = asking
    BY <1>0, <1>1 DEF Basis
  <2>2. Query!Change
    BY <1>0, <2>1 DEF Query!Change
  <2>3. QED
    BY <2>2 DEF Query!QueryNext
<1>2. CASE UNCHANGED <<rows, now>> /\ \A t \in Thread : view'[t] \subseteq view[t]
  <2>1. Query!Lose
    BY <1>0, <1>2 DEF Query!Lose, Running
  <2>2. QED
    BY <2>1 DEF Query!QueryNext
<1>3. CASE UNCHANGED <<rows, now>> /\ \A t \in Thread : call'[t] = NoCall
  <2>1. \A t \in Thread : view'[t] \subseteq view[t]
    BY <1>0, <1>3 DEF Basis, NoCall
  <2>2. QED
    BY <1>2, <1>3, <2>1
<1>4. ASSUME NEW t \in Thread, Answering(t) \/ HandlerErrs(t)
      PROVE  [Query!QueryNext]_(Query!queryVars)
  <2>1. /\ UNCHANGED <<rows, now>> /\ \A u \in Thread \ {t} : view'[u] = view[u]
        /\ t \in sent /\ call[t].at # "free"
    BY <1>0, <1>4, HandlerLooks DEF Basis, JoinInv, Joined
  <2>2. view[t] = Basis(t) /\ view'[t] = Basis(t)'
    BY <1>0, <2>1
  <2>3. CASE Basis(t)' \subseteq Basis(t)
    BY <1>2, <2>1, <2>2, <2>3
  <2>4. CASE Basis(t) = {} /\ Basis(t)' = Running
    <3>1. view' = [view EXCEPT ![t] = Running]
      BY <1>0, <2>1, <2>2, <2>4
    <3>2. t \in asking /\ view[t] = {}
      BY <1>0, <2>1, <2>2, <2>4 DEF JoinInv, Joined, EndToEndInv, ClientInv
    <3>3. Query!Look(t)
      BY <1>0, <2>1, <3>1, <3>2 DEF Query!Look, Running
    <3>4. QED
      BY <3>3 DEF Query!QueryNext
  <2>5. QED
    BY <1>4, <2>3, <2>4, HandlerLooks
<1>5. QED
  BY <1>1, <1>3, <1>4, ServerSideCalls

(***************************************************************************)
(* What gRPC carries, and what the client does between its call and its    *)
(* return, is no step of the promise.                                      *)
(***************************************************************************)
LEMMA BetweenRefines ==
    ASSUME EndToEndInv, NEW t \in Thread,
           \/ Transport(t)
           \/ /\ Waiting(t) \/ SpuriousWake(t) \/ CallbackStep(t)
              /\ UNCHANGED <<allVars, endVars>>
    PROVE  UNCHANGED Query!queryVars
<1> DEFINE seen(u) == IF u \in sent THEN Basis(u) ELSE basis[u]
           asking == {u \in Thread : caller[u] # "idle"}
<1>0. /\ JoinInv /\ ClientTypeOK /\ Thread \subseteq Call /\ call \in [Call -> HandlerState]
      /\ UNCHANGED outcome
      /\ sent \subseteq Thread /\ basis \in [Thread -> SUBSET Station]
  BY EndToEndAssumption
  DEF EndToEndInv, ServiceInv, ServiceTypeOK, ClientInv, JoinInv, Transport, Arrive, Reply,
      Unavailable, Complete, clientVars, Waiting, LockMutex, TestDone, Wait, Wake, SpuriousWake,
      CallbackStep, AssignStatus, AcquireLock, SetDone, Notify, Unlock
<1>1. UNCHANGED Running
  BY DEF Running, Transport, Arrive, Reply, EndCall, Unavailable, allVars, serviceVars, vars, fileVars
<1>2. asking' = asking
  <2>1. CASE Transport(t)
    BY <2>1 DEF Transport, Arrive, Reply, Unavailable, Complete, clientVars
  <2>2. CASE CallbackStep(t)
    BY <2>2 DEF CallbackStep, AssignStatus, AcquireLock, SetDone, Notify, Unlock
  <2>3. CASE Waiting(t) \/ SpuriousWake(t)
    BY <1>0, <2>3 DEF Waiting, LockMutex, TestDone, Wait, Wake, SpuriousWake, CallerGoes, ClientTypeOK
  <2>4. QED
    BY <2>1, <2>2, <2>3
<1>3. \A u \in Thread : seen(u)' = seen(u)
  <2>1. CASE Arrive(t)
    <3>1. /\ call' = [call EXCEPT ![t] = [NoCall EXCEPT !.at = "query", !.want = All]]
          /\ sent' = sent \cup {t} /\ UNCHANGED basis
          /\ t \notin sent /\ basis[t] = {}
      BY <1>0, <2>1 DEF Arrive, Become, JoinInv, Joined
    <3>2. Basis(t)' = {}
      BY <1>0, <3>1 DEF Basis, NoCall
    <3>3. \A u \in Thread \ {t} : call'[u] = call[u]
      BY <1>0, <3>1
    <3>4. QED
      BY <3>1, <3>2, <3>3 DEF Basis
  <2>2. CASE Reply(t)
    <3>1. /\ call' = [call EXCEPT ![t] = NoCall] /\ t \in sent /\ sent' = sent \ {t}
          /\ basis' = [basis EXCEPT ![t] = Basis(t)]
      BY <2>2 DEF Reply, EndCall, Become
    <3>2. QED
      BY <1>0, <3>1 DEF Basis
  <2>3. CASE Unavailable(t)
    <3>1. UNCHANGED <<call, basis>> /\ sent' = sent \ {t} /\ call[t].at = "free" /\ basis[t] = {}
      BY <1>0, <2>3
      DEF Unavailable, Complete, CallbackGoes, JoinInv, Joined, allVars, serviceVars
    <3>2. Basis(t) = {}
      BY <1>0, <3>1, HandlerFacts DEF EndToEndInv, HandlerOK, Basis, NoCall
    <3>3. QED
      BY <3>1, <3>2 DEF Basis
  <2>4. CASE UNCHANGED <<allVars, endVars>>
    BY <2>4 DEF allVars, serviceVars, endVars, Basis
  <2>5. QED
    BY <2>1, <2>2, <2>3, <2>4 DEF Transport
<1>4. QED
  BY <1>0, <1>1, <1>2, <1>3 DEF Query!queryVars

(***************************************************************************)
(* The call is the question ...                                            *)
(***************************************************************************)
LEMMA InvokeRefines ==
    ASSUME EndToEndInv, NEW t \in Thread, Invoke(t), UNCHANGED <<allVars, endVars>>
    PROVE  Query!Ask(t)
<1>1. UNCHANGED <<Running, rows, now, call, sent, basis>>
  BY DEF allVars, serviceVars, endVars, vars, fileVars, Running
<1>2. UNCHANGED [u \in Thread |-> IF u \in sent THEN Basis(u) ELSE basis[u]]
  BY <1>1 DEF Basis
<1>3. /\ caller[t] = "idle" /\ caller' = [caller EXCEPT ![t] = "lock"]
      /\ outcome' = [outcome EXCEPT ![t] = Unset] /\ ClientTypeOK
  BY DEF Invoke, CallerGoes, EndToEndInv, ClientInv
<1>4. {u \in Thread : caller'[u] # "idle"} = {u \in Thread : caller[u] # "idle"} \cup {t}
  BY <1>3 DEF ClientTypeOK
<1>5. QED
  BY <1>1, <1>2, <1>3, <1>4 DEF Query!Ask

(***************************************************************************)
(* ... and its return the answer.                                          *)
(***************************************************************************)
LEMMA ReturnRefines ==
    ASSUME EndToEndInv, NEW t \in Thread, ReturnList(t)
    PROVE  Query!Return(t)
<1>0. /\ JoinInv /\ ClientInv /\ ClientTypeOK /\ basis \in [Thread -> SUBSET Station]
  BY DEF EndToEndInv, ClientInv, JoinInv
<1>1. /\ caller[t] = "read" /\ caller' = [caller EXCEPT ![t] = "idle"]
      /\ basis' = [basis EXCEPT ![t] = {}]
      /\ UNCHANGED <<Running, call, sent>>
      /\ outcome' = [outcome EXCEPT ![t] =
            IF status[t] \in {Malformed, Failed} THEN Exception ELSE status[t]]
  BY DEF ReturnList, Leave, CallerGoes, allVars, serviceVars, vars, fileVars, Running
<1>2. callback[t] # "pending" /\ t \notin sent /\ status[t] = verdict[t]
  <2>1. callback[t] \in {"notify", "unlock", "none"}
    BY <1>0, <1>1 DEF ClientInv, ClientTypeOK, Inside
  <2>2. QED
    BY <1>0, <1>1, <2>1 DEF ClientInv, JoinInv, Joined
<1>3. verdict[t] \in {basis[t], Failed} /\ basis[t] \notin {Malformed, Failed}
  BY <1>0, <1>1, <1>2, EndToEndAssumption DEF JoinInv, Joined
<1>4. \E answer \in {basis[t], Exception} : outcome' = [outcome EXCEPT ![t] = answer]
  BY <1>1, <1>2, <1>3
<1> DEFINE view == [u \in Thread |-> IF u \in sent THEN Basis(u) ELSE basis[u]]
<1>5. view[t] = basis[t] /\ view' = [view EXCEPT ![t] = {}]
  BY <1>0, <1>1, <1>2 DEF Basis
<1>6. /\ t \in {u \in Thread : caller[u] # "idle"}
      /\ {u \in Thread : caller'[u] # "idle"} = {u \in Thread : caller[u] # "idle"} \ {t}
  BY <1>0, <1>1 DEF ClientTypeOK
<1>7. QED
  BY <1>1, <1>4, <1>5, <1>6 DEF Query!Return

(***************************************************************************)
(* A program that asks for all active stations gets what was active at one *)
(* moment while it asked, less what a mishap lost, or an exception, from   *)
(* any number of threads, beside any other requests, loaders and faults.   *)
(***************************************************************************)
THEOREM CallsKeepThePromise == EndToEndSpec => QueryKept
<1>1. EndToEndInit => Query!QueryInit
  <2> SUFFICES ASSUME EndToEndInit PROVE Query!QueryInit
    OBVIOUS
  <2>1. Running \in SUBSET Station
    BY EndToEndInitInvariant
    DEF EndToEndInv, ServiceInv, LoadInv, TypeOK, FileTypeOK, Running
  <2>2. QED
    BY <2>1 DEF EndToEndInit, ClientInit, Query!QueryInit
<1>2. EndToEndInv /\ EndToEndInv' /\ [EndToEndNext]_everything
        => [Query!QueryNext]_(Query!queryVars)
  <2> SUFFICES ASSUME EndToEndInv, EndToEndInv', [EndToEndNext]_everything
               PROVE  [Query!QueryNext]_(Query!queryVars)
    OBVIOUS
  <2>1. CASE UNCHANGED everything
    BY <2>1 DEF everything, allVars, serviceVars, vars, fileVars, clientVars, endVars,
       Query!queryVars, Running, Basis
  <2>2. CASE ServerSide /\ UNCHANGED <<clientVars, endVars>>
    BY <2>2, ServerSideRefines
  <2>3. ASSUME NEW t \in Thread,
               \/ Transport(t)
               \/ /\ Waiting(t) \/ SpuriousWake(t) \/ CallbackStep(t)
                  /\ UNCHANGED <<allVars, endVars>>
        PROVE  UNCHANGED Query!queryVars
    BY <2>3, BetweenRefines
  <2>4. ASSUME NEW t \in Thread,
               ReturnList(t) \/ (Invoke(t) /\ UNCHANGED <<allVars, endVars>>)
        PROVE  Query!QueryNext
    BY <2>4, ReturnRefines, InvokeRefines DEF Query!QueryNext
  <2>5. QED
    BY <2>1, <2>2, <2>3, <2>4 DEF EndToEndNext
<1>3. QED
  BY <1>1, <1>2, EndToEndInvariantHolds, PTL DEF EndToEndSpec, QueryKept, Query!QuerySpec
=============================================================================
