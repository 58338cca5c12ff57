------------------------------ MODULE EndToEnd ------------------------------
(***************************************************************************)
(* A program that calls the client library, the server that answers it and *)
(* the programs that fill the database: ClientCall and StationService,     *)
(* joined by gRPC's transport (external).                                  *)
(*                                                                         *)
(* The handler of thread t's request is in slot t; the other slots are for *)
(* requests of other clients.                                              *)
(***************************************************************************)
EXTENDS StationService, ClientCall

Region == {Batch[server][i] : i \in 1..Len(Batch[server])}

(***************************************************************************)
(* The table takes every station of the server's region: no getter throws, *)
(* no column is NULL, no two stations have one key (see src/data).         *)
(***************************************************************************)
ASSUME EndToEndAssumption ==
    /\ Thread \subseteq Call
    /\ List = SUBSET Station
    /\ \A list \in List : list \notin {Malformed, Failed, Unset, Exception}
    /\ WellKeyed(Region)
    /\ Region \cap (Unkeyed \cup Unlocated) = {}

VARIABLES sent,  \* the threads whose request a server has taken
          basis  \* basis[t]: the rows the reply is from

endVars == <<sent, basis>>
everything == <<allVars, clientVars, endVars>>

(***************************************************************************)
(* The server has loaded its region, nobody else has run yet.              *)
(***************************************************************************)
EndToEndInit ==
    /\ file = TRUE
    /\ tables = {"station", "channel"}
    /\ rows = Region
    /\ journal = FALSE
    /\ lock = [p \in Process |-> "none"]
    /\ known = [p \in Process |-> {}]
    /\ pc = [p \in Process |-> IF p = server THEN "done" ELSE "idle"]
    /\ tab = [p \in Process |-> IF p = server THEN 3 ELSE 1]
    /\ at = [p \in Process |-> IF p = server THEN Len(Batch[p]) + 1 ELSE 1]
    /\ warned = [p \in Process |-> {}]
    /\ erred = [p \in Process |-> {}]
    /\ faults = 0
    /\ phase = "load"
    /\ call = [c \in Call |-> NoCall]
    /\ now = 0
    /\ ClientInit
    /\ sent = {}
    /\ basis = [t \in Thread |-> {}]

(***************************************************************************)
(* The request reaches a server that serves, which starts its handler.     *)
(***************************************************************************)
Arrive(t) ==
    /\ callback[t] = "pending" /\ t \notin sent
    /\ Handler(t, "free")
    /\ Become(t, [NoCall EXCEPT !.at = "query", !.want = All])
    /\ sent' = sent \cup {t}
    /\ UNCHANGED <<vars, phase, now, clientVars, basis>>

(***************************************************************************)
(* The reply, whose stations all can be converted (Delivered, in module    *)
(* MetadataObject), reaches the client.                                    *)
(***************************************************************************)
Basis(t) == IF call[t].mishap = "none" THEN call[t].seen ELSE call[t].got

Reply(t) ==
    /\ t \in sent
    /\ EndCall(t)
    /\ Complete(t)
    /\ verdict'[t] = IF call[t].status = "OK" THEN call[t].got ELSE Failed
    /\ basis' = [basis EXCEPT ![t] = Basis(t)]
    /\ sent' = sent \ {t}

(* Mutant: the call waits for a server (wait_for_ready). *)
WaitForServer(t) == FALSE

(***************************************************************************)
(* There is no server, or the one that had the request is gone: gRPC ends  *)
(* the call with UNAVAILABLE.                                              *)
(***************************************************************************)
Unavailable(t) ==
    /\ IF t \in sent THEN call[t].at = "free" ELSE phase # "serving"
    /\ Complete(t)
    /\ verdict'[t] = Failed
    /\ sent' = sent \ {t}
    /\ UNCHANGED <<allVars, basis>>

Transport(t) == Arrive(t) \/ Reply(t) \/ Unavailable(t)

(***************************************************************************)
(* The caller returns the converted list, or throws.                       *)
(***************************************************************************)
ReturnList(t) ==
    /\ Leave(t)
    /\ basis' = [basis EXCEPT ![t] = {}]
    /\ UNCHANGED <<allVars, sent>>

Waiting(t) == LockMutex(t) \/ TestDone(t) \/ Wait(t) \/ Wake(t)

(***************************************************************************)
(* The programs at the file, and the handlers.  Only the transport ends    *)
(* the handler of a thread's request.                                      *)
(***************************************************************************)
ServerSide ==
    \/ \E p \in Process : Load(p)
    \/ StartUp \/ StartUpErrs \/ Stop \/ ServerCrash
    \/ \E c \in Call : Answering(c) \/ HandlerErrs(c)
    \/ \E c \in Call \ Thread : BeginCall(c) \/ EndCall(c)
    \/ Tick

EndToEndNext ==
    \/ ServerSide /\ UNCHANGED <<clientVars, endVars>>
    \/ \E t \in Thread :
          \/ Transport(t) \/ ReturnList(t)
          \/ /\ Invoke(t) \/ Waiting(t) \/ SpuriousWake(t) \/ CallbackStep(t)
             /\ UNCHANGED <<allVars, endVars>>

EndToEndSpec == EndToEndInit /\ [][EndToEndNext]_everything

(***************************************************************************)
(* Threads run, on both sides, and gRPC does its part: a request reaches   *)
(* the server or fails, a reply is brought, and a process that is gone is  *)
(* noticed.  (A host or a network that is gone is not: no deadline is set.)*)
(***************************************************************************)
FairEndToEndSpec ==
    /\ EndToEndSpec
    /\ \A p \in Process :
          WF_everything(Run(p) /\ UNCHANGED <<serviceVars, clientVars, endVars>>)
    /\ WF_everything(StartUp /\ UNCHANGED <<clientVars, endVars>>)
    /\ \A c \in Call : WF_everything(Answering(c) /\ UNCHANGED <<clientVars, endVars>>)
    /\ \A t \in Thread :
          /\ WF_everything(Transport(t))
          /\ WF_everything(ReturnList(t))
          /\ WF_everything(Waiting(t) /\ UNCHANGED <<allVars, endVars>>)
          /\ WF_everything(CallbackStep(t) /\ UNCHANGED <<allVars, endVars>>)
          /\ SF_everything(AcquireLock(t) /\ UNCHANGED <<allVars, endVars>>)

-----------------------------------------------------------------------------

(***************************************************************************)
(* A call returns although the server is not there, stops, or dies under   *)
(* it, the file is busy, the handler throws or the caller wakes spuriously.*)
(***************************************************************************)
ClientReturns == \A t \in Thread : callback[t] = "pending" ~> caller[t] = "idle"

(***************************************************************************)
(* Client, server and loaders together keep the promise of StationQuery.   *)
(***************************************************************************)
Query == INSTANCE StationQuery WITH
    active <- Running,
    waiting <- {t \in Thread : caller[t] # "idle"},
    basis <- [t \in Thread |-> IF t \in sent THEN Basis(t) ELSE basis[t]],
    returned <- outcome

QueryKept == Query!QuerySpec

(***************************************************************************)
(* How the two sides of thread t's call belong together: a handler works   *)
(* for t only on its pending request, and looks at the table once; what    *)
(* gRPC brings, and the callback hands over, is what the handler had, or a *)
(* failure; and nothing of a call is left for the next one.                *)
(***************************************************************************)
Joined(t) ==
    /\ t \in sent => callback[t] = "pending"
    /\ call[t].at # "free" => t \in sent /\ call[t].want = All
    /\ call[t].at = "query" => call[t].seen = {}
    /\ caller[t] = "idle" \/ callback[t] = "pending" => basis[t] = {}
    /\ caller[t] # "idle" /\ callback[t] # "pending" => verdict[t] \in {basis[t], Failed}

JoinInv ==
    /\ sent \subseteq Thread
    /\ basis \in [Thread -> SUBSET Station]
    /\ \A t \in Thread : Joined(t)

(***************************************************************************)
(* The inductive invariant of client, server and loaders together.         *)
(***************************************************************************)
EndToEndInv == ServiceInv /\ ClientInv /\ JoinInv
=============================================================================
