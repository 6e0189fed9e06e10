-------------------------------- MODULE Calls --------------------------------
(***************************************************************************)
(* One call between two colleagues: its row in connect_call_logs, and what *)
(* their devices hear of it over websockets.                               *)
(*                                                                         *)
(* Code: app/services/connect_service.py (initiate_call,                   *)
(* update_call_status), app/repositories/connect_repository.py,            *)
(* app/services/connect_ws_manager.py and the websocket endpoint of        *)
(* app/api/connect.py.                                                     *)
(*                                                                         *)
(* A status update loads the row without a lock, decides on what it        *)
(* loaded, commits, and then sends its events one after the other; other   *)
(* requests and the sockets go on between any two of these.  The registry  *)
(* of sockets is in the memory of a worker process, so a request reaches   *)
(* the devices of its own worker only, and nothing tells the devices that  *)
(* are connected to another one: the image starts four (Dockerfile,        *)
(* --workers 4).  The properties are about the devices of the worker that  *)
(* serves a request, for any number of workers.                            *)
(*                                                                         *)
(* Calls share no row and no query, so one is enough.  Left out: the       *)
(* signalling relay and the notification rows, which change nothing here,  *)
(* and duration_seconds, which stays 0 (see Crashes).                      *)
(***************************************************************************)
EXTENDS Sequences

CONSTANTS
    Sockets,   \* identities of websocket connections, used again once free
    OwnerOf,   \* the user a socket belongs to
    WorkerOf,  \* the worker process a socket is connected to
    Workers,   \* uvicorn workers
    Requests,  \* requests that may be in progress at one time
    Asked      \* bound: the statuses that requests ask for

Users    == {"caller", "callee"}
Terminal == {"ended", "rejected", "cancelled", "missed", "failed"}
Targets  == Terminal \cup {"connected"}
Statuses == Targets \cup {"NONE", "ringing"}

ASSUME CallsAssumption ==
    /\ OwnerOf \in [Sockets -> Users]
    /\ WorkerOf \in [Sockets -> Workers]
    /\ Workers # {}
    /\ Asked \subseteq Targets

\* The row: its status, and whether connected_at and ended_at are set.
Calls == [status : Statuses, connected : BOOLEAN, ended : BOOLEAN]

NoCall == [status |-> "NONE", connected |-> FALSE, ended |-> FALSE]

\* A request: what it asks for, the row as loaded, the users it still has to
\* send an event to.
Request == [pc : {"idle", "loaded", "sending"}, worker : Workers, target : Statuses,
            seen : Calls, todo : Seq(Users)]

VARIABLES
    call,        \* the row of connect_call_logs
    net,         \* [Sockets -> state of the connection]
    registered,  \* active_user_connections of all workers
    heard,       \* [Sockets -> the status the device heard last]
    req,         \* [Requests -> Request]
    overtaken    \* history: an update was committed with another in progress

vars == <<call, net, registered, heard, req, overtaken>>

\* A connection is "live"; "lost" when its client has gone and the server has
\* not noticed; "dead" when its receive loop has ended; "free" otherwise.
NetStates == {"free", "live", "lost", "dead"}

Idle == [pc |-> "idle", worker |-> CHOOSE w \in Workers : TRUE, target |-> "NONE",
         seen |-> NoCall, todo |-> <<>>]

Init ==
    /\ call = NoCall
    /\ net = [s \in Sockets |-> "free"]
    /\ registered = {}
    /\ heard = [s \in Sockets |-> "NONE"]
    /\ req = [r \in Requests |-> Idle]
    /\ overtaken = FALSE

Running == {r \in Requests : req[r].pc # "idle"}

Starts(r, request) ==
    /\ req[r].pc = "idle"
    /\ req' = [req EXCEPT ![r] = request]

-----------------------------------------------------------------------------
\* initiate_call: the row is committed before the callee hears of it, twice
\* (call:incoming and incoming_call).  The callee may well be offline.
InitiateCall(r) ==
    /\ call.status = "NONE"
    /\ call' = [NoCall EXCEPT !.status = "ringing"]
    /\ \E w \in Workers :
          Starts(r, [Idle EXCEPT !.pc = "sending", !.worker = w, !.target = "ringing",
                                 !.todo = <<"callee", "callee">>])
    /\ UNCHANGED <<net, registered, heard, overtaken>>

\* update_call_status, to its check.  Both participants and admins may ask for
\* any status, by PATCH or over the websocket.  A closed call is answered at
\* once.
UpdateLoads(r, target) ==
    /\ call.status \notin Terminal \cup {"NONE"}
    /\ \E w \in Workers :
          Starts(r, [Idle EXCEPT !.pc = "loaded", !.worker = w, !.target = target,
                                 !.seen = call])
    /\ UNCHANGED <<call, net, registered, heard, overtaken>>

\* datetime.utcnow() less a connected_at read from a timestamptz column is a
\* TypeError: a call that was connected cannot be closed.
Crashes(seen, target) == target \in Terminal /\ ~seen.ended /\ seen.connected

BugFlushed(seen, target) ==
    [status    |-> IF target # seen.status THEN target ELSE call.status,
     connected |-> call.connected \/ (target = "connected" /\ ~seen.connected),
     ended     |-> call.ended \/ (target \in Terminal /\ ~seen.ended /\ seen.connected)]

\* The row after the commit: SQLAlchemy writes the attributes that changed from
\* what was loaded.  The second get_call_by_id returns the same object.
Flushed(seen, target) ==
    [status    |-> IF target # seen.status THEN target ELSE call.status,
     connected |-> call.connected \/ (target = "connected" /\ ~seen.connected),
     ended     |-> call.ended \/ (target \in Terminal /\ ~seen.ended)]

BugEvents(target) ==
    CASE target = "rejected"  -> <<"caller">>
      [] target = "cancelled" -> <<"callee">>
      [] OTHER                -> <<"caller", "callee">>

\* Who is sent an event, in this order: the specific one (call:accepted,
\* call:rejected, call:cancelled, call:ended), then call_status_changed.
Events(target) ==
    (CASE target = "rejected"  -> <<"caller">>
       [] target = "cancelled" -> <<"callee">>
       [] OTHER                -> <<"caller", "callee">>)
        \o <<"caller", "callee">>

UpdateCommits(r) ==
    /\ req[r].pc = "loaded"
    /\ \/ /\ Crashes(req[r].seen, req[r].target)
          /\ req' = [req EXCEPT ![r] = Idle]
          /\ UNCHANGED <<call, overtaken>>
       \/ /\ ~Crashes(req[r].seen, req[r].target)
          /\ call' = Flushed(req[r].seen, req[r].target)
          /\ req' = [req EXCEPT ![r].pc = "sending", ![r].seen = NoCall,
                                 ![r].todo = Events(req[r].target)]
          /\ overtaken' = (overtaken \/ Running # {r})
    /\ UNCHANGED <<net, registered, heard>>

\* The sockets send_to_user finds.
SocketsOf(u, w) == {s \in registered : OwnerOf[s] = u /\ WorkerOf[s] = w}

BugSend(r) ==
    LET found == SocketsOf(Head(req[r].todo), req[r].worker)
        rest  == Tail(req[r].todo)
        dead  == {s \in found : net[s] = "dead"}
    IN  /\ req[r].pc = "sending"
        /\ heard' = [s \in Sockets |-> IF s \in found /\ net[s] = "live"
                                       THEN req[r].target ELSE heard[s]]
        /\ req' = [req EXCEPT ![r] = IF rest = <<>> \/ dead # {}
                                     THEN Idle ELSE [@ EXCEPT !.todo = rest]]
        /\ UNCHANGED <<call, net, registered, overtaken>>

\* send_to_user: to a lost client the bytes go nowhere, on a dead socket
\* send_text raises and the socket is dropped from the registry.
Send(r) ==
    LET found == SocketsOf(Head(req[r].todo), req[r].worker)
        rest  == Tail(req[r].todo)
        dead  == {s \in found : net[s] = "dead"}
    IN  /\ req[r].pc = "sending"
        /\ heard' = [s \in Sockets |-> IF s \in found /\ net[s] = "live"
                                       THEN req[r].target ELSE heard[s]]
        /\ registered' = registered \ dead
        /\ net' = [s \in Sockets |-> IF s \in dead THEN "free" ELSE net[s]]
        /\ req' = [req EXCEPT ![r] = IF rest = <<>> THEN Idle ELSE [@ EXCEPT !.todo = rest]]
        /\ UNCHANGED <<call, overtaken>>

-----------------------------------------------------------------------------
\* The endpoint accepts a websocket and registers it.
Connect(s) ==
    /\ net[s] = "free"
    /\ net' = [net EXCEPT ![s] = "live"]
    /\ registered' = registered \cup {s}
    /\ UNCHANGED <<call, heard, req, overtaken>>

\* The client goes away.
Vanish(s) ==
    /\ net[s] = "live"
    /\ net' = [net EXCEPT ![s] = "lost"]
    /\ heard' = [heard EXCEPT ![s] = "NONE"]
    /\ UNCHANGED <<call, registered, req, overtaken>>

\* The receive loop ends.  While it waits for a frame, receive_json raises,
\* the inner except takes WebSocketDisconnect for invalid JSON, the answer
\* raises too and break leaves the loop past both calls of disconnect: the
\* socket stays registered.  While it answers a frame, the exception reaches
\* disconnect.
LoopEnds(s) ==
    /\ net[s] = "lost"
    /\ \/ /\ net' = [net EXCEPT ![s] = "dead"]
          /\ UNCHANGED registered
       \/ /\ net' = [net EXCEPT ![s] = "free"]
          /\ registered' = registered \ {s}
    /\ UNCHANGED <<call, heard, req, overtaken>>

\* A worker process restarts: its requests and its registry are gone.
Restart(w) ==
    /\ net' = [s \in Sockets |-> IF WorkerOf[s] = w THEN "free" ELSE net[s]]
    /\ registered' = {s \in registered : WorkerOf[s] # w}
    /\ heard' = [s \in Sockets |-> IF WorkerOf[s] = w THEN "NONE" ELSE heard[s]]
    /\ req' = [r \in Requests |-> IF req[r].worker = w THEN Idle ELSE req[r]]
    /\ UNCHANGED <<call, overtaken>>

Update(r) == (\E target \in Asked : UpdateLoads(r, target)) \/ UpdateCommits(r)

Next ==
    \/ \E r \in Requests : InitiateCall(r) \/ Update(r) \/ Send(r)
    \/ \E s \in Sockets : Connect(s) \/ Vanish(s) \/ LoopEnds(s)
    \/ \E w \in Workers : Restart(w)

Spec == Init /\ [][Next]_vars

\* A request runs on to its end.  Nobody has to answer a call, and no timer of
\* the server ends one that rings.
Fairness == \A r \in Requests : WF_vars(UpdateCommits(r) \/ Send(r))

FairSpec == Spec /\ Fairness

-----------------------------------------------------------------------------
\* Every variable keeps its type.
TypeOK ==
    /\ call \in Calls
    /\ net \in [Sockets -> NetStates]
    /\ registered \in SUBSET Sockets
    /\ heard \in [Sockets -> Statuses]
    /\ req \in [Requests -> Request]
    /\ overtaken \in BOOLEAN

\* Status and timestamps of the row agree, however stale the objects are that
\* update_call_status writes from: a connected call has its connected_at, a
\* closed one its ended_at, a ringing one neither.
StampsMatch ==
    /\ call.status = "ringing" => ~call.connected /\ ~call.ended
    /\ call.status = "connected" => call.connected
    /\ call.status \in Terminal => call.ended

\* Request r, which was sending, is over: all was sent, or its worker died.
Ends(r) == req[r].pc = "sending" /\ req'[r].pc = "idle"

\* When the request that changed a call ends, every device of both users that
\* heard of the call and is connected to the worker of the request knows the
\* status of the row, on whichever device it was changed and whatever other
\* sockets died on the way.  It says nothing of the devices of other workers,
\* which are not told at all, nor of updates that were committed while another
\* request was in progress: their events are sent after the commits, in any
\* order, and the last one heard may be the one overwritten.
EveryDeviceHears ==
    [][\A r \in Requests : Ends(r) /\ ~overtaken =>
          \A s \in Sockets :
              WorkerOf[s] = req[r].worker /\ net'[s] = "live" /\ heard'[s] # "NONE"
                  => heard'[s] = call'.status]_vars

\* Device s rings although its worker has committed that the call does not.
StillRings(s) ==
    /\ net[s] = "live" /\ heard[s] = "ringing"
    /\ \E r \in Requests :
          req[r].pc = "sending" /\ req[r].target # "ringing" /\ req[r].worker = WorkerOf[s]

\* The invitation to the call is still being sent by the worker of device s.
Inviting(s) ==
    \E r \in Requests :
        req[r].pc = "sending" /\ req[r].target = "ringing" /\ req[r].worker = WorkerOf[s]

\* A device that rings when the worker it is connected to has committed an
\* update stops ringing or loses its connection, whatever other requests
\* overlap: the last event of every update goes to the callee.  The two cases
\* where a device does ring on are left out openly: an update served by another
\* worker, and an invitation whose second event (incoming_call) is sent after
\* the last one of the update.
NobodyRingsForever ==
    \A s \in Sockets :
        StillRings(s) /\ ~Inviting(s) ~> net[s] # "live" \/ heard[s] # "ringing"

=============================================================================
