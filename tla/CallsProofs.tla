----------------------------- MODULE CallsProofs -----------------------------
(***************************************************************************)
(* Proofs about Calls, for any number of sockets and overlapping requests. *)
(***************************************************************************)
EXTENDS Calls, Integers, SequenceTheorems, TLAPS

LEMMA IdleIsTyped == Idle \in Request
<1>1. PICK w \in Workers : TRUE
    BY CallsAssumption
<1>2. (CHOOSE v \in Workers : TRUE) \in Workers
    BY <1>1
<1>3. <<>> \in Seq(Users)
    OBVIOUS
<1> QED
    BY <1>2, <1>3 DEF Idle, Request, NoCall, Calls, Statuses

LEMMA EventsAreTyped ==
    ASSUME NEW target \in Targets
    PROVE  /\ Events(target) \in Seq(Users)
           /\ Events(target) # <<>>
           /\ \A u \in Users : \E i \in DOMAIN Events(target) : Events(target)[i] = u
<1> DEFINE first == CASE target = "rejected"  -> <<"caller">>
                      [] target = "cancelled" -> <<"callee">>
                      [] OTHER                -> <<"caller", "callee">>
           both  == <<"caller", "callee">>
<1>1. Events(target) = first \o both
    BY DEF Events
<1>2. first \in Seq(Users)
  <2>1. <<"caller">> \in Seq(Users) /\ <<"callee">> \in Seq(Users) /\ both \in Seq(Users)
      BY DEF Users
  <2>2. first = <<"caller">> \/ first = <<"callee">> \/ first = both
      BY ZenonT(20)
  <2> QED
      BY <2>1, <2>2
<1>3. both \in Seq(Users) /\ Len(both) = 2 /\ both[1] = "caller" /\ both[2] = "callee"
    BY DEF Users
<1> HIDE DEF first, both
<1>4. /\ Events(target) \in Seq(Users)
      /\ Len(Events(target)) = Len(first) + 2
      /\ Events(target)[Len(first) + 1] = "caller"
      /\ Events(target)[Len(first) + 2] = "callee"
  <2>1. /\ first \o both \in Seq(Users)
        /\ Len(first \o both) = Len(first) + 2
        /\ \A i \in 1 .. Len(first) + 2 :
              (first \o both)[i] = IF i <= Len(first) THEN first[i] ELSE both[i - Len(first)]
    <3>1. /\ first \o both \in Seq(Users)
          /\ Len(first \o both) = Len(first) + Len(both)
          /\ \A i \in 1 .. Len(first) + Len(both) :
                (first \o both)[i] = IF i <= Len(first) THEN first[i] ELSE both[i - Len(first)]
        BY <1>2, <1>3, ConcatProperties, Zenon
    <3> QED
        BY <1>3, <3>1
  <2>2. Len(first) \in Nat
      BY <1>2
  <2>3. (first \o both)[Len(first) + 1] = both[(Len(first) + 1) - Len(first)]
      BY <2>1, <2>2
  <2>4. (first \o both)[Len(first) + 2] = both[(Len(first) + 2) - Len(first)]
      BY <2>1, <2>2
  <2>5. (Len(first) + 1) - Len(first) = 1 /\ (Len(first) + 2) - Len(first) = 2
      BY <2>2
  <2> QED
      BY <1>1, <1>3, <2>1, <2>3, <2>4, <2>5
<1>5. Len(first) + 1 \in DOMAIN Events(target) /\ Len(first) + 2 \in DOMAIN Events(target)
    BY <1>2, <1>4
<1> QED
    BY <1>4, <1>5 DEF Users

-----------------------------------------------------------------------------
\* A request that has loaded the row asks for a status, and one that sends has
\* someone to send to.
Busy ==
    \A r \in Requests :
        /\ req[r].pc = "loaded" => req[r].target \in Targets
        /\ req[r].pc = "sending" => req[r].todo # <<>>

LEMMA TypeStep ==
    ASSUME TypeOK, Busy, [Next]_vars
    PROVE  TypeOK' /\ Busy'
<1> USE CallsAssumption, IdleIsTyped
<1>1. CASE UNCHANGED vars
    BY <1>1 DEF vars, TypeOK, Busy
<1>2. ASSUME NEW r \in Requests, InitiateCall(r) PROVE TypeOK' /\ Busy'
  <2>1. PICK w \in Workers :
            Starts(r, [Idle EXCEPT !.pc = "sending", !.worker = w, !.target = "ringing",
                                   !.todo = <<"callee", "callee">>])
      BY <1>2 DEF InitiateCall
  <2>2. <<"callee", "callee">> \in Seq(Users) /\ <<"callee", "callee">> # <<>>
      BY DEF Users
  <2> DEFINE q == [Idle EXCEPT !.pc = "sending", !.worker = w, !.target = "ringing",
                               !.todo = <<"callee", "callee">>]
  <2>3. q \in Request /\ q.todo # <<>> /\ q.pc = "sending"
      BY <2>2 DEF Request, Statuses
  <2>4. req' = [req EXCEPT ![r] = q]
      BY <2>1 DEF Starts
  <2> HIDE DEF q
  <2>5. call' \in Calls
      BY <1>2 DEF InitiateCall, NoCall, Calls, Statuses
  <2> QED
      BY <1>2, <2>3, <2>4, <2>5 DEF InitiateCall, TypeOK, Busy
<1>3. ASSUME NEW r \in Requests, NEW target \in Asked, UpdateLoads(r, target)
      PROVE  TypeOK' /\ Busy'
  <2>1. PICK w \in Workers :
            Starts(r, [Idle EXCEPT !.pc = "loaded", !.worker = w, !.target = target,
                                   !.seen = call])
      BY <1>3 DEF UpdateLoads
  <2> DEFINE q == [Idle EXCEPT !.pc = "loaded", !.worker = w, !.target = target,
                               !.seen = call]
  <2>2. q \in Request /\ q.pc = "loaded" /\ q.target \in Targets
      BY DEF Request, Statuses, TypeOK
  <2>3. req' = [req EXCEPT ![r] = q]
      BY <2>1 DEF Starts
  <2> HIDE DEF q
  <2> QED
      BY <1>3, <2>2, <2>3 DEF UpdateLoads, TypeOK, Busy
<1>4. ASSUME NEW r \in Requests, UpdateCommits(r)
      PROVE  TypeOK' /\ Busy'
  <2> req[r].target \in Targets
      BY <1>4 DEF UpdateCommits, Busy
  <2>1. CASE Crashes(req[r].seen, req[r].target)
    <3>1. req' = [req EXCEPT ![r] = Idle] /\ UNCHANGED <<call, net, registered, heard, overtaken>>
        BY <1>4, <2>1 DEF UpdateCommits
    <3>2. Idle.pc = "idle"
        BY DEF Idle
    <3> QED
        BY <3>1, <3>2 DEF TypeOK, Busy
  <2>2. CASE ~Crashes(req[r].seen, req[r].target)
    <3> DEFINE q == [req[r] EXCEPT !.pc = "sending", !.seen = NoCall,
                                   !.todo = Events(req[r].target)]
    <3>1. /\ req' = [req EXCEPT ![r] = q]
          /\ call' = Flushed(req[r].seen, req[r].target)
          /\ overtaken' \in BOOLEAN
          /\ UNCHANGED <<net, registered, heard>>
        BY <1>4, <2>2 DEF UpdateCommits, TypeOK
    <3>2. q \in Request /\ q.todo # <<>> /\ q.pc = "sending"
      <4>1. Events(req[r].target) \in Seq(Users) /\ Events(req[r].target) # <<>>
          BY EventsAreTyped
      <4>2. NoCall \in Calls
          BY DEF NoCall, Calls, Statuses
      <4>3. req[r] \in Request
          BY DEF TypeOK
      <4> QED
          BY <4>1, <4>2, <4>3 DEF Request
    <3>3. call' \in Calls
        BY <1>4, <3>1 DEF Flushed, TypeOK, Calls, Statuses
    <3> HIDE DEF q
    <3> QED
        BY <3>1, <3>2, <3>3 DEF TypeOK, Busy
  <2> QED
      BY <2>1, <2>2
<1>5. ASSUME NEW r \in Requests, Send(r) PROVE TypeOK' /\ Busy'
  <2> DEFINE rest  == Tail(req[r].todo)
             found == SocketsOf(Head(req[r].todo), req[r].worker)
             dead  == {s \in found : net[s] = "dead"}
             q     == IF rest = <<>> THEN Idle ELSE [req[r] EXCEPT !.todo = rest]
  <2>1. rest \in Seq(Users)
      BY <1>5, HeadTailProperties DEF Send, TypeOK, Busy, Request
  <2>2. q \in Request /\ (q.pc = "sending" => q.todo # <<>>) /\ q.pc # "loaded"
      BY <1>5, <2>1 DEF Send, TypeOK, Request, Idle
  <2>3. /\ req' = [req EXCEPT ![r] = q]
        /\ heard' = [s \in Sockets |-> IF s \in found /\ net[s] = "live"
                                       THEN req[r].target ELSE heard[s]]
        /\ registered' = registered \ dead
        /\ net' = [s \in Sockets |-> IF s \in dead THEN "free" ELSE net[s]]
        /\ UNCHANGED <<call, overtaken>>
      BY <1>5 DEF Send, TypeOK
  <2>4. req[r].target \in Statuses
      BY DEF TypeOK, Request
  <2> HIDE DEF rest, q, found, dead
  <2> QED
      BY <2>2, <2>3, <2>4 DEF TypeOK, Busy, NetStates
<1>6. ASSUME NEW s \in Sockets, Connect(s) \/ Vanish(s) \/ LoopEnds(s)
      PROVE  TypeOK' /\ Busy'
    BY <1>6 DEF Connect, Vanish, LoopEnds, TypeOK, Busy, NetStates, Statuses
<1>7. ASSUME NEW w \in Workers, Restart(w) PROVE TypeOK' /\ Busy'
  <2>1. Idle.pc = "idle"
      BY DEF Idle
  <2> QED
      BY <1>7, <2>1 DEF Restart, TypeOK, Busy, NetStates, Statuses
<1> QED
    BY <1>1, <1>2, <1>3, <1>4, <1>5, <1>6, <1>7 DEF Next, Update

LEMMA TypeInit == Init => TypeOK /\ Busy
<1>1. Idle.pc = "idle"
    BY DEF Idle
<1>2. NoCall \in Calls /\ "NONE" \in Statuses /\ "free" \in NetStates
    BY DEF NoCall, Calls, NetStates, Statuses
<1>3. Init => TypeOK
    BY <1>2, IdleIsTyped, Zenon DEF Init, TypeOK
<1>4. Init => Busy
  <2>1. SUFFICES ASSUME Init, NEW r \in Requests PROVE req[r] = Idle
      BY <1>1 DEF Busy
  <2> QED
      BY <2>1 DEF Init
<1> QED
    BY <1>3, <1>4

\* Every row, socket and request in progress stays well typed.
THEOREM CallsTypeCorrect == Spec => []TypeOK
<1>1. Spec => [](TypeOK /\ Busy)
    BY TypeInit, TypeStep, PTL DEF Spec
<1> QED
    BY <1>1, PTL

-----------------------------------------------------------------------------
(***************************************************************************)
(* Status and timestamps.  What a request has loaded may be stale, but the *)
(* stamps are never taken back and a call never rings again: this is what  *)
(* makes writing from a stale object harmless to their agreement.          *)
(***************************************************************************)
SeenIsPast ==
    \A r \in Requests : req[r].pc = "loaded" =>
        /\ call.status # "NONE"
        /\ req[r].seen.connected => call.connected
        /\ req[r].seen.ended => call.ended
        /\ req[r].seen.status # "ringing" => call.status # "ringing"

Inv == TypeOK /\ Busy /\ StampsMatch /\ SeenIsPast

LEMMA StampsStep ==
    ASSUME Inv, [Next]_vars
    PROVE  StampsMatch' /\ SeenIsPast'
<1>1. CASE UNCHANGED vars
    BY <1>1 DEF vars, Inv, StampsMatch, SeenIsPast
<1>2. ASSUME NEW r \in Requests, InitiateCall(r) PROVE StampsMatch' /\ SeenIsPast'
  <2>1. call'.status = "ringing" /\ ~call'.connected /\ ~call'.ended
      BY <1>2 DEF InitiateCall, NoCall
  <2>2. \A q \in Requests : req'[q].pc # "loaded"
    <3>1. \A q \in Requests : req[q].pc # "loaded"
        BY <1>2 DEF InitiateCall, Inv, SeenIsPast
    <3>2. PICK w \in Workers :
              req' = [req EXCEPT ![r] = [Idle EXCEPT !.pc = "sending", !.worker = w,
                          !.target = "ringing", !.todo = <<"callee", "callee">>]]
        BY <1>2 DEF InitiateCall, Starts
    <3>3. [Idle EXCEPT !.pc = "sending", !.worker = w, !.target = "ringing",
                       !.todo = <<"callee", "callee">>].pc = "sending"
        BY DEF Idle
    <3> QED
        BY <3>1, <3>2, <3>3 DEF Inv, TypeOK
  <2> QED
      BY <2>1, <2>2 DEF StampsMatch, SeenIsPast, Terminal
<1>3. ASSUME NEW r \in Requests, NEW target \in Asked, UpdateLoads(r, target)
      PROVE  StampsMatch' /\ SeenIsPast'
  <2>1. PICK w \in Workers :
            req' = [req EXCEPT ![r] = [Idle EXCEPT !.pc = "loaded", !.worker = w,
                        !.target = target, !.seen = call]]
      BY <1>3 DEF UpdateLoads, Starts
  <2> DEFINE q == [Idle EXCEPT !.pc = "loaded", !.worker = w, !.target = target,
                               !.seen = call]
  <2>2. q.seen = call
      BY DEF Idle
  <2>3. req' = [req EXCEPT ![r] = q]
      BY <2>1
  <2> HIDE DEF q
  <2>4. call' = call /\ call.status # "NONE"
      BY <1>3 DEF UpdateLoads
  <2> QED
      BY <2>2, <2>3, <2>4 DEF Inv, TypeOK, StampsMatch, SeenIsPast
<1>4. ASSUME NEW r \in Requests, UpdateCommits(r) PROVE StampsMatch' /\ SeenIsPast'
  <2>1. CASE Crashes(req[r].seen, req[r].target)
    <3>1. req' = [req EXCEPT ![r] = Idle] /\ call' = call
        BY <1>4, <2>1 DEF UpdateCommits
    <3>2. Idle.pc = "idle"
        BY DEF Idle
    <3> QED
        BY <3>1, <3>2 DEF Inv, TypeOK, StampsMatch, SeenIsPast
  <2>2. CASE ~Crashes(req[r].seen, req[r].target)
    <3> DEFINE seen == req[r].seen
               target == req[r].target
    <3>1. /\ target \in Targets
          /\ seen.connected => call.connected
          /\ seen.ended => call.ended
          /\ seen.status # "ringing" => call.status # "ringing"
          /\ call.status # "NONE"
        BY <1>4 DEF UpdateCommits, Inv, Busy, SeenIsPast
    <3>2. call' = Flushed(seen, target)
        BY <1>4, <2>2 DEF UpdateCommits
    <3>3. /\ call'.status = IF target # seen.status THEN target ELSE call.status
          /\ call'.connected = (call.connected \/ (target = "connected" /\ ~seen.connected))
          /\ call'.ended = (call.ended \/ (target \in Terminal /\ ~seen.ended))
        BY <3>2 DEF Flushed
    <3> HIDE DEF seen, target
    <3>4. call'.status # "ringing" /\ call'.status # "NONE"
        BY <3>1, <3>3 DEF Targets, Terminal
    <3>5. call.connected => call'.connected
        BY <3>3
    <3>6. call.ended => call'.ended
        BY <3>3
    <3>7. target = "connected" => call'.connected
        BY <3>1, <3>3
    <3>8. target \in Terminal => call'.ended
        BY <3>1, <3>3
    <3>9. StampsMatch'
        BY <3>1, <3>3, <3>4, <3>5, <3>6, <3>7, <3>8 DEF Inv, StampsMatch
    <3>10. /\ \A q \in Requests : req'[q].pc = "loaded" => req'[q] = req[q]
        BY <1>4, <2>2 DEF UpdateCommits, Inv, TypeOK, Request
    <3> QED
        BY <3>4, <3>5, <3>6, <3>9, <3>10 DEF Inv, SeenIsPast
  <2> QED
      BY <2>1, <2>2
<1>5. ASSUME NEW r \in Requests, Send(r) PROVE StampsMatch' /\ SeenIsPast'
  <2>1. call' = call
      BY <1>5 DEF Send
  <2>2. \A q \in Requests : req'[q].pc = "loaded" => req'[q] = req[q]
    <3>1. Idle.pc = "idle" /\ req[r].pc = "sending"
        BY <1>5 DEF Idle, Send
    <3> DEFINE m == IF Tail(req[r].todo) = <<>> THEN Idle
                    ELSE [req[r] EXCEPT !.todo = Tail(req[r].todo)]
    <3>2. req' = [req EXCEPT ![r] = m]
        BY <1>5 DEF Send, Inv, TypeOK
    <3>3. m.pc # "loaded"
        BY <3>1 DEF Inv, TypeOK, Request
    <3> HIDE DEF m
    <3> QED
        BY <3>2, <3>3 DEF Inv, TypeOK
  <2> QED
      BY <2>1, <2>2 DEF Inv, StampsMatch, SeenIsPast
<1>6. ASSUME NEW s \in Sockets, Connect(s) \/ Vanish(s) \/ LoopEnds(s)
      PROVE  StampsMatch' /\ SeenIsPast'
    BY <1>6 DEF Connect, Vanish, LoopEnds, Inv, StampsMatch, SeenIsPast
<1>7. ASSUME NEW w \in Workers, Restart(w) PROVE StampsMatch' /\ SeenIsPast'
  <2>1. Idle.pc = "idle"
      BY DEF Idle
  <2>2. \A q \in Requests : req'[q].pc = "loaded" => req'[q] = req[q]
      BY <1>7, <2>1 DEF Restart
  <2> QED
      BY <1>7, <2>2 DEF Restart, Inv, StampsMatch, SeenIsPast
<1> QED
    BY <1>1, <1>2, <1>3, <1>4, <1>5, <1>6, <1>7 DEF Next, Update

LEMMA InvInit == Init => Inv
<1>1. Init => StampsMatch
    BY DEF Init, StampsMatch, NoCall, Terminal
<1>2. Init => SeenIsPast
  <2>1. Idle.pc = "idle"
      BY DEF Idle
  <2> QED
      BY <2>1 DEF Init, SeenIsPast
<1> QED
    BY <1>1, <1>2, TypeInit DEF Inv

\* The inductive invariant holds: what a request has loaded is the row's past.
THEOREM InvHolds == Spec => []Inv
<1>1. Inv /\ [Next]_vars => Inv'
    BY TypeStep, StampsStep DEF Inv
<1> QED
    BY <1>1, InvInit, PTL DEF Spec

\* Whatever requests overlap, a connected call has its connected_at, a closed
\* one its ended_at, and a ringing one neither.
THEOREM StampsAgree == Spec => []StampsMatch
<1>1. Inv => StampsMatch
    BY DEF Inv
<1> QED
    BY <1>1, InvHolds, PTL

-----------------------------------------------------------------------------
(***************************************************************************)
(* What the devices of the worker that serves a request hear.              *)
(***************************************************************************)

\* No live socket falls out of the registry, so is_online never denies a user
\* who is there.
LiveIsRegistered == \A s \in Sockets : net[s] = "live" => s \in registered

\* Nobody hears of a call before it is stored, and requests are about a call
\* that is stored.
HeardIsStored ==
    /\ \A r \in Requests : req[r].pc # "idle" => call.status # "NONE"
    /\ call.status = "NONE" => \A s \in Sockets : heard[s] = "NONE"
    /\ \A s \in Sockets : net[s] # "live" => heard[s] = "NONE"

\* Until an update overtakes another request, one request sends at a time and
\* what the others have loaded is the row as it is.
OneSends ==
    ~overtaken =>
        /\ \A r, q \in Requests : req[r].pc = "sending" /\ req[q].pc = "sending" => r = q
        /\ \A r \in Requests : req[r].pc = "loaded" => req[r].seen = call

Knows(s) == net[s] = "live" /\ heard[s] # "NONE" => heard[s] = call.status

\* The request r still has an event to send to the owner of s.
Owed(r, s) == \E i \in DOMAIN req[r].todo : req[r].todo[i] = OwnerOf[s]

\* A device that does not know the status of the call will be told by the
\* request of its worker that has just changed it.
ToldSoon ==
    ~overtaken =>
        \A r \in Requests : req[r].pc = "sending" =>
            /\ req[r].target = call.status
            /\ \A s \in Sockets : WorkerOf[s] = req[r].worker => Knows(s) \/ Owed(r, s)

HearInv == TypeOK /\ Busy /\ LiveIsRegistered /\ HeardIsStored /\ OneSends /\ ToldSoon

LEMMA RegistryStep ==
    ASSUME HearInv, [Next]_vars
    PROVE  LiveIsRegistered'
<1>1. CASE UNCHANGED vars
    BY <1>1 DEF vars, HearInv, LiveIsRegistered
<1>2. ASSUME NEW r \in Requests, InitiateCall(r) \/ Update(r) PROVE LiveIsRegistered'
    BY <1>2 DEF InitiateCall, Update, UpdateLoads, UpdateCommits, HearInv, LiveIsRegistered
<1>3. ASSUME NEW r \in Requests, Send(r) PROVE LiveIsRegistered'
    BY <1>3 DEF Send, HearInv, LiveIsRegistered, TypeOK
<1>4. ASSUME NEW s \in Sockets, Connect(s) \/ Vanish(s) \/ LoopEnds(s)
      PROVE  LiveIsRegistered'
    BY <1>4 DEF Connect, Vanish, LoopEnds, HearInv, LiveIsRegistered, TypeOK
<1>5. ASSUME NEW w \in Workers, Restart(w) PROVE LiveIsRegistered'
    BY <1>5 DEF Restart, HearInv, LiveIsRegistered, TypeOK
<1> QED
    BY <1>1, <1>2, <1>3, <1>4, <1>5 DEF Next

LEMMA InitiateStep ==
    ASSUME HearInv, NEW r \in Requests, InitiateCall(r)
    PROVE  HeardIsStored' /\ OneSends' /\ ToldSoon'
<1>1. PICK w \in Workers :
          Starts(r, [Idle EXCEPT !.pc = "sending", !.worker = w, !.target = "ringing",
                                 !.todo = <<"callee", "callee">>])
    BY DEF InitiateCall
<1> DEFINE m == [Idle EXCEPT !.pc = "sending", !.worker = w, !.target = "ringing",
                             !.todo = <<"callee", "callee">>]
<1>2. m.pc = "sending" /\ m.target = "ringing"
    BY DEF Idle
<1>3. req' = [req EXCEPT ![r] = m]
    BY <1>1 DEF Starts
<1> HIDE DEF m
<1>4. /\ call'.status = "ringing" /\ UNCHANGED <<net, registered, heard, overtaken>>
      /\ \A s \in Sockets : heard[s] = "NONE"
      /\ \A q \in Requests : req[q].pc = "idle"
    BY DEF InitiateCall, NoCall, HearInv, HeardIsStored
<1>5. req'[r] = m /\ \A q \in Requests : q # r => req'[q] = req[q]
    BY <1>3 DEF HearInv, TypeOK
<1>6. \A s \in Sockets : Knows(s)'
    BY <1>4 DEF Knows
<1>7. \A q \in Requests : req'[q].pc # "idle" => q = r
    BY <1>4, <1>5
<1>8. OneSends'
    BY <1>2, <1>5, <1>7 DEF OneSends
<1>9. ToldSoon'
    BY <1>2, <1>4, <1>5, <1>6, <1>7 DEF ToldSoon
<1>10. HeardIsStored'
    BY <1>4, <1>7 DEF HeardIsStored
<1> QED
    BY <1>8, <1>9, <1>10

LEMMA LoadStep ==
    ASSUME HearInv, NEW r \in Requests, NEW target \in Asked, UpdateLoads(r, target)
    PROVE  HeardIsStored' /\ OneSends' /\ ToldSoon'
<1>1. PICK w \in Workers :
          Starts(r, [Idle EXCEPT !.pc = "loaded", !.worker = w, !.target = target,
                                 !.seen = call])
    BY DEF UpdateLoads
<1> DEFINE m == [Idle EXCEPT !.pc = "loaded", !.worker = w, !.target = target,
                             !.seen = call]
<1>2. m.pc = "loaded" /\ m.seen = call
    BY DEF Idle
<1>3. req' = [req EXCEPT ![r] = m]
    BY <1>1 DEF Starts
<1> HIDE DEF m
<1>4. call.status # "NONE" /\ UNCHANGED <<call, net, registered, heard, overtaken>>
    BY DEF UpdateLoads
<1>5. req'[r] = m /\ \A q \in Requests : q # r => req'[q] = req[q]
    BY <1>3 DEF HearInv, TypeOK
<1>6. \A q \in Requests : req'[q].pc = "sending" => req'[q] = req[q]
    BY <1>2, <1>5
<1>7. OneSends'
  <2>1. ~overtaken => \A q \in Requests : req'[q].pc = "loaded" => req'[q].seen = call
      BY <1>2, <1>5 DEF HearInv, OneSends
  <2> QED
      BY <1>4, <1>6, <2>1 DEF HearInv, OneSends
<1>8. ToldSoon'
  <2>1. \A s \in Sockets : Knows(s)' = Knows(s)
      BY <1>4 DEF Knows
  <2>2. \A q \in Requests, s \in Sockets : req'[q].pc = "sending" => Owed(q, s)' = Owed(q, s)
      BY <1>6 DEF Owed
  <2> QED
      BY <1>4, <1>6, <2>1, <2>2 DEF HearInv, ToldSoon
<1>9. HeardIsStored'
    BY <1>4 DEF HearInv, HeardIsStored
<1> QED
    BY <1>7, <1>8, <1>9

LEMMA CommitStep ==
    ASSUME HearInv, NEW r \in Requests, UpdateCommits(r)
    PROVE  HeardIsStored' /\ OneSends' /\ ToldSoon'
<1>1. /\ req[r].pc = "loaded" /\ req[r].target \in Targets /\ call.status # "NONE"
      /\ UNCHANGED <<net, registered, heard>>
    BY DEF UpdateCommits, HearInv, Busy, HeardIsStored
<1>2. CASE Crashes(req[r].seen, req[r].target)
  <2>1. req' = [req EXCEPT ![r] = Idle] /\ UNCHANGED <<call, overtaken>>
      BY <1>2 DEF UpdateCommits
  <2>2. Idle.pc = "idle"
      BY DEF Idle
  <2>3. req'[r].pc = "idle" /\ \A q \in Requests : q # r => req'[q] = req[q]
      BY <2>1, <2>2 DEF HearInv, TypeOK
  <2>4. \A q \in Requests : req'[q].pc # "idle" => req'[q] = req[q]
      BY <2>3
  <2>5. HeardIsStored' /\ OneSends'
      BY <1>1, <2>1, <2>4 DEF HearInv, HeardIsStored, OneSends
  <2>6. ToldSoon'
    <3>1. \A s \in Sockets : Knows(s)' = Knows(s)
        BY <1>1, <2>1 DEF Knows
    <3>2. \A q \in Requests, s \in Sockets : req'[q].pc = "sending" => Owed(q, s)' = Owed(q, s)
        BY <2>4 DEF Owed
    <3> QED
        BY <2>1, <2>4, <3>1, <3>2 DEF HearInv, ToldSoon
  <2> QED
      BY <2>5, <2>6
<1>3. CASE ~Crashes(req[r].seen, req[r].target)
  <2> DEFINE m == [req[r] EXCEPT !.pc = "sending", !.seen = NoCall,
                                 !.todo = Events(req[r].target)]
  <2>1. /\ req' = [req EXCEPT ![r] = m] /\ call' = Flushed(req[r].seen, req[r].target)
        /\ overtaken' = (overtaken \/ Running # {r})
      BY <1>3 DEF UpdateCommits, HearInv, TypeOK
  <2>2. m.pc = "sending" /\ m.target = req[r].target /\ m.todo = Events(req[r].target)
      BY DEF HearInv, TypeOK, Request
  <2> HIDE DEF m
  <2>3. req'[r] = m /\ \A q \in Requests : q # r => req'[q] = req[q]
      BY <2>1 DEF HearInv, TypeOK
  <2>4. call'.status # "NONE"
      BY <1>1, <2>1 DEF Flushed, Targets, Terminal
  <2>5. HeardIsStored'
      BY <1>1, <2>4 DEF HearInv, HeardIsStored
  <2>6. OneSends' /\ ToldSoon'
    <3>1. SUFFICES ASSUME ~overtaken' PROVE OneSends' /\ ToldSoon'
        BY DEF OneSends, ToldSoon
    <3>2. ~overtaken /\ \A q \in Requests : req[q].pc # "idle" => q = r
        BY <2>1, <3>1 DEF Running
    <3>3. req[r].seen = call
        BY <1>1, <3>2 DEF HearInv, OneSends
    <3>4. call'.status = req[r].target
        BY <2>1, <3>3 DEF Flushed
    <3>5. \A s \in Sockets : Owed(r, s)'
      <4>1. SUFFICES ASSUME NEW s \in Sockets
                     PROVE  \E i \in DOMAIN req'[r].todo : req'[r].todo[i] = OwnerOf[s]
          BY DEF Owed
      <4>2. OwnerOf[s] \in Users
          BY CallsAssumption
      <4> QED
          BY <1>1, <2>2, <2>3, <4>2, EventsAreTyped
    <3>6. \A q \in Requests : req'[q].pc # "idle" => q = r
        BY <2>3, <3>2
    <3>7. req'[r].pc = "sending" /\ req'[r].target = call'.status
        BY <2>2, <2>3, <3>4
    <3>8. OneSends'
        BY <3>6, <3>7 DEF OneSends
    <3>9. ToldSoon'
        BY <3>5, <3>6, <3>7 DEF ToldSoon
    <3> QED
        BY <3>8, <3>9
  <2> QED
      BY <2>5, <2>6
<1> QED
    BY <1>2, <1>3

LEMMA SendStep ==
    ASSUME HearInv, NEW r \in Requests, Send(r)
    PROVE  /\ HeardIsStored' /\ OneSends' /\ ToldSoon'
           /\ req'[r].pc = "idle" /\ ~overtaken =>
                 \A s \in Sockets : WorkerOf[s] = req[r].worker => Knows(s)'
           /\ \A q \in Requests : q # r => req'[q] = req[q]
<1> DEFINE u     == Head(req[r].todo)
           rest  == Tail(req[r].todo)
           found == SocketsOf(u, req[r].worker)
           dead  == {s \in found : net[s] = "dead"}
           m     == IF rest = <<>> THEN Idle ELSE [req[r] EXCEPT !.todo = rest]
<1>1. /\ req[r].pc = "sending" /\ call' = call /\ overtaken' = overtaken
      /\ req' = [req EXCEPT ![r] = m]
      /\ heard' = [s \in Sockets |-> IF s \in found /\ net[s] = "live"
                                     THEN req[r].target ELSE heard[s]]
      /\ net' = [s \in Sockets |-> IF s \in dead THEN "free" ELSE net[s]]
    BY DEF Send, HearInv, TypeOK
<1>2. call.status # "NONE"
    BY <1>1 DEF HearInv, HeardIsStored
<1>3. \/ rest = <<>> /\ m = Idle
      \/ /\ rest # <<>> /\ m.pc = "sending" /\ m.target = req[r].target
         /\ m.todo = rest /\ m.worker = req[r].worker
    BY <1>1 DEF HearInv, TypeOK, Request
<1>4. Idle.pc = "idle"
    BY DEF Idle
<1>5. \A s \in Sockets : net[s] = "live" /\ OwnerOf[s] = u /\ WorkerOf[s] = req[r].worker
          => s \in found
    BY DEF SocketsOf, HearInv, LiveIsRegistered
<1>6. \A s \in Sockets : Owed(r, s) =>
          OwnerOf[s] = u \/ \E i \in DOMAIN rest : rest[i] = OwnerOf[s]
  <2>1. req[r].todo \in Seq(Users) /\ req[r].todo # <<>>
      BY <1>1 DEF HearInv, TypeOK, Busy, Request
  <2>2. SUFFICES ASSUME NEW s \in Sockets, NEW i \in DOMAIN req[r].todo,
                        req[r].todo[i] = OwnerOf[s], OwnerOf[s] # u
                 PROVE  \E j \in DOMAIN rest : rest[j] = OwnerOf[s]
      BY DEF Owed
  <2>3. i # 1 /\ i \in 1 .. Len(req[r].todo)
      BY <2>1, <2>2
  <2>4. i - 1 \in DOMAIN rest /\ rest[i - 1] = req[r].todo[i]
      BY <2>1, <2>3
  <2> QED
      BY <2>2, <2>4
<1>7. \A s \in dead : net[s] = "dead"
    OBVIOUS
<1> HIDE DEF u, rest, found, dead, m
<1>8. req'[r] = m /\ \A q \in Requests : q # r => req'[q] = req[q]
    BY <1>1 DEF HearInv, TypeOK
<1>9. HeardIsStored'
  <2>1. \A s \in Sockets : net'[s] # "live" => heard'[s] = "NONE"
    <3>1. \A s \in Sockets : net'[s] # "live" => net[s] # "live"
        BY <1>1, <1>7
    <3> QED
        BY <1>1, <3>1 DEF HearInv, HeardIsStored
  <2> QED
      BY <1>1, <1>2, <2>1 DEF HeardIsStored
<1>10. OneSends'
  <2>1. m.pc # "loaded"
      BY <1>3, <1>4
  <2> QED
      BY <1>1, <1>8, <2>1 DEF HearInv, OneSends
<1>11. ASSUME ~overtaken
       PROVE  /\ req[r].target = call.status
              /\ \A s \in Sockets : WorkerOf[s] = req[r].worker =>
                    Knows(s)' \/ \E i \in DOMAIN rest : rest[i] = OwnerOf[s]
  <2>1. /\ req[r].target = call.status
        /\ \A s \in Sockets : WorkerOf[s] = req[r].worker => Knows(s) \/ Owed(r, s)
      BY <1>1, <1>11 DEF HearInv, ToldSoon
  <2>2. \A s \in Sockets : Knows(s) => Knows(s)'
      BY <1>1, <2>1 DEF Knows
  <2>3. \A s \in Sockets : OwnerOf[s] = u /\ WorkerOf[s] = req[r].worker => Knows(s)'
      BY <1>1, <1>5, <2>1 DEF Knows
  <2> QED
      BY <1>6, <2>1, <2>2, <2>3
<1>12. ToldSoon'
  <2>1. SUFFICES ASSUME ~overtaken, NEW q \in Requests, req'[q].pc = "sending"
                 PROVE  /\ req'[q].target = call'.status
                        /\ \A s \in Sockets : WorkerOf[s] = req'[q].worker =>
                              Knows(s)' \/ Owed(q, s)'
      BY <1>1 DEF ToldSoon
  <2>2. q = r /\ m.pc = "sending"
      BY <1>1, <1>8, <2>1 DEF HearInv, OneSends
  <2>3. req'[q] = m /\ m.target = req[r].target /\ m.todo = rest /\ m.worker = req[r].worker
      BY <1>3, <1>4, <1>8, <2>2
  <2> QED
      BY <1>1, <1>11, <2>1, <2>3 DEF Owed
<1>13. ASSUME req'[r].pc = "idle", ~overtaken
       PROVE  \A s \in Sockets : WorkerOf[s] = req[r].worker => Knows(s)'
  <2>1. rest = <<>>
      BY <1>3, <1>8, <1>13
  <2>2. ~\E i \in DOMAIN rest : TRUE
      BY <2>1
  <2> QED
      BY <1>11, <1>13, <2>2
<1> QED
    BY <1>8, <1>9, <1>10, <1>12, <1>13

LEMMA SocketStep ==
    ASSUME HearInv, NEW s \in Sockets, Connect(s) \/ Vanish(s) \/ LoopEnds(s)
    PROVE  HeardIsStored' /\ OneSends' /\ ToldSoon'
<1>1. UNCHANGED <<call, req, overtaken>>
    BY DEF Connect, Vanish, LoopEnds
<1>2. HeardIsStored'
    BY DEF Connect, Vanish, LoopEnds, HearInv, HeardIsStored, TypeOK
<1>3. \A t \in Sockets : Knows(t) => Knows(t)'
    BY DEF Connect, Vanish, LoopEnds, HearInv, HeardIsStored, Knows, TypeOK
<1>4. \A r \in Requests, t \in Sockets : Owed(r, t)' = Owed(r, t)
    BY <1>1 DEF Owed
<1>5. ToldSoon'
    BY <1>1, <1>3, <1>4 DEF HearInv, ToldSoon
<1> QED
    BY <1>1, <1>2, <1>5 DEF HearInv, OneSends

LEMMA RestartStep ==
    ASSUME HearInv, NEW w \in Workers, Restart(w)
    PROVE  /\ HeardIsStored' /\ OneSends' /\ ToldSoon'
           /\ \A s \in Sockets : WorkerOf[s] = w => Knows(s)'
           /\ \A r \in Requests : req[r].worker # w => req'[r] = req[r]
<1>1. UNCHANGED <<call, overtaken>>
    BY DEF Restart
<1>2. \A r \in Requests : req'[r] = IF req[r].worker = w THEN Idle ELSE req[r]
    BY DEF Restart
<1>3. Idle.pc = "idle"
    BY DEF Idle
<1>4. \A r \in Requests : req'[r].pc # "idle" => req'[r] = req[r] /\ req[r].worker # w
    BY <1>2, <1>3
<1>5. \A s \in Sockets :
          IF WorkerOf[s] = w THEN net'[s] = "free" /\ heard'[s] = "NONE"
                             ELSE net'[s] = net[s] /\ heard'[s] = heard[s]
    BY DEF Restart
<1>6. \A s \in Sockets : (Knows(s) => Knows(s)') /\ (WorkerOf[s] = w => Knows(s)')
    BY <1>1, <1>5 DEF Knows
<1>7. HeardIsStored'
    BY <1>1, <1>4, <1>5 DEF HearInv, HeardIsStored
<1>8. OneSends'
    BY <1>1, <1>4 DEF HearInv, OneSends
<1>9. ToldSoon'
  <2>1. \A r \in Requests, s \in Sockets : req'[r].pc = "sending" => Owed(r, s)' = Owed(r, s)
      BY <1>4 DEF Owed
  <2> QED
      BY <1>1, <1>4, <1>6, <2>1 DEF HearInv, ToldSoon
<1> QED
    BY <1>2, <1>6, <1>7, <1>8, <1>9

\* What every step leaves: when a request ends, the devices of its worker know.
Told ==
    \A r \in Requests : Ends(r) /\ ~overtaken =>
        \A s \in Sockets : WorkerOf[s] = req[r].worker => Knows(s)'

LEMMA EndStep == HearInv /\ Next => Told
<1> SUFFICES ASSUME HearInv, Next, NEW r \in Requests, Ends(r), ~overtaken
             PROVE  \A s \in Sockets : WorkerOf[s] = req[r].worker => Knows(s)'
    BY DEF Told
<1> req[r].pc = "sending" /\ req'[r].pc = "idle"
    BY DEF Ends
<1>1. ASSUME NEW q \in Requests, InitiateCall(q) \/ (\E target \in Asked : UpdateLoads(q, target))
      PROVE  FALSE
  <2>1. q # r /\ \E m : req' = [req EXCEPT ![q] = m]
      BY <1>1 DEF InitiateCall, UpdateLoads, Starts
  <2>2. req'[r] = req[r]
      BY <2>1 DEF HearInv, TypeOK
  <2> QED
      BY <2>2
<1>2. ASSUME NEW q \in Requests, UpdateCommits(q) PROVE FALSE
  <2>1. q # r
      BY <1>2 DEF UpdateCommits
  <2>2. req'[r] = req[r]
      BY <1>2, <2>1 DEF UpdateCommits, HearInv, TypeOK
  <2> QED
      BY <2>2
<1>3. ASSUME NEW q \in Requests, Send(q)
      PROVE  \A s \in Sockets : WorkerOf[s] = req[r].worker => Knows(s)'
    BY <1>3, SendStep
<1>4. ASSUME NEW s \in Sockets, Connect(s) \/ Vanish(s) \/ LoopEnds(s) PROVE FALSE
  <2>1. req' = req
      BY <1>4 DEF Connect, Vanish, LoopEnds
  <2> QED
      BY <2>1
<1>5. ASSUME NEW w \in Workers, Restart(w)
      PROVE  \A s \in Sockets : WorkerOf[s] = req[r].worker => Knows(s)'
  <2>1. req[r].worker = w
      BY <1>5, RestartStep
  <2> QED
      BY <1>5, <2>1, RestartStep
<1> QED
    BY <1>1, <1>2, <1>3, <1>4, <1>5 DEF Next, Update

\* When a request ends, every device of its worker that heard of the call knows
\* the status of the row: for any number of workers, devices and requests,
\* whatever sockets come, die and are dropped and whatever workers restart on
\* the way, until an update is committed with another request in progress.
THEOREM DevicesHear == Spec => EveryDeviceHears
<1>1. Init => HearInv
  <2>1. Idle.pc = "idle"
      BY DEF Idle
  <2>2. ASSUME Init
        PROVE  LiveIsRegistered /\ HeardIsStored /\ OneSends /\ ToldSoon
    <3>1. /\ \A r \in Requests : req[r] = Idle
          /\ \A s \in Sockets : net[s] = "free" /\ heard[s] = "NONE"
        BY <2>2 DEF Init
    <3> QED
        BY <2>1, <3>1 DEF LiveIsRegistered, HeardIsStored, OneSends, ToldSoon
  <2> QED
      BY <2>2, TypeInit DEF HearInv
<1>2. HearInv /\ [Next]_vars => HearInv'
  <2>1. SUFFICES ASSUME HearInv, [Next]_vars
                 PROVE  HeardIsStored' /\ OneSends' /\ ToldSoon'
      BY TypeStep, RegistryStep DEF HearInv
  <2>2. CASE UNCHANGED vars
    <3>1. /\ \A s \in Sockets : Knows(s)' = Knows(s)
          /\ \A r \in Requests, s \in Sockets : Owed(r, s)' = Owed(r, s)
        BY <2>2 DEF vars, Knows, Owed
    <3> QED
        BY <2>1, <2>2, <3>1 DEF vars, HearInv, HeardIsStored, OneSends, ToldSoon
  <2>3. CASE Next
      BY <2>1, <2>3, InitiateStep, LoadStep, CommitStep, SendStep, SocketStep, RestartStep
         DEF Next, Update
  <2> QED
      BY <2>1, <2>2, <2>3
<1>3. HearInv /\ [Next]_vars =>
          [\A r \in Requests : Ends(r) /\ ~overtaken =>
              \A s \in Sockets :
                  WorkerOf[s] = req[r].worker /\ net'[s] = "live" /\ heard'[s] # "NONE"
                      => heard'[s] = call'.status]_vars
    BY EndStep DEF Told, Knows
<1> QED
    BY <1>1, <1>2, <1>3, PTL DEF Spec, EveryDeviceHears

==============================================================================
