-------------------------- MODULE PluginRPC_proofs --------------------------
(***************************************************************************)
(* The two maps of the plugin host and the routing of writes, for any      *)
(* number of state machines and transactions and whatever times out; then  *)
(* that the exchange implements AtomicTx while nothing times out.          *)
(***************************************************************************)
EXTENDS PluginRPC, TLAPS

-----------------------------------------------------------------------------
(* The inductive invariant. *)

\* the ids that either map of the host holds an entry for
Registered == pending \cup {r[1] : r \in requestFSMs}

\* the request a state machine waits for is the last one it drew an id for
CallIsLast(f) == caller[f].at # "idle" /\ caller[f].id = <<f, used[f]>>

\* an id that some state machine has drawn
Drawn(id) == \E f \in Fsm, n \in Nat : id = <<f, n>> /\ n <= used[f]

Types ==
    /\ used \in [Fsm -> Nat]
    /\ caller \in [Fsm -> [at : {"idle", "waiting", "timedOut"},
                           id : {NoId} \cup (Fsm \X Nat), call : Request]]
    /\ base \in [Fsm -> SUBSET (Fsm \X Nat)] /\ txn \in [Fsm -> SUBSET (Fsm \X Nat)]
    /\ \A g \in goroutines :
          g = [id |-> g.id, kind |-> g.kind, at |-> g.at, fsm |-> g.fsm]

\* a state machine in a call waits for the id it drew last
WaitsForLast == \A f \in Fsm : caller[f].at # "idle" => caller[f].id = <<f, used[f]>>

\* the maps hold the ids of calls in progress, with the state machine that calls
MapsHoldCalls ==
    /\ \A id \in pending : \E f \in Fsm : id = <<f, used[f]>> /\ CallIsLast(f)
    /\ \A r \in requestFSMs : \E f \in Fsm : r = <<<<f, used[f]>>, f>> /\ CallIsLast(f)

\* an answer that was matched has left both maps before it reaches its channel
AnswersAreForgotten ==
    /\ \A a \in channel : Drawn(a[1]) /\ a[1] \notin Registered
    /\ \A g \in goroutines :
          g.at = "forward" => Drawn(g.id) /\ g.id \notin Registered

\* a request that was looked up goes to the state machine that made it
ServesItsMachine ==
    \A g \in goroutines :
        g.at = "serve" => g.fsm \in Fsm /\ \E n \in Nat : g.id = <<g.fsm, n>>

IInv ==
    /\ Types /\ WaitsForLast /\ MapsHoldCalls /\ AnswersAreForgotten
    /\ ServesItsMachine /\ WritesStayWithTheirMachine

-----------------------------------------------------------------------------
(* Steps. *)

\* Nothing that the invariant is about changes.
LEMMA Untouched ==
    ASSUME IInv, UNCHANGED <<used, caller, pending, requestFSMs, channel, goroutines, base, txn>>
    PROVE  IInv'
BY DEF IInv, Types, WaitsForLast, MapsHoldCalls, AnswersAreForgotten, ServesItsMachine,
       WritesStayWithTheirMachine, Registered, CallIsLast, Drawn

\* A call registers an id that was not drawn before.
LEMMA CallRegisters ==
    ASSUME IInv, NEW f \in Fsm, NEW request \in Request, Call(f, request),
           <<f, used[f]>> \notin Registered, channel' \subseteq channel,
           UNCHANGED <<goroutines, base>>, txn' = txn \/ txn' = [txn EXCEPT ![f] = {}]
    PROVE  IInv'
<1>1. PICK new : new = <<f, used[f] + 1>>
  OBVIOUS
<1>2. /\ used' = [used EXCEPT ![f] = @ + 1]
      /\ pending' = pending \cup {new}
      /\ requestFSMs' = requestFSMs \cup {<<new, f>>}
      /\ caller' = [caller EXCEPT ![f] = [at |-> "waiting", id |-> new, call |-> request]]
  BY <1>1 DEF Call, Contexts
<1>3. used \in [Fsm -> Nat] /\ new \in Fsm \X Nat
  BY <1>1 DEF IInv, Types
<1>4. /\ used'[f] = used[f] + 1 /\ caller'[f].at = "waiting" /\ caller'[f].id = <<f, used'[f]>>
      /\ \A g \in Fsm \ {f} : used'[g] = used[g] /\ caller'[g] = caller[g]
  BY <1>1, <1>2, <1>3 DEF IInv, Types
<1>5. Types' /\ WritesStayWithTheirMachine'
  <2>1. used' \in [Fsm -> Nat]
    BY <1>2, <1>3
  <2>2. caller' \in [Fsm -> [at : {"idle", "waiting", "timedOut"},
                             id : {NoId} \cup (Fsm \X Nat), call : Request]]
    <3>1. [at |-> "waiting", id |-> new, call |-> request]
             \in [at : {"idle", "waiting", "timedOut"},
                  id : {NoId} \cup (Fsm \X Nat), call : Request]
      BY <1>3
    <3> QED
      BY <1>2, <3>1 DEF IInv, Types
  <2>3. txn' \in [Fsm -> SUBSET (Fsm \X Nat)] /\ WritesStayWithTheirMachine'
    BY DEF IInv, Types, WritesStayWithTheirMachine
  <2> QED
    BY <2>1, <2>2, <2>3 DEF IInv, Types
<1>6. WaitsForLast'
  BY <1>4 DEF IInv, WaitsForLast
<1>7. Registered' = Registered \cup {new}
  BY <1>2 DEF Registered
<1>8. MapsHoldCalls'
  <2>1. ASSUME NEW id \in pending'
        PROVE  \E g \in Fsm : id = <<g, used'[g]>> /\ CallIsLast(g)'
    <3>1. CASE id = new
      BY <1>1, <1>4, <3>1 DEF CallIsLast
    <3>2. CASE id \in pending
      <4>1. PICK g \in Fsm : id = <<g, used[g]>> /\ CallIsLast(g)
        BY <3>2 DEF IInv, MapsHoldCalls
      <4>2. id \in Registered
        BY <3>2 DEF Registered
      <4>3. g # f
        BY <4>1, <4>2
      <4> QED
        BY <1>4, <4>1, <4>3 DEF CallIsLast
    <3> QED
      BY <1>2, <3>1, <3>2
  <2>2. ASSUME NEW r \in requestFSMs'
        PROVE  \E g \in Fsm : r = <<<<g, used'[g]>>, g>> /\ CallIsLast(g)'
    <3>1. CASE r = <<new, f>>
      BY <1>1, <1>4, <3>1 DEF CallIsLast
    <3>2. CASE r \in requestFSMs
      <4>1. PICK g \in Fsm : r = <<<<g, used[g]>>, g>> /\ CallIsLast(g)
        BY <3>2 DEF IInv, MapsHoldCalls
      <4>2. r[1] \in Registered /\ r[1] = <<g, used[g]>>
        BY <3>2, <4>1 DEF Registered
      <4>3. g # f
        BY <4>2
      <4> QED
        BY <1>4, <4>1, <4>3 DEF CallIsLast
    <3> QED
      BY <1>2, <3>1, <3>2
  <2> QED
    BY <2>1, <2>2 DEF MapsHoldCalls
<1>9. AnswersAreForgotten'
  <2>1. ASSUME NEW id, Drawn(id)
        PROVE  Drawn(id)' /\ id # new
    <3>1. PICK g \in Fsm, n \in Nat : id = <<g, n>> /\ n <= used[g]
      BY <2>1 DEF Drawn
    <3>2. n <= used'[g] /\ (g = f => n # used[f] + 1)
      BY <1>3, <1>4, <3>1
    <3> QED
      BY <1>1, <3>1, <3>2 DEF Drawn
  <2>2. ASSUME NEW a \in channel'
        PROVE  Drawn(a[1])' /\ a[1] \notin Registered'
    <3>1. PICK id : id = a[1]
      OBVIOUS
    <3>2. Drawn(id) /\ id \notin Registered
      BY <3>1 DEF IInv, AnswersAreForgotten
    <3>3. Drawn(id)' /\ id \notin Registered'
      BY <1>7, <2>1, <3>2
    <3> QED
      BY <3>1, <3>3
  <2>3. ASSUME NEW g \in goroutines', g.at = "forward"
        PROVE  Drawn(g.id)' /\ g.id \notin Registered'
    <3>1. PICK id : id = g.id
      OBVIOUS
    <3>2. Drawn(id) /\ id \notin Registered
      BY <2>3, <3>1 DEF IInv, AnswersAreForgotten
    <3>3. Drawn(id)' /\ id \notin Registered'
      BY <1>7, <2>1, <3>2
    <3> QED
      BY <3>1, <3>3
  <2> QED
    BY <2>2, <2>3 DEF AnswersAreForgotten
<1>10. ServesItsMachine'
  BY DEF IInv, ServesItsMachine
<1> QED
  BY <1>5, <1>6, <1>8, <1>9, <1>10 DEF IInv

\* A call that ends leaves no entry of its id in the maps.
LEMMA CallEnds ==
    ASSUME IInv, NEW f \in Fsm, caller' = [caller EXCEPT ![f] = Idle],
           pending' \subseteq pending, requestFSMs' \subseteq requestFSMs,
           <<f, used[f]>> \notin pending', \A r \in requestFSMs' : r[1] # <<f, used[f]>>,
           channel' \subseteq channel, UNCHANGED <<used, goroutines>>,
           txn' = [txn EXCEPT ![f] = {}], base' = base \/ Flush(f)
    PROVE  IInv'
<1>1. Types' /\ WritesStayWithTheirMachine'
  BY DEF IInv, Types, WritesStayWithTheirMachine, Flush, Idle, Request
<1>2. /\ caller'[f].at = "idle"
      /\ \A g \in Fsm \ {f} : caller'[g] = caller[g]
  BY DEF IInv, Types, Idle
<1>3. WaitsForLast'
  BY <1>2 DEF IInv, WaitsForLast
<1>4. MapsHoldCalls'
  <2>1. ASSUME NEW id \in pending'
        PROVE  \E g \in Fsm : id = <<g, used'[g]>> /\ CallIsLast(g)'
    <3>1. PICK g \in Fsm : id = <<g, used[g]>> /\ CallIsLast(g)
      BY DEF IInv, MapsHoldCalls
    <3>2. g # f
      BY <3>1
    <3> QED
      BY <1>2, <3>1, <3>2 DEF CallIsLast
  <2>2. ASSUME NEW r \in requestFSMs'
        PROVE  \E g \in Fsm : r = <<<<g, used'[g]>>, g>> /\ CallIsLast(g)'
    <3>1. PICK g \in Fsm : r = <<<<g, used[g]>>, g>> /\ CallIsLast(g)
      BY DEF IInv, MapsHoldCalls
    <3>2. g # f
      BY <3>1
    <3> QED
      BY <1>2, <3>1, <3>2 DEF CallIsLast
  <2> QED
    BY <2>1, <2>2 DEF MapsHoldCalls
<1>5. Registered' \subseteq Registered
  BY DEF Registered
<1>6. AnswersAreForgotten'
  BY <1>5 DEF IInv, AnswersAreForgotten, Drawn
<1>7. ServesItsMachine'
  BY DEF IInv, ServesItsMachine
<1> QED
  BY <1>1, <1>3, <1>4, <1>6, <1>7 DEF IInv

\* What is registered is a call in progress.
LEMMA RegisteredIsCall ==
    ASSUME IInv, NEW id \in Registered
    PROVE  \E f \in Fsm : id = <<f, used[f]>> /\ CallIsLast(f)
<1>1. CASE id \in pending
  BY <1>1 DEF IInv, MapsHoldCalls
<1>2. CASE id \in {r[1] : r \in requestFSMs}
  <2>1. PICK r \in requestFSMs : id = r[1]
    BY <1>2
  <2>2. PICK f \in Fsm : r = <<<<f, used[f]>>, f>> /\ CallIsLast(f)
    BY DEF IInv, MapsHoldCalls
  <2> QED
    BY <2>1, <2>2
<1> QED
  BY <1>1, <1>2 DEF Registered

\* The steps of a state machine that calls.
LEMMA CallerSteps ==
    ASSUME IInv, NEW f \in Fsm,
           BeginTx(f) \/ Receive(f) \/ TimeoutFires(f) \/ TimeoutReturns(f)
    PROVE  IInv'
<1>1. CASE BeginTx(f)
  <2>1. <<f, used[f]>> \notin Registered
    <3> SUFFICES ASSUME <<f, used[f]>> \in Registered
                 PROVE  FALSE
      OBVIOUS
    <3>1. PICK g \in Fsm : <<f, used[f]>> = <<g, used[g]>> /\ CallIsLast(g)
      BY RegisteredIsCall
    <3> QED
      BY <1>1, <3>1 DEF BeginTx, CallIsLast
  <2>2. /\ Call(f, "check") /\ txn' = [txn EXCEPT ![f] = {}]
        /\ UNCHANGED <<channel, goroutines, base>>
    BY <1>1 DEF BeginTx
  <2>3. PICK request \in Request : request = "check"
    BY DEF Request
  <2> QED
    BY <2>1, <2>2, <2>3, CallRegisters
<1>2. CASE Receive(f)
  <2>1. caller[f].id = <<f, used[f]>>
    BY <1>2 DEF Receive, IInv, WaitsForLast
  <2>2. PICK a \in channel : a[1] = <<f, used[f]>> /\ channel' = channel \ {a}
    BY <1>2, <2>1 DEF Receive
  <2>3. <<f, used[f]>> \notin Registered
    BY <2>2 DEF IInv, AnswersAreForgotten
  <2>4. <<f, used[f]>> \notin pending /\ \A r \in requestFSMs : r[1] # <<f, used[f]>>
    BY <2>3 DEF Registered
  <2>5. CASE Call(f, "deliver") /\ UNCHANGED <<base, txn>>
    <3>1. UNCHANGED goroutines
      BY <1>2 DEF Receive
    <3>2. PICK request \in Request : request = "deliver"
      BY DEF Request
    <3> QED
      BY <2>2, <2>3, <2>5, <3>1, <3>2, CallRegisters
  <2>6. CASE ~(Call(f, "deliver") /\ UNCHANGED <<base, txn>>)
    <3>1. /\ caller' = [caller EXCEPT ![f] = Idle] /\ txn' = [txn EXCEPT ![f] = {}]
          /\ base' = base \/ Flush(f)
          /\ requestFSMs' \subseteq requestFSMs
          /\ UNCHANGED <<used, pending, goroutines>>
      BY <1>2, <2>6 DEF Receive, Fail
    <3> QED
      BY <2>2, <2>4, <3>1, CallEnds
  <2> QED
    BY <2>5, <2>6
<1>3. CASE TimeoutFires(f)
  <2>1. /\ caller' = [caller EXCEPT ![f].at = "timedOut"] /\ caller[f].at = "waiting"
        /\ UNCHANGED <<used, pending, requestFSMs, channel, goroutines, base, txn>>
    BY <1>3 DEF TimeoutFires, storeVars
  <2>2. \A g \in Fsm : /\ caller'[g].id = caller[g].id
                       /\ caller'[g].at = "idle" <=> caller[g].at = "idle"
    BY <2>1 DEF IInv, Types
  <2>3. \A g \in Fsm : CallIsLast(g)' <=> CallIsLast(g)
    BY <2>1, <2>2 DEF CallIsLast
  <2>4. Types'
    BY <2>1 DEF IInv, Types
  <2>5. WaitsForLast' /\ MapsHoldCalls'
    BY <2>1, <2>2, <2>3 DEF IInv, WaitsForLast, MapsHoldCalls
  <2> QED
    BY <2>1, <2>4, <2>5 DEF IInv, AnswersAreForgotten, ServesItsMachine, Registered, Drawn,
                            WritesStayWithTheirMachine
<1>4. CASE TimeoutReturns(f)
  <2>1. caller[f].id = <<f, used[f]>>
    BY <1>4 DEF TimeoutReturns, IInv, WaitsForLast
  <2>2. /\ caller' = [caller EXCEPT ![f] = Idle] /\ txn' = [txn EXCEPT ![f] = {}]
        /\ pending' = pending \ {<<f, used[f]>>}
        /\ requestFSMs' = {r \in requestFSMs : r[1] # <<f, used[f]>>}
        /\ UNCHANGED <<used, goroutines, channel, base>>
    BY <1>4, <2>1 DEF TimeoutReturns, ForgetTimedOut, Forget, Fail
  <2> QED
    BY <2>2, CallEnds
<1> QED
  BY <1>1, <1>2, <1>3, <1>4

\* The goroutines of inbound messages.
LEMMA GoroutineSteps ==
    ASSUME IInv,
           Listen \/ \E g \in goroutines : Lookup(g) \/ Serve(g) \/ Respond(g) \/ Forward(g)
    PROVE  IInv'
<1>1. CASE Listen
  <2>1. PICK new : /\ new = [id |-> new.id, kind |-> new.kind, at |-> "route", fsm |-> NoId]
                   /\ goroutines' = goroutines \cup {new}
    BY <1>1 DEF Listen
  <2>2. new.at = "route"
    BY <2>1
  <2>3. UNCHANGED <<used, caller, pending, requestFSMs, channel, base, txn>>
    BY <1>1 DEF Listen, storeVars
  <2>4. Types' /\ AnswersAreForgotten' /\ ServesItsMachine'
    BY <2>1, <2>2, <2>3 DEF IInv, Types, AnswersAreForgotten, ServesItsMachine, Registered, Drawn
  <2> QED
    BY <2>3, <2>4 DEF IInv, WaitsForLast, MapsHoldCalls, CallIsLast, WritesStayWithTheirMachine
<1>2. ASSUME NEW g \in goroutines, Lookup(g)
      PROVE  IInv'
  <2>1. CASE Fatal
    BY <2>1, Untouched DEF Fatal, hostVars, storeVars
  <2>2. CASE ~Fatal
    <3>1. PICK f \in Fsm :
             /\ <<g.id, f>> \in requestFSMs
             /\ goroutines' = (goroutines \ {g}) \cup {[g EXCEPT !.at = "serve", !.fsm = f]}
             /\ UNCHANGED <<used, caller, pending, requestFSMs, channel, base, txn>>
      BY <1>2, <2>2 DEF Lookup, RoutesTo, storeVars
    <3>2. PICK h : h = [g EXCEPT !.at = "serve", !.fsm = f]
      OBVIOUS
    <3>3. h = [id |-> g.id, kind |-> g.kind, at |-> "serve", fsm |-> f]
      <4>1. g = [id |-> g.id, kind |-> g.kind, at |-> g.at, fsm |-> g.fsm]
        BY DEF IInv, Types
      <4>2. PICK i, k, a, m : g = [id |-> i, kind |-> k, at |-> a, fsm |-> m]
        BY <4>1
      <4>3. h = [id |-> i, kind |-> k, at |-> "serve", fsm |-> f] /\ g.id = i /\ g.kind = k
        BY <3>2, <4>2
      <4> QED
        BY <4>3
    <3>4. g.id = <<f, used[f]>> /\ used[f] \in Nat
      BY <3>1 DEF IInv, MapsHoldCalls, Types
    <3>5. /\ h = [id |-> h.id, kind |-> h.kind, at |-> h.at, fsm |-> h.fsm]
          /\ h.at = "serve" /\ h.fsm \in Fsm /\ \E n \in Nat : h.id = <<h.fsm, n>>
      BY <3>3, <3>4
    <3>6. Types' /\ AnswersAreForgotten' /\ ServesItsMachine'
      BY <3>1, <3>2, <3>5
         DEF IInv, Types, AnswersAreForgotten, ServesItsMachine, Registered, Drawn
    <3> QED
      BY <3>1, <3>6 DEF IInv, WaitsForLast, MapsHoldCalls, CallIsLast, WritesStayWithTheirMachine
  <2> QED
    BY <2>1, <2>2
<1>3. ASSUME NEW g \in goroutines, Serve(g)
      PROVE  IInv'
  <2>1. g.fsm \in Fsm /\ \E n \in Nat : g.id = <<g.fsm, n>>
    BY <1>3 DEF Serve, IInv, ServesItsMachine
  <2>2. PICK f \in Fsm, id \in Fsm \X Nat : f = g.fsm /\ id = g.id /\ id[1] = f
    BY <2>1
  <2>3. /\ goroutines' = goroutines \ {g}
        /\ UNCHANGED <<used, caller, pending, requestFSMs, channel>>
        /\ WriteTo(f, id) \/ UNCHANGED <<base, txn>>
    BY <1>3, <2>2 DEF Serve, storeVars
  <2>4. /\ base' \in [Fsm -> SUBSET (Fsm \X Nat)] /\ txn' \in [Fsm -> SUBSET (Fsm \X Nat)]
        /\ WritesStayWithTheirMachine'
    BY <2>2, <2>3 DEF WriteTo, IInv, Types, WritesStayWithTheirMachine
  <2>5. Types' /\ AnswersAreForgotten' /\ ServesItsMachine'
    BY <2>3, <2>4 DEF IInv, Types, AnswersAreForgotten, ServesItsMachine, Registered, Drawn
  <2> QED
    BY <2>3, <2>4, <2>5 DEF IInv, WaitsForLast, MapsHoldCalls, CallIsLast
<1>4. ASSUME NEW g \in goroutines, Respond(g)
      PROVE  IInv'
  <2>1. CASE Fatal
    BY <2>1, Untouched DEF Fatal, hostVars, storeVars
  <2>2. CASE ~Fatal
    <3>1. /\ g.id \in pending
          /\ pending' = pending \ {g.id}
          /\ requestFSMs' = {r \in requestFSMs : r[1] # g.id}
          /\ goroutines' = (goroutines \ {g}) \cup {[g EXCEPT !.at = "forward"]}
          /\ UNCHANGED <<used, caller, channel, base, txn>>
      BY <1>4, <2>2 DEF Respond, Forget, storeVars
    <3>2. PICK h : h = [g EXCEPT !.at = "forward"]
      OBVIOUS
    <3>3. h = [id |-> g.id, kind |-> g.kind, at |-> "forward", fsm |-> g.fsm]
      BY <3>2 DEF IInv, Types
    <3>4. /\ h = [id |-> h.id, kind |-> h.kind, at |-> h.at, fsm |-> h.fsm]
          /\ h.at = "forward" /\ h.id = g.id
      BY <3>3
    <3>5. Registered' \subseteq Registered /\ g.id \notin Registered'
      BY <3>1 DEF Registered
    <3>6. Drawn(g.id)
      <4>1. PICK f \in Fsm : g.id = <<f, used[f]>>
        BY <3>1 DEF IInv, MapsHoldCalls
      <4>2. used[f] \in Nat /\ used[f] <= used[f]
        BY DEF IInv, Types
      <4> QED
        BY <4>1, <4>2 DEF Drawn
    <3>7. AnswersAreForgotten'
      <4>1. \A id : Drawn(id) => Drawn(id)'
        BY <3>1 DEF Drawn
      <4>2. \A a \in channel' : Drawn(a[1])' /\ a[1] \notin Registered'
        BY <3>1, <3>5, <4>1 DEF IInv, AnswersAreForgotten
      <4>3. \A k \in goroutines' : k.at = "forward" => Drawn(k.id)' /\ k.id \notin Registered'
        BY <3>1, <3>2, <3>4, <3>5, <3>6, <4>1 DEF IInv, AnswersAreForgotten
      <4> QED
        BY <4>2, <4>3 DEF AnswersAreForgotten
    <3>8. Types' /\ ServesItsMachine' /\ MapsHoldCalls'
      BY <3>1, <3>2, <3>4 DEF IInv, Types, ServesItsMachine, MapsHoldCalls, CallIsLast
    <3> QED
      BY <3>1, <3>7, <3>8 DEF IInv, WaitsForLast, WritesStayWithTheirMachine
  <2> QED
    BY <2>1, <2>2
<1>5. ASSUME NEW g \in goroutines, Forward(g)
      PROVE  IInv'
  <2>1. /\ g.at = "forward"
        /\ channel' = channel \cup {<<g.id, g.kind>>}
        /\ goroutines' = goroutines \ {g}
        /\ UNCHANGED <<used, caller, pending, requestFSMs, base, txn>>
    BY <1>5 DEF Forward, storeVars
  <2>2. Drawn(g.id) /\ g.id \notin Registered
    BY <2>1 DEF IInv, AnswersAreForgotten
  <2>3. Types' /\ ServesItsMachine'
    BY <2>1 DEF IInv, Types, ServesItsMachine
  <2>4. Registered' = Registered /\ \A id : Drawn(id) => Drawn(id)'
    BY <2>1 DEF Registered, Drawn
  <2>5. \A a \in channel' : Drawn(a[1])' /\ a[1] \notin Registered'
    <3> SUFFICES ASSUME NEW a \in channel'
                 PROVE  Drawn(a[1])' /\ a[1] \notin Registered'
      OBVIOUS
    <3>1. PICK id : id = a[1]
      OBVIOUS
    <3>2. CASE a \in channel
      BY <2>4, <3>1, <3>2 DEF IInv, AnswersAreForgotten
    <3>3. CASE a = <<g.id, g.kind>>
      BY <2>2, <2>4, <3>1, <3>3
    <3> QED
      BY <2>1, <3>2, <3>3
  <2>6. \A k \in goroutines' : k.at = "forward" => Drawn(k.id)' /\ k.id \notin Registered'
    BY <2>1, <2>4 DEF IInv, AnswersAreForgotten
  <2>7. AnswersAreForgotten'
    BY <2>5, <2>6 DEF AnswersAreForgotten
  <2> QED
    BY <2>1, <2>3, <2>7 DEF IInv, WaitsForLast, MapsHoldCalls, CallIsLast, WritesStayWithTheirMachine
<1> QED
  BY <1>1, <1>2, <1>3, <1>4, <1>5

\* The plugin touches nothing of the host but the socket.
LEMMA PluginSteps ==
    ASSUME IInv, PluginStep \/ ListenFails
    PROVE  IInv'
<1>1. UNCHANGED <<used, caller, pending, requestFSMs, channel, goroutines, base, txn>>
  BY DEF PluginStep, ListenFails, PluginReceive, HandlerStep, HandlerTimeout, PluginCloses,
         Exit, hostVars, storeVars
<1> QED
  BY <1>1, Untouched

\* Every step keeps the invariant.
LEMMA StepIInv == IInv /\ [Next]_vars => IInv'
<1> SUFFICES ASSUME IInv, [Next]_vars
             PROVE  IInv'
  OBVIOUS
<1>1. CASE HostStep
  BY <1>1, CallerSteps, GoroutineSteps, PluginSteps DEF HostStep
<1>2. CASE PluginStep
  BY <1>2, PluginSteps
<1>3. CASE UNCHANGED vars
  BY <1>3, Untouched DEF vars
<1> QED
  BY <1>1, <1>2, <1>3 DEF Next

\* It holds of the initial state.
LEMMA InitIInv == Init => IInv
BY DEF Init, IInv, Types, WaitsForLast, MapsHoldCalls, AnswersAreForgotten, ServesItsMachine,
       WritesStayWithTheirMachine, Idle, Request

-----------------------------------------------------------------------------
(* Theorems. *)

\* The invariant holds of every state of the exchange.
THEOREM Inductive == Spec => []IInv
BY InitIInv, StepIInv, PTL DEF Spec

\* Neither an answer nor a timeout, in whatever order they come, leaves an entry in
\* pending or requestFSMs once its call has returned (lib/plugin.go sendToPluginSync,
\* waitForResponse, handlePluginResponse).
THEOREM NeverStaleEntries == Spec => []NoStaleEntries
<1>1. ASSUME IInv
      PROVE  NoStaleEntries
  <2> SUFFICES ASSUME NEW f \in Fsm, NEW n \in 1 .. 2 * MaxTxs,
                      \/ <<f, n>> \in pending
                      \/ \E x \in Fsm : <<<<f, n>>, x>> \in requestFSMs
               PROVE  caller[f].at # "idle" /\ caller[f].id = <<f, n>>
    BY DEF NoStaleEntries
  <2>1. <<f, n>> \in Registered
    <3>1. CASE <<f, n>> \in pending
      BY <3>1 DEF Registered
    <3>2. CASE \E x \in Fsm : <<<<f, n>>, x>> \in requestFSMs
      <4>1. PICK r \in requestFSMs : r[1] = <<f, n>>
        BY <3>2
      <4> QED
        BY <4>1 DEF Registered
    <3> QED
      BY <3>1, <3>2
  <2>2. PICK g \in Fsm : <<f, n>> = <<g, used[g]>> /\ CallIsLast(g)
    BY <1>1, <2>1, RegisteredIsCall
  <2> QED
    BY <2>2 DEF CallIsLast
<1> QED
  BY <1>1, Inductive, PTL

\* No write reaches the store of another state machine than the one that made the
\* request, also when its call timed out before the write (handleStateWriteRequest).
THEOREM WritesAlwaysStay == Spec => []WritesStayWithTheirMachine
<1>1. IInv => WritesStayWithTheirMachine
  BY DEF IInv
<1> QED
  BY <1>1, Inductive, PTL

-----------------------------------------------------------------------------
(* While nothing times out, the exchange with the plugin implements AtomicTx and ends neither
   process.  The control of a call is always in one place, which is a message on the socket, a
   running handler, a goroutine of the host or the answer's channel.  Each step hands it over
   to the next place. *)

NoTimeouts == ~HostTimeouts /\ ~PluginTimeouts

-----------------------------------------------------------------------------
(* The inductive invariant. *)

Message == [id : Id, kind : Request \cup Verdict \cup {"read", "write", "reply"}]
Elements(s) == {s[i] : i \in DOMAIN s}
IdsDiffer(s) == \A i, j \in DOMAIN s : s[i].id = s[j].id => i = j

\* a handler between two awaits
Running(id) == handler[id] \in {"check", "deliver", "read", "write"} /\ id \notin tsPending

\* the places that have control of a call: <<kind of place, id, what is there>>
Tokens ==
    {<<"toPlugin", m.id, m>> : m \in Elements(toPlugin)}
    \cup {<<"toHost", m.id, m>> : m \in Elements(toHost)}
    \cup {<<"goroutine", g.id, g>> : g \in goroutines}
    \cup {<<"channel", a[1], a>> : a \in channel}
    \cup {<<"handler", id, id>> : id \in {i \in Id : Running(i)}}

Known(id) == id \in pending /\ <<id, id[1]>> \in requestFSMs
CallOf(id) == caller[id[1]].call
Waiting(id) == id \in Id /\ id[2] = used[id[1]] /\ caller[id[1]].at = "waiting"

\* the writes of a Deliver handler that has come past its write, or not
Written(id, yes) == txn[id[1]] = IF yes THEN {id} ELSE {}

\* the request has not reached the plugin
Requested(id, kind) ==
    /\ Known(id) /\ kind \in Request /\ kind = CallOf(id)
    /\ handler[id] = "none" /\ id \notin tsPending /\ Written(id, FALSE)

\* the handler waits for a state request that has not been served
Asked(id, kind) ==
    /\ Known(id) /\ CallOf(id) = "deliver" /\ kind \in {"read", "write"}
    /\ handler[id] = kind /\ id \in tsPending /\ Written(id, FALSE)

\* ... and that has been served
Replied(id, kind) ==
    /\ Known(id) /\ CallOf(id) = "deliver" /\ kind = "reply"
    /\ handler[id] \in {"read", "write"} /\ id \in tsPending
    /\ Written(id, handler[id] = "write")

\* the handler runs, before its first state request or after one
Runs(id) ==
    /\ Known(id) /\ id \notin tsPending
    /\ \/ handler[id] = CallOf(id)
       \/ CallOf(id) = "deliver" /\ handler[id] \in {"read", "write"}
    /\ Written(id, handler[id] = "write")

\* the handler has answered
Answered(id, verdict) ==
    /\ verdict \in Verdict /\ handler[id] = "done"
    /\ verdict = "ok" => Written(id, CallOf(id) = "deliver")

\* what holds of a call by the place that has control of it
InPlace(x) ==
    /\ Waiting(x[2])
    /\ \/ x[1] = "toPlugin" /\ (Requested(x[2], x[3].kind) \/ Replied(x[2], x[3].kind))
       \/ x[1] = "handler" /\ Runs(x[2])
       \/ x[1] = "toHost" /\ Asked(x[2], x[3].kind)
       \/ x[1] = "toHost" /\ Known(x[2]) /\ Answered(x[2], x[3].kind)
       \/ x[1] = "goroutine" /\ Asked(x[2], x[3].kind) /\ x[3].at = "route"
       \/ x[1] = "goroutine" /\ Asked(x[2], x[3].kind) /\ x[3].at = "serve" /\ x[3].fsm = x[2][1]
       \/ x[1] = "goroutine" /\ Answered(x[2], x[3].kind) /\ x[3].at = "route" /\ Known(x[2])
       \/ x[1] = "goroutine" /\ Answered(x[2], x[3].kind) /\ x[3].at = "forward"
       \/ x[1] = "channel" /\ Answered(x[2], x[3][2])

AllInPlace == \A x \in Tokens : InPlace(x)
OneToken == \A x, y \in Tokens : x[2][1] = y[2][1] => x = y

Socket ==
    /\ toPlugin \in Seq(Message) /\ IdsDiffer(toPlugin)
    /\ toHost \in Seq(Message) /\ IdsDiffer(toHost)

\* an id that was not drawn yet is unknown to the plugin
Unused ==
    /\ handler \in [Id -> {"none", "check", "deliver", "read", "write", "done"}]
    /\ tsPending \subseteq Id
    /\ \A id \in Id : id[2] > used[id[1]] => handler[id] = "none" /\ id \notin tsPending

\* every transaction draws an id for its check and one for its delivery
TwoIdsEach ==
    /\ begun \in [Fsm -> 0 .. MaxTxs]
    /\ \A f \in Fsm : /\ used[f] <= 2 * begun[f] /\ caller[f].at # "timedOut"
                      /\ caller[f].at = "waiting" /\ caller[f].call = "check"
                            => used[f] < 2 * begun[f]

\* the id of a call in progress is not in the store
StoreIsPast ==
    \A f \in Fsm : \A w \in base[f] :
        w[2] <= used[f] /\ (caller[f].at # "idle" => w[2] < used[f])

JInv ==
    /\ IInv /\ Socket /\ Unused /\ TwoIdsEach /\ StoreIsPast
    /\ OneToken /\ AllInPlace /\ NoFatal

-----------------------------------------------------------------------------
(* The socket. *)

\* Reading a message takes it out.
LEMMA TailTakes ==
    ASSUME NEW s \in Seq(Message), s # << >>, IdsDiffer(s)
    PROVE  /\ Head(s) \in Elements(s) /\ Tail(s) \in Seq(Message) /\ IdsDiffer(Tail(s))
           /\ Elements(Tail(s)) = Elements(s) \ {Head(s)}
<1>1. Len(s) \in Nat \ {0} /\ DOMAIN s = 1 .. Len(s) /\ Head(s) = s[1] /\ 1 \in DOMAIN s
  OBVIOUS
<1>2. /\ Tail(s) \in Seq(Message) /\ DOMAIN Tail(s) = 1 .. Len(s) - 1
      /\ \A i \in DOMAIN Tail(s) : i + 1 \in DOMAIN s /\ Tail(s)[i] = s[i + 1]
  BY <1>1
<1>3. IdsDiffer(Tail(s))
  <2> SUFFICES ASSUME NEW i \in DOMAIN Tail(s), NEW j \in DOMAIN Tail(s),
                      Tail(s)[i].id = Tail(s)[j].id
               PROVE  i = j
    BY DEF IdsDiffer
  <2>1. i + 1 = j + 1
    BY <1>2 DEF IdsDiffer
  <2> QED
    BY <1>2, <2>1
<1>4. ASSUME NEW m \in Elements(Tail(s))
      PROVE  m \in Elements(s) \ {Head(s)}
  <2>1. PICK i \in DOMAIN Tail(s) : m = Tail(s)[i]
    BY DEF Elements
  <2>2. m = s[i + 1] /\ i + 1 \in DOMAIN s /\ i + 1 # 1
    BY <1>2, <2>1
  <2>3. m # s[1]
    BY <1>1, <2>2 DEF IdsDiffer
  <2> QED
    BY <1>1, <2>2, <2>3 DEF Elements
<1>5. ASSUME NEW m \in Elements(s), m # Head(s)
      PROVE  m \in Elements(Tail(s))
  <2>1. PICK i \in DOMAIN s : m = s[i]
    BY DEF Elements
  <2>2. i # 1
    BY <1>1, <1>5, <2>1
  <2>3. i - 1 \in DOMAIN Tail(s) /\ m = Tail(s)[i - 1]
    BY <1>1, <1>2, <2>1, <2>2
  <2> QED
    BY <2>3 DEF Elements
<1> QED
  BY <1>1, <1>2, <1>3, <1>4, <1>5 DEF Elements

\* Sending a message adds it.
LEMMA AppendAdds ==
    ASSUME NEW s \in Seq(Message), IdsDiffer(s), NEW m \in Message,
           \A e \in Elements(s) : e.id # m.id
    PROVE  /\ Append(s, m) \in Seq(Message) /\ IdsDiffer(Append(s, m))
           /\ Elements(Append(s, m)) = Elements(s) \cup {m}
<1>1. PICK t : t = Append(s, m)
  OBVIOUS
<1>2. /\ t \in Seq(Message) /\ Len(s) \in Nat /\ DOMAIN s = 1 .. Len(s)
      /\ DOMAIN t = 1 .. Len(s) + 1 /\ t[Len(s) + 1] = m
      /\ \A i \in DOMAIN s : i \in DOMAIN t /\ t[i] = s[i]
  BY <1>1
<1>3. \A i \in DOMAIN t : i = Len(s) + 1 \/ i \in DOMAIN s
  BY <1>2
<1>4. \A i \in DOMAIN s : s[i].id # m.id
  BY DEF Elements
<1>5. IdsDiffer(t)
  BY <1>2, <1>3, <1>4 DEF IdsDiffer
<1>6. Elements(t) = Elements(s) \cup {m}
  <2>1. Len(s) + 1 \in DOMAIN t
    BY <1>2
  <2> QED
    BY <1>2, <1>3, <2>1 DEF Elements
<1> QED
  BY <1>1, <1>2, <1>5, <1>6

-----------------------------------------------------------------------------
(* Control is handed over. *)

\* nothing of another state machine's call changes
Frame(f) ==
    /\ \A g \in Fsm \ {f} : used'[g] = used[g] /\ caller'[g] = caller[g] /\ txn'[g] = txn[g]
    /\ \A id \in Id : id[1] # f =>
          /\ handler'[id] = handler[id]
          /\ id \in tsPending' <=> id \in tsPending
          /\ id \in pending' <=> id \in pending
          /\ <<id, id[1]>> \in requestFSMs' <=> <<id, id[1]>> \in requestFSMs

\* A step that leaves one place at most to a state machine's call, and the calls of the
\* others alone.
LEMMA HandOver ==
    ASSUME OneToken, AllInPlace, NEW f \in Fsm, Frame(f), NEW u,
           \A x \in Tokens' : \/ x = u /\ InPlace(u)' /\ u[2][1] = f
                              \/ x \in Tokens /\ x[2][1] # f
    PROVE  OneToken' /\ AllInPlace'
<1>1. OneToken'
  BY DEF OneToken
<1>2. ASSUME NEW x \in Tokens, x[2][1] # f
      PROVE  InPlace(x)'
  <2>1. PICK id \in Id : id = x[2] /\ id[1] # f /\ id[1] \in Fsm
    BY <1>2 DEF AllInPlace, InPlace, Waiting, Id
  <2>2. /\ used'[id[1]] = used[id[1]] /\ caller'[id[1]] = caller[id[1]]
        /\ txn'[id[1]] = txn[id[1]]
        /\ handler'[id] = handler[id] /\ (id \in tsPending' <=> id \in tsPending)
        /\ (Known(id)' <=> Known(id))
    BY <2>1 DEF Frame, Known
  <2>3. /\ Waiting(id)' <=> Waiting(id)
        /\ Runs(id)' <=> Runs(id)
        /\ \A k : /\ Requested(id, k)' <=> Requested(id, k)
                  /\ Asked(id, k)' <=> Asked(id, k)
                  /\ Replied(id, k)' <=> Replied(id, k)
                  /\ Answered(id, k)' <=> Answered(id, k)
    BY <2>2 DEF Waiting, Runs, Requested, Asked, Replied, Answered, Written, CallOf
  <2>4. InPlace(x)
    BY DEF AllInPlace
  <2> QED
    BY <2>1, <2>2, <2>3, <2>4 DEF InPlace
<1> QED
  BY <1>1, <1>2 DEF AllInPlace

\* Control moves on within a call.
LEMMA MovesOn ==
    ASSUME OneToken, AllInPlace, NEW t \in Tokens, NEW u, NEW f \in Fsm, Frame(f),
           t[2][1] = f, u[2][1] = f,
           Tokens' \subseteq (Tokens \ {t}) \cup {u}, InPlace(u)'
    PROVE  OneToken' /\ AllInPlace'
<1>1. \A x \in Tokens : x # t => x[2][1] # f
  BY DEF OneToken
<1>2. \A x \in Tokens' : \/ x = u /\ InPlace(u)' /\ u[2][1] = f
                         \/ x \in Tokens /\ x[2][1] # f
  BY <1>1
<1> QED
  BY <1>2, HandOver

\* The plugin's handler of a call is all that changes.
LEMMA RestStays ==
    ASSUME Unused, TwoIdsEach, StoreIsPast, UNCHANGED <<used, begun, caller, base>>,
           NEW id \in Id, id[2] = used[id[1]],
           \/ handler' = handler
           \/ \E k \in {"check", "deliver", "read", "write", "done"} :
                 handler' = [handler EXCEPT ![id] = k],
           tsPending' \in {tsPending, tsPending \cup {id}, tsPending \ {id}}
    PROVE  Unused' /\ TwoIdsEach' /\ StoreIsPast'
<1>1. \A i \in Id : i[2] > used[i[1]] => i # id
  BY DEF Id
<1>2. Unused'
  BY <1>1 DEF Unused
<1> QED
  BY <1>2 DEF TwoIdsEach, StoreIsPast

\* What is read from the socket becomes a goroutine.
LEMMA ListenMoves ==
    ASSUME JInv, Listen
    PROVE  JInv'
<1>1. PICK m : m = Head(toHost)
  OBVIOUS
<1>2. PICK g : g = [id |-> m.id, kind |-> m.kind, at |-> "route", fsm |-> NoId]
  OBVIOUS
<1>3. PICK t, u : t = <<"toHost", m.id, m>> /\ u = <<"goroutine", g.id, g>>
  OBVIOUS
<1>4. /\ toHost # << >> /\ toHost' = Tail(toHost) /\ goroutines' = goroutines \cup {g}
      /\ UNCHANGED <<used, begun, caller, pending, requestFSMs, channel, toPlugin, handler,
                     tsPending, base, txn, hostUp, pluginUp>>
  BY <1>1, <1>2 DEF Listen, pluginVars, storeVars, upVars
<1>5. /\ m \in Elements(toHost) /\ Elements(toHost') = Elements(toHost) \ {m}
      /\ Socket'
  BY <1>1, <1>4, TailTakes DEF JInv, Socket
<1>6. t \in Tokens /\ InPlace(t)
  BY <1>3, <1>5 DEF Tokens, JInv, AllInPlace
<1>7. PICK id \in Id, f \in Fsm : id = m.id /\ f = id[1] /\ id[2] = used[f]
  BY <1>3, <1>6 DEF InPlace, Waiting, Id
<1>8. g.id = id /\ t[2] = id /\ u[2] = id
  BY <1>2, <1>3, <1>7
<1>9. Tokens' \subseteq (Tokens \ {t}) \cup {u}
  BY <1>3, <1>4, <1>5 DEF Tokens, Running
<1>10. InPlace(u)'
  <2>1. InPlace(u)
    BY <1>2, <1>3, <1>6, <1>8 DEF InPlace
  <2> QED
    BY <1>4, <2>1 DEF InPlace, Waiting, Runs, Requested, Asked, Replied, Answered, Written,
                      CallOf, Known
<1>11. Frame(f)
  BY <1>4 DEF Frame
<1>12. OneToken' /\ AllInPlace'
  BY <1>6, <1>7, <1>8, <1>9, <1>10, <1>11, MovesOn DEF JInv
<1>13. Unused' /\ TwoIdsEach' /\ StoreIsPast'
  BY <1>4, <1>7, RestStays DEF JInv
<1>14. IInv'
  BY GoroutineSteps DEF JInv
<1> QED
  BY <1>4, <1>5, <1>12, <1>13, <1>14 DEF JInv, NoFatal

\* The token of a goroutine.
LEMMA GoroutineHolds ==
    ASSUME JInv, NEW g \in goroutines
    PROVE  \E t \in Tokens, id \in Id, f \in Fsm :
              /\ t = <<"goroutine", g.id, g>> /\ InPlace(t)
              /\ id = g.id /\ f = id[1] /\ id[2] = used[f] /\ Waiting(id)
<1>1. PICK t : t = <<"goroutine", g.id, g>>
  OBVIOUS
<1>2. t \in Tokens /\ InPlace(t)
  BY <1>1 DEF Tokens, JInv, AllInPlace
<1>3. PICK id \in Id, f \in Fsm : id = g.id /\ f = id[1] /\ id[2] = used[f] /\ Waiting(id)
  BY <1>1, <1>2 DEF InPlace, Waiting, Id
<1> QED
  BY <1>1, <1>2, <1>3

\* A state request finds the state machine of its call.
LEMMA LookupMoves ==
    ASSUME JInv, NEW g \in goroutines, Lookup(g)
    PROVE  JInv'
<1>1. PICK t \in Tokens, id \in Id, f \in Fsm :
         /\ t = <<"goroutine", g.id, g>> /\ InPlace(t)
         /\ id = g.id /\ f = id[1] /\ id[2] = used[f] /\ Waiting(id)
  BY GoroutineHolds
<1>2. Asked(id, g.kind) /\ g.at = "route"
  BY <1>1 DEF InPlace, Answered, Lookup, IsState, Verdict
<1>3. RoutesTo(g, f) /\ <<id, f>> \in requestFSMs
  BY <1>1, <1>2 DEF RoutesTo, Asked, Known
<1>4. PICK k \in Fsm :
         /\ <<id, k>> \in requestFSMs
         /\ goroutines' = (goroutines \ {g}) \cup {[g EXCEPT !.at = "serve", !.fsm = k]}
         /\ UNCHANGED <<used, begun, caller, pending, requestFSMs, channel, toPlugin, toHost,
                        handler, tsPending, base, txn, hostUp, pluginUp>>
  BY <1>1, <1>3 DEF Lookup, RoutesTo, pluginVars, storeVars, upVars
<1>5. k = f
  BY <1>1, <1>4 DEF JInv, IInv, MapsHoldCalls
<1>6. PICK h : h = [g EXCEPT !.at = "serve", !.fsm = k]
  OBVIOUS
<1>7. h.id = id /\ h.kind = g.kind /\ h.at = "serve" /\ h.fsm = f
  <2>1. g = [id |-> g.id, kind |-> g.kind, at |-> g.at, fsm |-> g.fsm]
    BY DEF JInv, IInv, Types
  <2>2. PICK i, n, a, m : g = [id |-> i, kind |-> n, at |-> a, fsm |-> m]
    BY <2>1
  <2>3. h.id = i /\ h.kind = n /\ h.at = "serve" /\ h.fsm = k /\ g.id = i /\ g.kind = n
    BY <1>6, <2>2
  <2> QED
    BY <1>1, <1>5, <2>3
<1>8. PICK u : u = <<"goroutine", h.id, h>>
  OBVIOUS
<1>9. Tokens' \subseteq (Tokens \ {t}) \cup {u}
  <2>1. /\ goroutines' = (goroutines \ {g}) \cup {h}
        /\ UNCHANGED <<channel, toPlugin, toHost, handler, tsPending>>
    BY <1>4, <1>6
  <2>2. t = <<"goroutine", g.id, g>>
    BY <1>1
  <2> QED
    BY ONLY <2>1, <2>2, <1>8 DEF Tokens, Running
<1>10. InPlace(u)'
  <2>1. InPlace(u)
    BY <1>1, <1>2, <1>7, <1>8 DEF InPlace
  <2> QED
    BY <1>4, <2>1 DEF InPlace, Waiting, Runs, Requested, Asked, Replied, Answered, Written,
                      CallOf, Known
<1>11. Frame(f)
  BY <1>4 DEF Frame
<1>12. OneToken' /\ AllInPlace'
  BY <1>1, <1>7, <1>8, <1>9, <1>10, <1>11, MovesOn DEF JInv
<1>13. Unused' /\ TwoIdsEach' /\ StoreIsPast'
  BY <1>1, <1>4, RestStays DEF JInv
<1>14. IInv' /\ Socket'
  BY <1>4, GoroutineSteps DEF JInv, Socket
<1> QED
  BY <1>4, <1>12, <1>13, <1>14 DEF JInv, NoFatal

\* A state request is served in the wrapped store of its call.
LEMMA ServeMoves ==
    ASSUME JInv, NEW g \in goroutines, Serve(g)
    PROVE  JInv'
<1>1. PICK t \in Tokens, id \in Id, f \in Fsm :
         /\ t = <<"goroutine", g.id, g>> /\ InPlace(t)
         /\ id = g.id /\ f = id[1] /\ id[2] = used[f] /\ Waiting(id)
  BY GoroutineHolds
<1>2. Asked(id, g.kind) /\ g.fsm = f
  BY <1>1 DEF InPlace, Answered, Serve, IsState, Verdict
<1>3. PICK m : m = [id |-> id, kind |-> "reply"]
  OBVIOUS
<1>4. PICK u : u = <<"toPlugin", m.id, m>>
  OBVIOUS
<1>5. /\ toPlugin' = Append(toPlugin, m) /\ goroutines' = goroutines \ {g}
      /\ UNCHANGED <<used, begun, caller, pending, requestFSMs, channel, toHost, handler,
                     tsPending, hostUp, pluginUp>>
  BY <1>1, <1>3 DEF Serve, Msg, pluginVars, upVars
<1>6. caller[f].at # "idle"
  BY <1>1 DEF Waiting
<1>7. txn \in [Fsm -> SUBSET (Fsm \X Nat)] /\ txn[f] = {}
  BY <1>1, <1>2 DEF JInv, IInv, Types, Asked, Written
<1>8. /\ base' = base /\ \A k \in Fsm \ {f} : txn'[k] = txn[k]
      /\ txn'[f] = IF g.kind = "write" THEN {id} ELSE {}
  BY <1>1, <1>2, <1>6, <1>7 DEF Serve, WriteTo, storeVars
<1>9. m \in Message /\ \A e \in Elements(toPlugin) : e.id # m.id
  <2>1. m \in Message
    BY <1>3 DEF Message
  <2>2. ASSUME NEW e \in Elements(toPlugin), e.id = id
        PROVE  FALSE
    <3>1. PICK y : y = <<"toPlugin", e.id, e>>
      OBVIOUS
    <3>2. y \in Tokens /\ y[2] = id /\ y # t
      BY <1>1, <2>2, <3>1 DEF Tokens
    <3> QED
      BY <1>1, <3>2 DEF JInv, OneToken
  <2> QED
    BY <1>3, <2>1, <2>2
<1>10. Socket' /\ Elements(toPlugin') = Elements(toPlugin) \cup {m}
  BY <1>5, <1>9, AppendAdds DEF JInv, Socket
<1>11. Tokens' \subseteq (Tokens \ {t}) \cup {u}
  BY <1>1, <1>4, <1>5, <1>10 DEF Tokens, Running
<1>12. InPlace(u)'
  <2>1. Replied(id, "reply")' /\ Waiting(id)'
    BY <1>1, <1>2, <1>5, <1>8 DEF Replied, Asked, Written, CallOf, Known, Waiting
  <2> QED
    BY <1>3, <1>4, <2>1 DEF InPlace
<1>13. Frame(f)
  BY <1>5, <1>8 DEF Frame
<1>14. OneToken' /\ AllInPlace'
  BY <1>1, <1>3, <1>4, <1>11, <1>12, <1>13, MovesOn DEF JInv
<1>15. Unused' /\ TwoIdsEach' /\ StoreIsPast'
  BY <1>1, <1>5, <1>8, RestStays DEF JInv
<1>16. IInv'
  BY GoroutineSteps DEF JInv
<1> QED
  BY <1>5, <1>10, <1>14, <1>15, <1>16 DEF JInv, NoFatal

\* An answer is matched with its channel.
LEMMA RespondMoves ==
    ASSUME JInv, NEW g \in goroutines, Respond(g)
    PROVE  JInv'
<1>1. PICK t \in Tokens, id \in Id, f \in Fsm :
         /\ t = <<"goroutine", g.id, g>> /\ InPlace(t)
         /\ id = g.id /\ f = id[1] /\ id[2] = used[f] /\ Waiting(id)
  BY GoroutineHolds
<1>2. Answered(id, g.kind) /\ Known(id)
  BY <1>1 DEF InPlace, Asked, Respond, IsState
<1>3. /\ pending' = pending \ {id}
      /\ requestFSMs' = {r \in requestFSMs : r[1] # id}
      /\ goroutines' = (goroutines \ {g}) \cup {[g EXCEPT !.at = "forward"]}
      /\ UNCHANGED <<used, begun, caller, channel, toPlugin, toHost, handler, tsPending, base,
                     txn, hostUp, pluginUp>>
  BY <1>1, <1>2 DEF Respond, Known, Forget, pluginVars, storeVars, upVars
<1>4. PICK h : h = [g EXCEPT !.at = "forward"]
  OBVIOUS
<1>5. h.id = id /\ h.kind = g.kind /\ h.at = "forward"
  <2>1. g = [id |-> g.id, kind |-> g.kind, at |-> g.at, fsm |-> g.fsm]
    BY DEF JInv, IInv, Types
  <2>2. PICK i, n, a, m : g = [id |-> i, kind |-> n, at |-> a, fsm |-> m]
    BY <2>1
  <2>3. h.id = i /\ h.kind = n /\ h.at = "forward" /\ g.id = i /\ g.kind = n
    BY <1>4, <2>2
  <2> QED
    BY <1>1, <2>3
<1>6. PICK u : u = <<"goroutine", h.id, h>>
  OBVIOUS
<1>7. Tokens' \subseteq (Tokens \ {t}) \cup {u}
  <2>1. /\ goroutines' = (goroutines \ {g}) \cup {h}
        /\ UNCHANGED <<channel, toPlugin, toHost, handler, tsPending>>
    BY <1>3, <1>4
  <2>2. t = <<"goroutine", g.id, g>>
    BY <1>1
  <2> QED
    BY ONLY <2>1, <2>2, <1>6 DEF Tokens, Running
<1>8. InPlace(u)'
  <2>1. Answered(id, g.kind)' /\ Waiting(id)'
    BY <1>1, <1>2, <1>3 DEF Answered, Written, CallOf, Waiting
  <2> QED
    BY <1>5, <1>6, <2>1 DEF InPlace
<1>9. Frame(f)
  BY <1>1, <1>3 DEF Frame
<1>10. OneToken' /\ AllInPlace'
  BY <1>1, <1>5, <1>6, <1>7, <1>8, <1>9, MovesOn DEF JInv
<1>11. Unused' /\ TwoIdsEach' /\ StoreIsPast'
  BY <1>1, <1>3, RestStays DEF JInv
<1>12. IInv' /\ Socket'
  BY <1>3, GoroutineSteps DEF JInv, Socket
<1> QED
  BY <1>3, <1>10, <1>11, <1>12 DEF JInv, NoFatal

\* The answer goes into the channel.
LEMMA ForwardMoves ==
    ASSUME JInv, NEW g \in goroutines, Forward(g)
    PROVE  JInv'
<1>1. PICK t \in Tokens, id \in Id, f \in Fsm :
         /\ t = <<"goroutine", g.id, g>> /\ InPlace(t)
         /\ id = g.id /\ f = id[1] /\ id[2] = used[f] /\ Waiting(id)
  BY GoroutineHolds
<1>2. Answered(id, g.kind)
  BY <1>1 DEF InPlace, Asked, Forward, IsState
<1>3. PICK a : a = <<id, g.kind>>
  OBVIOUS
<1>4. PICK u : u = <<"channel", a[1], a>>
  OBVIOUS
<1>5. /\ channel' = channel \cup {a} /\ goroutines' = goroutines \ {g}
      /\ UNCHANGED <<used, begun, caller, pending, requestFSMs, toPlugin, toHost, handler,
                     tsPending, base, txn, hostUp, pluginUp>>
  BY <1>1, <1>3 DEF Forward, pluginVars, storeVars, upVars
<1>6. Tokens' \subseteq (Tokens \ {t}) \cup {u}
  BY <1>1, <1>4, <1>5 DEF Tokens, Running
<1>7. InPlace(u)'
  <2>1. Answered(id, g.kind)' /\ Waiting(id)'
    BY <1>1, <1>2, <1>5 DEF Answered, Written, CallOf, Waiting
  <2> QED
    BY <1>3, <1>4, <2>1 DEF InPlace
<1>8. Frame(f)
  BY <1>5 DEF Frame
<1>9. OneToken' /\ AllInPlace'
  BY <1>1, <1>3, <1>4, <1>6, <1>7, <1>8, MovesOn DEF JInv
<1>10. Unused' /\ TwoIdsEach' /\ StoreIsPast'
  BY <1>1, <1>5, RestStays DEF JInv
<1>11. IInv' /\ Socket'
  BY <1>5, GoroutineSteps DEF JInv, Socket
<1> QED
  BY <1>5, <1>9, <1>10, <1>11 DEF JInv, NoFatal

\* A request starts its handler, a reply resumes it.
LEMMA PluginReceiveMoves ==
    ASSUME JInv, PluginReceive
    PROVE  JInv'
<1>1. PICK m : m = Head(toPlugin)
  OBVIOUS
<1>2. PICK t : t = <<"toPlugin", m.id, m>>
  OBVIOUS
<1>3. toPlugin # << >>
  BY DEF PluginReceive
<1>4. /\ m \in Elements(toPlugin) /\ Elements(Tail(toPlugin)) = Elements(toPlugin) \ {m}
      /\ Tail(toPlugin) \in Seq(Message) /\ IdsDiffer(Tail(toPlugin))
  BY <1>1, <1>3, TailTakes DEF JInv, Socket
<1>5. t \in Tokens /\ InPlace(t)
  BY <1>2, <1>4 DEF Tokens, JInv, AllInPlace
<1>6. PICK id \in Id, f \in Fsm : id = m.id /\ f = id[1] /\ id[2] = used[f] /\ Waiting(id)
  BY <1>2, <1>5 DEF InPlace, Waiting, Id
<1>7. Requested(id, m.kind) \/ Replied(id, m.kind)
  BY <1>2, <1>5, <1>6 DEF InPlace
<1>8. PICK u : u = <<"handler", id, id>>
  OBVIOUS
<1>9. /\ toPlugin' = Tail(toPlugin)
      /\ UNCHANGED <<used, begun, caller, pending, requestFSMs, channel, goroutines, toHost,
                     base, txn, hostUp, pluginUp>>
      /\ \/ /\ Requested(id, m.kind) /\ UNCHANGED tsPending
            /\ handler' = [handler EXCEPT ![id] = m.kind]
         \/ /\ Replied(id, m.kind) /\ UNCHANGED handler
            /\ tsPending' = tsPending \ {id}
  BY <1>1, <1>6, <1>7
     DEF PluginReceive, Requested, Replied, Request, hostVars, storeVars, upVars
<1>10. handler \in [Id -> {"none", "check", "deliver", "read", "write", "done"}]
  BY DEF JInv, Unused
<1>11. \A i \in Id : i # id => (Running(i)' <=> Running(i))
  BY <1>9, <1>10 DEF Running
<1>12. Tokens' \subseteq (Tokens \ {t}) \cup {u}
  BY <1>2, <1>4, <1>8, <1>9, <1>11 DEF Tokens
<1>13. Runs(id)' /\ Waiting(id)'
  <2>1. CASE Requested(id, m.kind)
    <3>1. handler' = [handler EXCEPT ![id] = m.kind] /\ UNCHANGED tsPending
      BY <1>9, <2>1 DEF Requested, Replied, Request
    <3>2. handler'[id] = m.kind
      BY <1>10, <3>1
    <3> QED
      BY <1>6, <1>9, <2>1, <3>1, <3>2
         DEF Requested, Runs, Written, CallOf, Known, Waiting, Request
  <2>2. CASE Replied(id, m.kind)
    <3>1. tsPending' = tsPending \ {id} /\ UNCHANGED handler
      BY <1>9, <2>2 DEF Requested, Replied, Request
    <3> QED
      BY <1>6, <1>9, <2>2, <3>1 DEF Replied, Runs, Written, CallOf, Known, Waiting
  <2> QED
    BY <1>7, <2>1, <2>2
<1>14. InPlace(u)'
  BY <1>8, <1>13 DEF InPlace
<1>15. Frame(f)
  BY <1>6, <1>9, <1>10 DEF Frame
<1>16. OneToken' /\ AllInPlace'
  BY <1>2, <1>5, <1>6, <1>8, <1>12, <1>14, <1>15, MovesOn DEF JInv
<1>17. Unused' /\ TwoIdsEach' /\ StoreIsPast'
  <2>1. \/ handler' = handler
        \/ \E k \in {"check", "deliver", "read", "write", "done"} :
              handler' = [handler EXCEPT ![id] = k]
    BY <1>9 DEF Requested, Request
  <2>2. tsPending' \in {tsPending, tsPending \cup {id}, tsPending \ {id}}
    BY <1>9
  <2> QED
    BY <1>6, <1>9, <2>1, <2>2, RestStays DEF JInv
<1>18. IInv'
  BY <1>9, Untouched DEF JInv
<1>19. Socket'
  BY <1>4, <1>9 DEF JInv, Socket
<1> QED
  BY <1>9, <1>16, <1>17, <1>18, <1>19 DEF JInv, NoFatal

\* A handler stops running and sends a message: a state request or its answer.
LEMMA HandlerSends ==
    ASSUME JInv, NEW id \in Id, Running(id),
           NEW kind \in Verdict \cup {"read", "write"},
           NEW k \in {"read", "write", "done"},
           toHost' = Append(toHost, Msg(id, kind)), handler' = [handler EXCEPT ![id] = k],
           \/ tsPending' = tsPending \cup {id} /\ Asked(id, kind)'
           \/ k = "done" /\ tsPending' = tsPending /\ Answered(id, kind)',
           UNCHANGED <<hostVars, toPlugin, storeVars, upVars>>
    PROVE  JInv'
<1>1. PICK m, t, u : /\ m = [id |-> id, kind |-> kind]
                     /\ t = <<"handler", id, id>> /\ u = <<"toHost", m.id, m>>
  OBVIOUS
<1>2. t \in Tokens /\ InPlace(t)
  BY <1>1 DEF Tokens, JInv, AllInPlace
<1>3. PICK f \in Fsm : f = id[1] /\ id[2] = used[f] /\ Waiting(id) /\ Known(id)
  BY <1>1, <1>2 DEF InPlace, Waiting, Runs, Id
<1>4. UNCHANGED <<used, begun, caller, pending, requestFSMs, channel, goroutines, toPlugin,
                  base, txn, hostUp, pluginUp>>
  BY DEF hostVars, storeVars, upVars
<1>5. m \in Message /\ \A e \in Elements(toHost) : e.id # m.id
  <2>1. m \in Message
    BY <1>1 DEF Message, Verdict
  <2>2. ASSUME NEW e \in Elements(toHost), e.id = id
        PROVE  FALSE
    <3>1. PICK y : y = <<"toHost", e.id, e>>
      OBVIOUS
    <3>2. y \in Tokens /\ y[2] = id /\ y # t
      BY <1>1, <2>2, <3>1 DEF Tokens
    <3> QED
      BY <1>1, <1>2, <3>2 DEF JInv, OneToken
  <2> QED
    BY <1>1, <2>1, <2>2
<1>6. Socket' /\ Elements(toHost') = Elements(toHost) \cup {m}
  BY <1>1, <1>4, <1>5, AppendAdds DEF JInv, Socket, Msg
<1>7. handler \in [Id -> {"none", "check", "deliver", "read", "write", "done"}]
  BY DEF JInv, Unused
<1>8. ~Running(id)' /\ \A i \in Id : i # id => (Running(i)' <=> Running(i))
  BY <1>7 DEF Running
<1>9. Tokens' \subseteq (Tokens \ {t}) \cup {u}
  BY <1>1, <1>4, <1>6, <1>8 DEF Tokens
<1>10. InPlace(u)'
  <2>1. Waiting(id)' /\ Known(id)'
    BY <1>3, <1>4 DEF Waiting, Known
  <2> QED
    BY <1>1, <2>1 DEF InPlace
<1>11. Frame(f)
  BY <1>3, <1>4, <1>7 DEF Frame
<1>12. OneToken' /\ AllInPlace'
  BY <1>1, <1>2, <1>3, <1>9, <1>10, <1>11, MovesOn DEF JInv
<1>13. Unused' /\ TwoIdsEach' /\ StoreIsPast'
  BY <1>3, <1>4, RestStays DEF JInv
<1>14. IInv'
  BY <1>4, Untouched DEF JInv
<1> QED
  BY <1>4, <1>6, <1>12, <1>13, <1>14 DEF JInv, NoFatal

\* The stretches of a handler.
LEMMA HandlerMoves ==
    ASSUME JInv, NEW id \in Id, HandlerStep(id)
    PROVE  JInv'
<1>1. Running(id)
  BY DEF HandlerStep, Running
<1>2. Runs(id)
  <2>1. PICK t : t = <<"handler", id, id>>
    OBVIOUS
  <2>2. t \in Tokens
    BY <1>1, <2>1 DEF Tokens
  <2> QED
    BY <2>1, <2>2 DEF JInv, AllInPlace, InPlace
<1>3. CallOf(id) \in Request
  BY DEF JInv, IInv, Types, CallOf, Id
<1>4. handler \in [Id -> {"none", "check", "deliver", "read", "write", "done"}]
  BY DEF JInv, Unused
<1>5. UNCHANGED <<hostVars, toPlugin, storeVars, upVars>>
  BY DEF HandlerStep
<1>6. CallOf(id)' = CallOf(id) /\ (Known(id)' <=> Known(id)) /\ txn' = txn
  BY <1>5 DEF CallOf, Known, hostVars, storeVars
<1>7. ASSUME NEW v \in Verdict, Answer(id, v),
             v = "ok" => Written(id, CallOf(id) = "deliver")
      PROVE  JInv'
  <2>1. /\ toHost' = Append(toHost, Msg(id, v)) /\ handler' = [handler EXCEPT ![id] = "done"]
        /\ tsPending' = tsPending
    BY <1>7 DEF Answer
  <2>2. Answered(id, v)'
    BY <1>4, <1>6, <1>7, <2>1 DEF Answered, Written
  <2> QED
    BY <1>1, <1>5, <2>1, <2>2, HandlerSends
<1>8. ASSUME NEW k \in {"read", "write"}, Ask(id, k),
             CallOf(id) = "deliver", Written(id, FALSE)
      PROVE  JInv'
  <2>1. /\ toHost' = Append(toHost, Msg(id, k)) /\ handler' = [handler EXCEPT ![id] = k]
        /\ tsPending' = tsPending \cup {id}
    BY <1>8 DEF Ask
  <2>2. Asked(id, k)'
    BY <1>2, <1>4, <1>6, <1>8, <2>1 DEF Asked, Runs, Written
  <2> QED
    BY <1>1, <1>5, <2>1, <2>2, HandlerSends
<1>9. CASE handler[id] = "check"
  <2>1. PICK v \in Verdict : Answer(id, v)
    BY <1>9 DEF HandlerStep
  <2>2. Written(id, CallOf(id) = "deliver")
    BY <1>2, <1>9 DEF Runs, Written
  <2> QED
    BY <1>7, <2>1, <2>2
<1>10. CASE handler[id] = "deliver"
  <2>1. Ask(id, "read") /\ CallOf(id) = "deliver" /\ Written(id, FALSE)
    BY <1>2, <1>10 DEF HandlerStep, Runs, Written
  <2> QED
    BY <1>8, <2>1
<1>11. CASE handler[id] = "read"
  <2>1. CallOf(id) = "deliver" /\ Written(id, FALSE)
    BY <1>2, <1>3, <1>11 DEF Runs, Written, Request
  <2>2. Answer(id, "error") \/ Ask(id, "write")
    BY <1>11 DEF HandlerStep
  <2> QED
    BY <1>7, <1>8, <2>1, <2>2 DEF Verdict
<1>12. CASE handler[id] = "write"
  <2>1. CallOf(id) = "deliver" /\ Written(id, TRUE) /\ Answer(id, "ok")
    BY <1>2, <1>3, <1>12 DEF HandlerStep, Runs, Written, Request
  <2> QED
    BY <1>7, <2>1 DEF Verdict, Written
<1> QED
  BY <1>9, <1>10, <1>11, <1>12 DEF HandlerStep

-----------------------------------------------------------------------------
(* The calling state machine. *)

\* A call puts its request on the socket; its state machine had control of nothing else.
LEMMA CallStarts ==
    ASSUME JInv, NEW f \in Fsm, NEW request \in Request, Call(f, request),
           used[f] + 1 <= 2 * MaxTxs, txn'[f] = {}, \A g \in Fsm \ {f} : txn'[g] = txn[g],
           channel' \subseteq channel,
           \A x \in Tokens :
              x[2][1] = f => \E a \in channel \ channel' : x = <<"channel", a[1], a>>,
           UNCHANGED <<goroutines, toHost, handler, tsPending>>
    PROVE  OneToken' /\ AllInPlace' /\ Socket' /\ Unused'
<1>1. used \in [Fsm -> Nat] /\ used[f] \in Nat /\ MaxTxs \in Nat
  BY TxsAssumption DEF JInv, IInv, Types
<1>2. PICK id : id = <<f, used[f] + 1>>
  OBVIOUS
<1>3. id \in Id /\ id[1] = f /\ id[2] = used[f] + 1
  BY <1>1, <1>2 DEF Id
<1>4. PICK m, u : m = [id |-> id, kind |-> request] /\ u = <<"toPlugin", m.id, m>>
  OBVIOUS
<1>5. /\ used' = [used EXCEPT ![f] = @ + 1]
      /\ pending' = pending \cup {id}
      /\ requestFSMs' = requestFSMs \cup {<<id, f>>}
      /\ toPlugin' = Append(toPlugin, m)
      /\ caller' = [caller EXCEPT ![f] = [at |-> "waiting", id |-> id, call |-> request]]
  BY <1>2, <1>4 DEF Call, Contexts, Msg
<1>6. /\ used'[f] = used[f] + 1 /\ caller'[f].at = "waiting" /\ caller'[f].call = request
      /\ \A g \in Fsm \ {f} : used'[g] = used[g] /\ caller'[g] = caller[g]
  BY <1>1, <1>5 DEF JInv, IInv, Types
<1>7. m \in Message /\ \A e \in Elements(toPlugin) : e.id # m.id
  <2>1. m \in Message
    BY <1>3, <1>4 DEF Message
  <2>2. ASSUME NEW e \in Elements(toPlugin), e.id = id
        PROVE  FALSE
    <3>1. PICK y : y = <<"toPlugin", e.id, e>>
      OBVIOUS
    <3>2. y \in Tokens /\ y[2][1] = f /\ y[1] = "toPlugin"
      BY <1>3, <2>2, <3>1 DEF Tokens
    <3> QED
      BY <3>2
  <2> QED
    BY <1>4, <2>1, <2>2
<1>8. Socket' /\ Elements(toPlugin') = Elements(toPlugin) \cup {m}
  BY <1>5, <1>7, AppendAdds DEF JInv, Socket
<1>9. \A x \in Tokens' :
         \/ x = u
         \/ x \in Tokens /\ ~\E a \in channel \ channel' : x = <<"channel", a[1], a>>
  BY <1>4, <1>8 DEF Tokens, Running
<1>10. handler[id] = "none" /\ id \notin tsPending
  BY <1>1, <1>3 DEF JInv, Unused
<1>11. InPlace(u)'
  <2>1. Waiting(id)' /\ Known(id)' /\ CallOf(id)' = request
    BY <1>3, <1>5, <1>6 DEF Waiting, Known, CallOf
  <2>2. Requested(id, request)'
    BY <1>3, <1>10, <2>1 DEF Requested, Written
  <2> QED
    BY <1>4, <2>1, <2>2 DEF InPlace
<1>12. Frame(f)
  BY <1>3, <1>5, <1>6 DEF Frame
<1>13. u[2][1] = f
  BY <1>3, <1>4
<1>14. \A x \in Tokens' : \/ x = u /\ InPlace(u)' /\ u[2][1] = f
                          \/ x \in Tokens /\ x[2][1] # f
  BY <1>9, <1>11, <1>13
<1>15. OneToken' /\ AllInPlace'
  BY <1>12, <1>14, HandOver DEF JInv
<1>16. Unused'
  <2>1. ASSUME NEW i \in Id, i[2] > used'[i[1]]
        PROVE  i[2] > used[i[1]]
    <3>1. i[1] \in Fsm /\ i[2] \in Nat
      BY DEF Id
    <3> QED
      BY <1>1, <1>6, <2>1, <3>1
  <2> QED
    BY <2>1 DEF JInv, Unused
<1> QED
  BY <1>8, <1>15, <1>16

\* The steps of a state machine keep the invariant.
LEMMA CallerMoves ==
    ASSUME JInv, NEW f \in Fsm, BeginTx(f) \/ Receive(f)
    PROVE  JInv'
<1>0. IInv' /\ used \in [Fsm -> Nat] /\ begun \in [Fsm -> 0 .. MaxTxs] /\ MaxTxs \in Nat
  BY CallerSteps, TxsAssumption DEF JInv, IInv, Types, TwoIdsEach
<1>1. CASE BeginTx(f)
  <2>1. /\ caller[f].at = "idle" /\ begun[f] < MaxTxs /\ Call(f, "check")
        /\ begun' = [begun EXCEPT ![f] = @ + 1] /\ txn' = [txn EXCEPT ![f] = {}]
        /\ UNCHANGED <<channel, goroutines, toHost, handler, tsPending, base, hostUp, pluginUp>>
    BY <1>1 DEF BeginTx, pluginVars, upVars
  <2>2. /\ used'[f] = used[f] + 1 /\ caller'[f].at = "waiting" /\ caller'[f].call = "check"
        /\ \A g \in Fsm \ {f} : used'[g] = used[g] /\ caller'[g] = caller[g]
    BY <1>0, <2>1 DEF Call, JInv, IInv, Types
  <2>3. used[f] <= 2 * begun[f] /\ begun[f] \in Nat /\ used[f] + 1 <= 2 * MaxTxs
    BY <1>0, <2>1 DEF JInv, TwoIdsEach
  <2>4. txn'[f] = {} /\ \A g \in Fsm \ {f} : txn'[g] = txn[g]
    BY <2>1 DEF JInv, IInv, Types
  <2>5. \A x \in Tokens : x[2][1] # f
    BY <2>1 DEF JInv, AllInPlace, InPlace, Waiting
  <2>6. OneToken' /\ AllInPlace' /\ Socket' /\ Unused'
    BY <2>1, <2>3, <2>4, <2>5, CallStarts DEF Request
  <2>7. TwoIdsEach'
    <3>1. begun' \in [Fsm -> 0 .. MaxTxs] /\ begun'[f] = begun[f] + 1
      BY <1>0, <2>1
    <3>2. used'[f] < 2 * begun'[f]
      BY <1>0, <2>2, <2>3, <3>1
    <3>3. \A g \in Fsm \ {f} : begun'[g] = begun[g]
      BY <1>0, <2>1
    <3>4. used'[f] \in Nat /\ begun'[f] \in Nat
      BY <1>0, <2>2, <2>3, <3>1
    <3> QED
      BY <2>2, <3>1, <3>2, <3>3, <3>4 DEF JInv, TwoIdsEach
  <2>8. StoreIsPast'
    <3>1. base \in [Fsm -> SUBSET (Fsm \X Nat)]
      BY DEF JInv, IInv, Types
    <3>2. ASSUME NEW g \in Fsm, NEW w \in base[g]
          PROVE  w[2] <= used'[g] /\ (caller'[g].at # "idle" => w[2] < used'[g])
      <4>1. w[2] \in Nat /\ used[g] \in Nat /\ w[2] <= used[g]
        BY <1>0, <3>1 DEF JInv, StoreIsPast
      <4>2. CASE g = f
        BY <2>2, <4>1, <4>2
      <4>3. CASE g # f
        BY <2>2, <4>3 DEF JInv, StoreIsPast
      <4> QED
        BY <4>2, <4>3
    <3> QED
      BY <2>1, <3>2 DEF StoreIsPast
  <2> QED
    BY <1>0, <2>1, <2>6, <2>7, <2>8 DEF JInv, NoFatal
<1>2. CASE Receive(f)
  <2>1. caller[f].at = "waiting" /\ caller[f].id = <<f, used[f]>>
    BY <1>2 DEF Receive, JInv, IInv, WaitsForLast
  <2>2. PICK a \in channel :
           /\ a[1] = <<f, used[f]>> /\ channel' = channel \ {a}
           /\ \/ /\ Fail(f) /\ UNCHANGED <<used, begun, pending, toPlugin>>
                 /\ requestFSMs' = {r \in requestFSMs : r[1] # <<f, used[f]>>}
              \/ /\ a[2] = "ok" /\ caller[f].call = "check"
                 /\ Call(f, "deliver") /\ UNCHANGED <<begun, base, txn>>
              \/ /\ a[2] = "ok" /\ caller[f].call = "deliver"
                 /\ Flush(f) /\ txn' = [txn EXCEPT ![f] = {}]
                 /\ caller' = [caller EXCEPT ![f] = Idle]
                 /\ requestFSMs' = {r \in requestFSMs : r[1] # <<f, used[f]>>}
                 /\ UNCHANGED <<used, begun, pending, toPlugin>>
    BY <1>2, <2>1 DEF Receive
  <2>3. UNCHANGED <<goroutines, toHost, handler, tsPending, hostUp, pluginUp>>
    BY <1>2 DEF Receive, pluginVars, upVars
  <2>4. PICK t : t = <<"channel", a[1], a>>
    OBVIOUS
  <2>5. t \in Tokens /\ t[2][1] = f /\ InPlace(t)
    BY <2>2, <2>4 DEF Tokens, JInv, AllInPlace
  <2>6. \A x \in Tokens : x[2][1] = f => x = t
    BY <2>5 DEF JInv, OneToken
  <2>7. a \in channel \ channel'
    BY <2>2
  <2>8. CASE /\ a[2] = "ok" /\ caller[f].call = "check"
             /\ Call(f, "deliver") /\ UNCHANGED <<begun, base, txn>>
    <3>1. PICK id \in Id : id = a[1] /\ id[1] = f /\ Answered(id, a[2]) /\ CallOf(id) = "check"
      BY <2>2, <2>4, <2>5, <2>8 DEF InPlace, Waiting, CallOf
    <3>2. txn'[f] = {} /\ \A g \in Fsm \ {f} : txn'[g] = txn[g]
      BY <2>8, <3>1 DEF Answered, Written
    <3>3. /\ used'[f] = used[f] + 1 /\ caller'[f].at = "waiting" /\ caller'[f].call = "deliver"
          /\ \A g \in Fsm \ {f} : used'[g] = used[g] /\ caller'[g] = caller[g]
      BY <1>0, <2>8 DEF Call, JInv, IInv, Types
    <3>4. used[f] < 2 * begun[f] /\ begun[f] \in 0 .. MaxTxs /\ used[f] \in Nat
      BY <1>0, <2>1, <2>8 DEF JInv, TwoIdsEach
    <3>5. used[f] + 1 <= 2 * MaxTxs
      BY <1>0, <3>4
    <3>6. \A x \in Tokens : x[2][1] = f => \E b \in channel \ channel' : x = <<"channel", b[1], b>>
      BY <2>4, <2>6, <2>7
    <3>7. OneToken' /\ AllInPlace' /\ Socket' /\ Unused'
      BY <2>2, <2>3, <2>8, <3>2, <3>5, <3>6, CallStarts DEF Request
    <3>8. TwoIdsEach'
      <4>1. used'[f] <= 2 * begun'[f]
        BY <1>0, <2>8, <3>3, <3>4
      <4> QED
        BY <1>0, <2>8, <3>3, <4>1 DEF JInv, TwoIdsEach
    <3>9. StoreIsPast'
      <4>1. base \in [Fsm -> SUBSET (Fsm \X Nat)]
        BY DEF JInv, IInv, Types
      <4> QED
        BY <1>0, <2>8, <3>3, <4>1 DEF JInv, StoreIsPast
    <3> QED
      BY <1>0, <2>3, <3>7, <3>8, <3>9 DEF JInv, NoFatal
  <2>9. CASE ~(/\ a[2] = "ok" /\ caller[f].call = "check"
               /\ Call(f, "deliver") /\ UNCHANGED <<begun, base, txn>>)
    <3>1. /\ caller' = [caller EXCEPT ![f] = Idle] /\ txn' = [txn EXCEPT ![f] = {}]
          /\ UNCHANGED <<used, begun, pending, toPlugin>>
          /\ base' = base \/ Flush(f)
      BY <2>2, <2>9 DEF Fail
    <3>2. \A r : r[1] # <<f, used[f]>> => (r \in requestFSMs' <=> r \in requestFSMs)
      BY <2>2, <2>9
    <3>3. Frame(f)
      <4>1. \A id \in Id : id[1] # f =>
               (<<id, id[1]>> \in requestFSMs' <=> <<id, id[1]>> \in requestFSMs)
        BY <3>2
      <4> QED
        BY <2>3, <3>1, <4>1 DEF Frame, JInv, IInv, Types
    <3>4. \A x \in Tokens' : x \in Tokens /\ x # t
      BY <2>2, <2>3, <2>4, <3>1 DEF Tokens, Running
    <3>5. \A x \in Tokens' : x \in Tokens /\ x[2][1] # f
      BY <2>6, <3>4
    <3>6. OneToken' /\ AllInPlace'
      BY <3>3, <3>5, HandOver DEF JInv
    <3>7. caller'[f].at = "idle" /\ \A g \in Fsm \ {f} : caller'[g] = caller[g]
      BY <3>1 DEF JInv, IInv, Types, Idle
    <3>8. TwoIdsEach'
      BY <3>1, <3>7 DEF JInv, TwoIdsEach
    <3>9. StoreIsPast'
      <4>1. ASSUME NEW w \in base'[f]
            PROVE  w[2] <= used[f]
        <5>1. w \in base[f] \/ w \in txn[f]
          BY <3>1 DEF Flush, JInv, IInv, Types
        <5>2. CASE w \in base[f]
          BY <5>2 DEF JInv, StoreIsPast
        <5>3. CASE w \in txn[f] /\ w \notin base[f]
          <6>1. a[2] = "ok" /\ caller[f].call = "deliver"
            BY <2>2, <2>9, <5>3 DEF Fail
          <6>2. PICK id \in Id : id = <<f, used[f]>> /\ Answered(id, "ok") /\ id[1] = f
                                 /\ CallOf(id) = "deliver"
            BY <2>2, <2>4, <2>5, <6>1 DEF InPlace, Waiting, CallOf
          <6>3. w = <<f, used[f]>>
            BY <5>3, <6>2 DEF Answered, Written
          <6> QED
            BY <1>0, <6>3
        <5> QED
          BY <5>1, <5>2, <5>3
      <4>2. \A g \in Fsm \ {f} : base'[g] = base[g]
        BY <3>1 DEF Flush, JInv, IInv, Types
      <4> QED
        BY <3>1, <3>7, <4>1, <4>2 DEF JInv, StoreIsPast
    <3>10. Unused' /\ Socket'
      BY <2>3, <3>1 DEF JInv, Unused, Socket
    <3> QED
      BY <1>0, <2>3, <3>6, <3>8, <3>9, <3>10 DEF JInv, NoFatal
  <2> QED
    BY <2>8, <2>9
<1> QED
  BY <1>1, <1>2

-----------------------------------------------------------------------------
(* Theorems. *)

\* The invariant holds of the initial state.
LEMMA InitJInv == Init => JInv
<1> SUFFICES ASSUME Init
             PROVE  JInv
  OBVIOUS
<1>1. IInv
  BY InitIInv
<1>2. Elements(toPlugin) = {} /\ Elements(toHost) = {} /\ \A id \in Id : ~Running(id)
  BY DEF Init, Elements, Running
<1>3. Tokens = {}
  BY <1>2 DEF Tokens, Init
<1>4. Socket /\ Unused
  BY DEF Init, Socket, IdsDiffer, Unused
<1>5. TwoIdsEach /\ StoreIsPast /\ NoFatal
  BY TxsAssumption DEF Init, TwoIdsEach, StoreIsPast, NoFatal, Idle
<1> QED
  BY <1>1, <1>3, <1>4, <1>5 DEF JInv, OneToken, AllInPlace

\* Without timeouts every step keeps it.
LEMMA StepJInv ==
    ASSUME NoTimeouts, JInv, [Next]_vars
    PROVE  JInv'
<1>1. CASE HostStep
  <2>1. ~ListenFails
    BY DEF ListenFails, JInv, NoFatal
  <2>2. \A f \in Fsm : ~TimeoutFires(f) /\ ~TimeoutReturns(f)
    BY DEF TimeoutFires, TimeoutReturns, NoTimeouts, JInv, TwoIdsEach
  <2> QED
    BY <1>1, <2>1, <2>2, CallerMoves, ListenMoves, LookupMoves, ServeMoves, RespondMoves,
       ForwardMoves DEF HostStep
<1>2. CASE PluginStep
  <2>1. ~PluginCloses /\ \A id \in Id : ~HandlerTimeout(id)
    BY DEF PluginCloses, HandlerTimeout, NoTimeouts, JInv, NoFatal
  <2> QED
    BY <1>2, <2>1, PluginReceiveMoves, HandlerMoves DEF PluginStep
<1>3. CASE UNCHANGED vars
  <2>1. UNCHANGED <<used, begun, caller, pending, requestFSMs, channel, goroutines, toPlugin,
                    toHost, handler, tsPending, base, txn, hostUp, pluginUp>>
    BY <1>3 DEF vars
  <2>2. IInv'
    BY <2>1, Untouched DEF JInv
  <2>3. Tokens' = Tokens
    BY <2>1 DEF Tokens, Running
  <2>4. \A x : InPlace(x) => InPlace(x)'
    BY <2>1 DEF InPlace, Waiting, Runs, Requested, Asked, Replied, Answered, Written, CallOf,
                Known
  <2>5. OneToken' /\ AllInPlace'
    BY <2>3, <2>4 DEF JInv, OneToken, AllInPlace
  <2> QED
    BY <2>1, <2>2, <2>5 DEF JInv, Socket, Unused, TwoIdsEach, StoreIsPast, NoFatal
<1> QED
  BY <1>1, <1>2, <1>3 DEF Next

\* A step of the exchange is a step of AtomicTx, or none.
LEMMA StepIsAtomic ==
    ASSUME NoTimeouts, JInv, [Next]_vars
    PROVE  [Serial!Next]_(Serial!vars)
<1> DEFINE busy == [f \in Fsm |-> caller[f].at # "idle"]
<1>1. caller \in [Fsm -> [at : {"idle", "waiting", "timedOut"},
                          id : {NoId} \cup (Fsm \X Nat), call : Request]]
      /\ base \in [Fsm -> SUBSET (Fsm \X Nat)] /\ txn \in [Fsm -> SUBSET (Fsm \X Nat)]
  BY DEF JInv, IInv, Types
<1>2. CASE UNCHANGED <<caller, base>>
  BY <1>2 DEF Serial!vars
<1>3. ASSUME NEW f \in Fsm, BeginTx(f)
      PROVE  Serial!Next
  <2>1. caller[f].at = "idle" /\ UNCHANGED base
    BY <1>3 DEF BeginTx
  <2>2. PICK r : r.at = "waiting" /\ caller' = [caller EXCEPT ![f] = r]
    <3>1. PICK r : r = [at |-> "waiting", id |-> <<f, used[f] + 1>>, call |-> "check"]
      OBVIOUS
    <3> QED
      BY <1>3, <3>1 DEF BeginTx, Call
  <2>3. ~busy[f] /\ busy' = [busy EXCEPT ![f] = TRUE]
    BY <1>1, <2>1, <2>2
  <2>4. Serial!Begin(f)
    BY <2>1, <2>3 DEF Serial!Begin
  <2> QED
    BY <2>4 DEF Serial!Next
<1>4. ASSUME NEW f \in Fsm, Receive(f)
      PROVE  [Serial!Next]_(Serial!vars)
  <2>1. caller[f].at = "waiting" /\ caller[f].id = <<f, used[f]>>
    BY <1>4 DEF Receive, JInv, IInv, WaitsForLast
  <2>2. PICK a \in channel :
           /\ a[1] = <<f, used[f]>>
           /\ \/ Fail(f)
              \/ Call(f, "deliver") /\ UNCHANGED base
              \/ /\ a[2] = "ok" /\ caller[f].call = "deliver"
                 /\ Flush(f) /\ caller' = [caller EXCEPT ![f] = Idle]
    BY <1>4, <2>1 DEF Receive
  <2>3. busy[f]
    BY <2>1
  <2>4. ASSUME caller' = [caller EXCEPT ![f] = Idle]
        PROVE  busy' = [busy EXCEPT ![f] = FALSE]
    BY <1>1, <2>4 DEF Idle
  <2>5. CASE Fail(f)
    <3>1. Serial!Abort(f)
      BY <2>3, <2>4, <2>5 DEF Fail, Serial!Abort
    <3> QED
      BY <3>1 DEF Serial!Next
  <2>6. CASE Call(f, "deliver") /\ UNCHANGED base
    <3>1. PICK r : r.at = "waiting" /\ caller' = [caller EXCEPT ![f] = r]
      <4>1. PICK r : r = [at |-> "waiting", id |-> <<f, used[f] + 1>>, call |-> "deliver"]
        OBVIOUS
      <4> QED
        BY <2>6, <4>1 DEF Call
    <3>2. busy' = busy
      BY <1>1, <2>1, <3>1
    <3> QED
      BY <2>6, <3>2 DEF Serial!vars
  <2>7. CASE /\ a[2] = "ok" /\ caller[f].call = "deliver"
             /\ Flush(f) /\ caller' = [caller EXCEPT ![f] = Idle]
    <3>1. PICK t : t = <<"channel", a[1], a>>
      OBVIOUS
    <3>2. InPlace(t)
      BY <3>1 DEF Tokens, JInv, AllInPlace
    <3>3. PICK id \in Id : /\ id = <<f, used[f]>> /\ id[1] = f /\ id[2] = used[f]
                           /\ Answered(id, "ok") /\ CallOf(id) = "deliver"
      BY <2>2, <2>7, <3>1, <3>2 DEF InPlace, Waiting, CallOf
    <3>4. txn[f] = {id}
      BY <3>3 DEF Answered, Written
    <3>5. id \notin base[f]
      <4>1. used[f] \in Nat
        BY DEF JInv, IInv, Types
      <4> QED
        BY <2>1, <3>3, <4>1 DEF JInv, StoreIsPast
    <3>6. base' = [base EXCEPT ![f] = @ \cup {id}]
      BY <2>7, <3>4 DEF Flush
    <3>7. Serial!Commit(f)
      BY <2>3, <2>4, <2>7, <3>5, <3>6 DEF Serial!Commit
    <3> QED
      BY <3>7 DEF Serial!Next
  <2> QED
    BY <2>2, <2>5, <2>6, <2>7
<1>5. CASE HostStep
  <2>1. ~ListenFails
    BY DEF ListenFails, JInv, NoFatal
  <2>2. \A f \in Fsm : ~TimeoutFires(f) /\ ~TimeoutReturns(f)
    BY DEF TimeoutFires, TimeoutReturns, NoTimeouts, JInv, TwoIdsEach
  <2>3. ASSUME Listen \/ \E g \in goroutines : Lookup(g) \/ Respond(g) \/ Forward(g)
        PROVE  UNCHANGED <<caller, base>>
    BY <2>3 DEF Listen, Lookup, Respond, Forward, Fatal, hostVars, storeVars
  <2>4. ASSUME NEW g \in goroutines, Serve(g)
        PROVE  UNCHANGED <<caller, base>>
    <3>1. PICK t \in Tokens, id \in Id, f \in Fsm :
             /\ t = <<"goroutine", g.id, g>> /\ InPlace(t)
             /\ id = g.id /\ f = id[1] /\ id[2] = used[f] /\ Waiting(id)
      BY GoroutineHolds
    <3>2. g.fsm = f /\ caller[f].at # "idle"
      BY <2>4, <3>1 DEF InPlace, Answered, Serve, IsState, Verdict, Waiting
    <3> QED
      BY <2>4, <3>2 DEF Serve, WriteTo, storeVars
  <2> QED
    BY <1>2, <1>3, <1>4, <1>5, <2>1, <2>2, <2>3, <2>4 DEF HostStep
<1>6. CASE PluginStep
  BY <1>2, <1>6 DEF PluginStep, PluginReceive, HandlerStep, HandlerTimeout, PluginCloses, Exit,
                    hostVars, storeVars
<1>7. CASE UNCHANGED vars
  BY <1>2, <1>7 DEF vars
<1> QED
  BY <1>5, <1>6, <1>7 DEF Next

\* While nothing times out neither the host's log.Fatal nor the plugin's process.exit is
\* reached: every reply and every state request is matched (lib/plugin.go ListenForInbound,
\* plugin.ts handleFSMResponse).
THEOREM NeverFatal ==
    ASSUME NoTimeouts
    PROVE  Spec => []NoFatal
<1>1. JInv => NoFatal
  BY DEF JInv
<1>2. JInv /\ [Next]_vars => JInv'
  BY StepJInv
<1> QED
  BY <1>1, <1>2, InitJInv, PTL DEF Spec

\* While nothing times out every transaction takes effect as a whole when it ends, or not
\* at all, however the goroutines, the socket and the handlers of all state machines
\* interleave (fsm/state.go ApplyTransactions over lib/plugin.go).
THEOREM TransactionsAreAtomicAlways ==
    ASSUME NoTimeouts
    PROVE  Spec => TransactionsAreAtomic
<1>1. Init => Serial!Init
  <2> SUFFICES ASSUME Init
               PROVE  Serial!Init
    OBVIOUS
  <2>1. \A f \in Fsm : caller[f].at = "idle"
    BY DEF Init, Idle
  <2>2. \A f \in Fsm : (caller[f].at # "idle") = FALSE
    BY <2>1
  <2>3. [f \in Fsm |-> caller[f].at # "idle"] = [f \in Fsm |-> FALSE]
    BY <2>2, Zenon
  <2>4. base = [f \in Fsm |-> {}]
    BY DEF Init
  <2> QED
    BY <2>3, <2>4, Zenon DEF Serial!Init
<1>2. JInv /\ [Next]_vars => JInv'
  BY StepJInv
<1>3. JInv /\ [Next]_vars => [Serial!Next]_(Serial!vars)
  BY StepIsAtomic
<1> QED
  BY <1>1, <1>2, <1>3, InitJInv, PTL DEF Spec, TransactionsAreAtomic, Serial!Spec
=============================================================================
