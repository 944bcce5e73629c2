------------------------------ MODULE PluginRPC ------------------------------
(***************************************************************************)
(* The node applies transactions through a plugin process.                 *)
(*                                                                         *)
(* Host: lib/plugin.go.  Several state machines (the one that applies      *)
(* blocks and the one of the mempool) share one Plugin.  A state machine   *)
(* wraps its store in a transaction, calls CheckTx and then DeliverTx, and *)
(* flushes the wrapped store when both succeed or drops it when either     *)
(* fails (fsm.ApplyTransactions).  A call registers a fresh request id,    *)
(* sends the request and waits for the answer or for a timeout.  Every     *)
(* message from the plugin is handled by a goroutine of its own.           *)
(*                                                                         *)
(* Plugin: plugin/typescript/src/contract/plugin.ts.  A request starts an  *)
(* asynchronous handler; a Deliver handler reads state, writes state and   *)
(* answers, waiting for the host's reply in between, and handlers of       *)
(* different requests interleave at each wait.                             *)
(*                                                                         *)
(* What a handler writes is abstracted to the id of the request it serves: *)
(* a store is the set of the requests whose writes it holds.  An operator  *)
(* named Mut... is a defective form of the definition that follows it.     *)
(***************************************************************************)
EXTENDS Naturals, Sequences, FiniteSets

CONSTANTS
    Fsm,           \* the state machines that share the plugin
    MaxTxs,        \* bound on the transactions of one state machine
    HostTimeouts,  \* whether waitForResponse of the host may time out
    PluginTimeouts \* whether waitForResponse of the plugin may time out

ASSUME TxsAssumption == MaxTxs \in Nat
ASSUME TimeoutAssumption == HostTimeouts \in BOOLEAN /\ PluginTimeouts \in BOOLEAN

\* Request ids: rand.Uint64() is taken not to repeat an id, so an id is the
\* state machine that drew it and how many it drew before.  The code sees no
\* structure in an id; the machine of a request is looked up in requestFSMs.
Id == Fsm \X (1 .. 2 * MaxTxs)
NoId == << >>

VARIABLES
    used,        \* Fsm -> the number of ids drawn so far
    begun,       \* Fsm -> the number of transactions begun so far
    caller,      \* Fsm -> the call its state machine is in
    pending,     \* Plugin.pending: ids with a channel
    requestFSMs, \* Plugin.requestFSMs: <<id, fsm>> pairs
    channel,     \* answers waiting in the channel of an id: <<id, verdict>>
    goroutines,  \* inbound messages being handled
    toPlugin,    \* bytes on the socket towards the plugin, as messages
    toHost,      \* bytes on the socket towards the host, as messages
    handler,     \* Id -> where the plugin's handler of the request is
    tsPending,   \* the plugin's own pending map
    base,        \* Fsm -> writes in the store under the transaction
    txn,         \* Fsm -> writes in the transaction's wrapped store
    outcome,     \* Id -> how the transaction ended whose last call this was
    hostUp,      \* FALSE after log.Fatal
    pluginUp     \* FALSE after process.exit

vars == <<used, begun, caller, pending, requestFSMs, channel, goroutines, toPlugin,
          toHost, handler, tsPending, base, txn, outcome, hostUp, pluginUp>>

hostVars == <<used, begun, caller, pending, requestFSMs, channel, goroutines, outcome>>
pluginVars == <<handler, tsPending>>
storeVars == <<base, txn>>
upVars == <<hostUp, pluginUp>>

Request == {"check", "deliver"}
Verdict == {"ok", "error"}

\* messages: a request, a reply to a state read or write, and in the other
\* direction a state read or write and the answer to a request
Msg(id, kind) == [id |-> id, kind |-> kind]

Idle == [at |-> "idle", id |-> NoId, call |-> "check"]

Init ==
    /\ used = [f \in Fsm |-> 0] /\ begun = [f \in Fsm |-> 0]
    /\ caller = [f \in Fsm |-> Idle]
    /\ pending = {} /\ requestFSMs = {} /\ channel = {} /\ goroutines = {}
    /\ toPlugin = << >> /\ toHost = << >>
    /\ handler = [id \in Id |-> "none"] /\ tsPending = {}
    /\ base = [f \in Fsm |-> {}] /\ txn = [f \in Fsm |-> {}]
    /\ outcome = [id \in Id |-> "none"]
    /\ hostUp = TRUE /\ pluginUp = TRUE

-----------------------------------------------------------------------------
(* The calling state machine *)

MutContexts(id, f) == requestFSMs
\* the contexts once the call of f with this id is registered
Contexts(id, f) == requestFSMs \cup {<<id, f>>}

\* sendToPluginAsync: register the id, then send
Call(f, request) ==
    LET id == <<f, used[f] + 1>> IN
    /\ used' = [used EXCEPT ![f] = @ + 1]
    /\ pending' = pending \cup {id}
    /\ requestFSMs' = Contexts(id, f)
    /\ toPlugin' = Append(toPlugin, Msg(id, request))
    /\ caller' = [caller EXCEPT ![f] = [at |-> "waiting", id |-> id, call |-> request]]

\* ApplyTransactions wraps the store and ApplyTransaction begins with CheckTx.
BeginTx(f) ==
    /\ caller[f].at = "idle"
    /\ begun[f] < MaxTxs
    /\ begun' = [begun EXCEPT ![f] = @ + 1]
    /\ Call(f, "check")
    /\ txn' = [txn EXCEPT ![f] = {}]
    /\ UNCHANGED <<channel, goroutines, toHost, pluginVars, base, outcome, upVars>>

\* the ids of a call that ended are dropped from both maps
Forget(id) ==
    /\ pending' = pending \ {id}
    /\ requestFSMs' = {r \in requestFSMs : r[1] # id}

MutForgetTimedOut(id) ==
    /\ requestFSMs' = {r \in requestFSMs : r[1] # id}
    /\ UNCHANGED pending
MutForgetIfPending(id) == id \in pending /\ Forget(id)
\* the deletes of a timeout, under the lock
ForgetTimedOut(id) == Forget(id)

\* a failed transaction: the wrapped store is dropped
Fail(f) ==
    /\ caller' = [caller EXCEPT ![f] = Idle]
    /\ txn' = [txn EXCEPT ![f] = {}]
    /\ UNCHANGED base

\* txn.Flush: the wrapped store is written to the one under it
Flush(f) == base' = [base EXCEPT ![f] = @ \cup txn[f]]

\* waitForResponse receives the answer; sendToPluginSync drops the context.
\* CheckTx that passed is followed by DeliverTx in the same wrapped store.  The
\* transaction fails when the answer is an error, and after a good one when its
\* signature or its events are refused.
Receive(f) ==
    LET id == caller[f].id IN
    /\ caller[f].at = "waiting"
    /\ \E a \in channel :
          /\ a[1] = id
          /\ channel' = channel \ {a}
          /\ \/ /\ outcome' = [outcome EXCEPT ![id] = "error"]
                /\ Fail(f)
                /\ requestFSMs' = {r \in requestFSMs : r[1] # id}
                /\ UNCHANGED <<used, begun, pending, toPlugin>>
             \/ /\ a[2] = "ok" /\ caller[f].call = "check"
                /\ Call(f, "deliver")
                /\ UNCHANGED <<begun, base, txn, outcome>>
             \/ /\ a[2] = "ok" /\ caller[f].call = "deliver"
                /\ outcome' = [outcome EXCEPT ![id] = "ok"]
                /\ Flush(f)
                /\ txn' = [txn EXCEPT ![f] = {}]
                /\ caller' = [caller EXCEPT ![f] = Idle]
                /\ requestFSMs' = {r \in requestFSMs : r[1] # id}
                /\ UNCHANGED <<used, begun, pending, toPlugin>>
    /\ UNCHANGED <<goroutines, toHost, pluginVars, upVars>>

\* The timer of waitForResponse fires; the maps are cleaned under the lock in a
\* later step, and an answer that is already in the channel is lost.
TimeoutFires(f) ==
    /\ HostTimeouts
    /\ caller[f].at = "waiting"
    /\ caller' = [caller EXCEPT ![f].at = "timedOut"]
    /\ UNCHANGED <<used, begun, pending, requestFSMs, channel, goroutines, outcome,
                   toPlugin, toHost, pluginVars, storeVars, upVars>>

TimeoutReturns(f) ==
    LET id == caller[f].id IN
    /\ caller[f].at = "timedOut"
    /\ ForgetTimedOut(id)
    /\ outcome' = [outcome EXCEPT ![id] = "error"]
    /\ Fail(f)
    /\ UNCHANGED <<used, begun, channel, goroutines, toPlugin, toHost, pluginVars, upVars>>

-----------------------------------------------------------------------------
(* ListenForInbound and the goroutines it starts *)

Listen ==
    /\ toHost # << >>
    /\ toHost' = Tail(toHost)
    /\ goroutines' = goroutines \cup
           {[id |-> Head(toHost).id, kind |-> Head(toHost).kind, at |-> "route", fsm |-> NoId]}
    /\ UNCHANGED <<used, begun, caller, pending, requestFSMs, channel, outcome, toPlugin,
                   pluginVars, storeVars, upVars>>

\* the plugin closed the socket and everything it sent has been read
ListenFails ==
    /\ ~pluginUp /\ toHost = << >>
    /\ hostUp' = FALSE
    /\ UNCHANGED <<hostVars, toPlugin, toHost, pluginVars, storeVars, pluginUp>>

\* an error of a handler ends the process
Fatal ==
    /\ hostUp' = FALSE
    /\ UNCHANGED <<hostVars, toPlugin, toHost, pluginVars, storeVars, pluginUp>>

IsState(g) == g.kind \in {"read", "write"}

MutRoutesTo(g, f) == \E r \in requestFSMs : r[2] = f
\* the state machine of the request
RoutesTo(g, f) == <<g.id, f>> \in requestFSMs

\* handleStateReadRequest, handleStateWriteRequest: find the state machine of
\* the request under the lock, and release the lock
Lookup(g) ==
    /\ IsState(g) /\ g.at = "route"
    /\ \/ /\ ~\E f \in Fsm : RoutesTo(g, f)
          /\ Fatal
       \/ \E f \in Fsm :
          /\ RoutesTo(g, f)
          /\ goroutines' = (goroutines \ {g}) \cup {[g EXCEPT !.at = "serve", !.fsm = f]}
          /\ UNCHANGED <<used, begun, caller, pending, requestFSMs, channel, outcome,
                         toPlugin, toHost, pluginVars, storeVars, upVars>>

\* StateWrite goes to the store the state machine has now, which is the wrapped
\* one while a transaction is in progress and the one under it otherwise.
MutWriteTo(f, id) == base' = [base EXCEPT ![f] = @ \cup {id}] /\ UNCHANGED txn
WriteTo(f, id) ==
    IF caller[f].at = "idle"
    THEN base' = [base EXCEPT ![f] = @ \cup {id}] /\ UNCHANGED txn
    ELSE txn' = [txn EXCEPT ![f] = @ \cup {id}] /\ UNCHANGED base

\* forward the request to the state machine and send its reply
Serve(g) ==
    /\ IsState(g) /\ g.at = "serve"
    /\ IF g.kind = "write" THEN WriteTo(g.fsm, g.id) ELSE UNCHANGED storeVars
    /\ toPlugin' = Append(toPlugin, Msg(g.id, "reply"))
    /\ goroutines' = goroutines \ {g}
    /\ UNCHANGED <<used, begun, caller, pending, requestFSMs, channel, outcome, toHost,
                   pluginVars, upVars>>

\* handlePluginResponse: take the channel of the id and forget the id under the
\* lock; a goroutine puts the answer into the channel
Respond(g) ==
    /\ ~IsState(g) /\ g.at = "route"
    /\ \/ g.id \notin pending /\ Fatal
       \/ /\ g.id \in pending
          /\ Forget(g.id)
          /\ goroutines' = (goroutines \ {g}) \cup {[g EXCEPT !.at = "forward"]}
          /\ UNCHANGED <<used, begun, caller, channel, outcome, toPlugin, toHost,
                         pluginVars, storeVars, upVars>>

Forward(g) ==
    /\ ~IsState(g) /\ g.at = "forward"
    /\ channel' = channel \cup {<<g.id, g.kind>>}
    /\ goroutines' = goroutines \ {g}
    /\ UNCHANGED <<used, begun, caller, pending, requestFSMs, outcome, toPlugin, toHost,
                   pluginVars, storeVars, upVars>>

-----------------------------------------------------------------------------
(* The plugin *)

\* process.exit(1)
Exit ==
    /\ pluginUp' = FALSE
    /\ UNCHANGED <<hostVars, toPlugin, toHost, pluginVars, storeVars, hostUp>>

\* handleMessageAsync starts a handler for a request; handleFSMResponse
\* resolves the promise a handler waits on, and knows no other reply
PluginReceive ==
    /\ toPlugin # << >>
    /\ LET m == Head(toPlugin) IN
       \/ /\ m.kind \in Request
          /\ handler' = [handler EXCEPT ![m.id] = m.kind]
          /\ toPlugin' = Tail(toPlugin)
          /\ UNCHANGED <<hostVars, toHost, tsPending, storeVars, upVars>>
       \/ /\ m.kind = "reply" /\ m.id \in tsPending
          /\ tsPending' = tsPending \ {m.id}
          /\ toPlugin' = Tail(toPlugin)
          /\ UNCHANGED <<hostVars, toHost, handler, storeVars, upVars>>
       \/ /\ m.kind = "reply" /\ m.id \notin tsPending
          /\ Exit

Answer(id, verdict) ==
    /\ toHost' = Append(toHost, Msg(id, verdict))
    /\ handler' = [handler EXCEPT ![id] = "done"]
    /\ UNCHANGED tsPending

\* sendToPluginAsync of the plugin: the request keeps the id of the call
Ask(id, kind) ==
    /\ toHost' = Append(toHost, Msg(id, kind))
    /\ tsPending' = tsPending \cup {id}
    /\ handler' = [handler EXCEPT ![id] = kind]

\* the next stretch of a handler up to its next await: CheckTx answers at once,
\* a Deliver handler reads (two reads in a row count as one), then fails or
\* writes, then answers
HandlerStep(id) ==
    /\ id \notin tsPending
    /\ \/ handler[id] = "check" /\ \E v \in Verdict : Answer(id, v)
       \/ handler[id] = "deliver" /\ Ask(id, "read")
       \/ handler[id] = "read" /\ (Answer(id, "error") \/ Ask(id, "write"))
       \/ handler[id] = "write" /\ Answer(id, "ok")
    /\ UNCHANGED <<hostVars, toPlugin, storeVars, upVars>>

\* waitForResponse of the plugin gives up and the handler answers its error
HandlerTimeout(id) ==
    /\ PluginTimeouts
    /\ id \in tsPending
    /\ tsPending' = tsPending \ {id}
    /\ toHost' = Append(toHost, Msg(id, "error"))
    /\ handler' = [handler EXCEPT ![id] = "done"]
    /\ UNCHANGED <<hostVars, toPlugin, storeVars, upVars>>

\* the host closed the socket
PluginCloses ==
    /\ ~hostUp /\ pluginUp
    /\ Exit

-----------------------------------------------------------------------------
HostStep ==
    /\ hostUp
    /\ \/ \E f \in Fsm : \/ BeginTx(f) \/ Receive(f)
                         \/ TimeoutFires(f) \/ TimeoutReturns(f)
       \/ Listen \/ ListenFails
       \/ \E g \in goroutines : Lookup(g) \/ Serve(g) \/ Respond(g) \/ Forward(g)

PluginStep ==
    /\ pluginUp
    /\ \/ PluginReceive
       \/ \E id \in Id : HandlerStep(id) \/ HandlerTimeout(id)
       \/ PluginCloses

Next == HostStep \/ PluginStep

Spec == Init /\ [][Next]_vars

\* A goroutine that can run runs, a runtime timer fires, the plugin's event
\* loop takes its next callback.  Nothing makes a node begin a transaction.
Fairness ==
    /\ \A f \in Fsm : /\ WF_vars(hostUp /\ Receive(f))
                      /\ WF_vars(hostUp /\ TimeoutFires(f))
                      /\ WF_vars(hostUp /\ TimeoutReturns(f))
    /\ WF_vars(hostUp /\ Listen) /\ WF_vars(hostUp /\ ListenFails)
    /\ \A id \in Id : WF_vars(hostUp /\ \E g \in goroutines :
           g.id = id /\ (Lookup(g) \/ Serve(g) \/ Respond(g) \/ Forward(g)))
    /\ WF_vars(pluginUp /\ PluginReceive)
    /\ \A id \in Id : WF_vars(pluginUp /\ HandlerStep(id))

FairSpec == Spec /\ Fairness

-----------------------------------------------------------------------------
(* What the exchange promises *)

\* Both maps of the host hold only the request its state machine is waiting
\* for: neither an answer nor a timeout leaves an entry behind.
NoStaleEntries ==
    \A f \in Fsm, n \in 1 .. 2 * MaxTxs :
        (<<f, n>> \in pending \/ \E x \in Fsm : <<<<f, n>>, x>> \in requestFSMs)
            => caller[f].at # "idle" /\ caller[f].id = <<f, n>>

\* A write reaches only the store of the state machine whose request it
\* serves, although every state machine uses the same connection.
WritesStayWithTheirMachine ==
    \A f \in Fsm : \A id \in base[f] \cup txn[f] : id[1] = f

\* The store under the transactions holds only writes of transactions that
\* succeeded: a failed one is rolled back entirely.
FailedLeavesNothing == \A f \in Fsm : \A id \in base[f] : outcome[id] = "ok"

\* Seen from outside, every transaction takes effect at one moment: the
\* goroutines, the socket and the handler's waits implement AtomicTx.
Serial == INSTANCE AtomicTx WITH store <- base, Write <- Id,
                                 busy <- [f \in Fsm |-> caller[f].at # "idle"]
TransactionsAreAtomic == Serial!Spec

\* Neither process is ever ended by a message it cannot match.
NoFatal == hostUp /\ pluginUp

\* Every call a state machine makes returns, or the node has stopped.
EveryCallReturns ==
    \A f \in Fsm : caller[f].at # "idle" ~> (caller[f].at = "idle" \/ ~hostUp)
=============================================================================
