---------------------------- MODULE PkConnection ----------------------------
(***************************************************************************)
(* The synchronous calls of the client library, perfkit/pk-connection.c,   *)
(* over perfkit/connections/pk-connection-dbus.c.  Each of its sixty calls *)
(* starts the asynchronous one and waits in pk_connection_sync_wait: it    *)
(* iterates the default main context if it can acquire it, and otherwise   *)
(* blocks until the thread that owns the context signals the completion.   *)
(*                                                                         *)
(* A call is made while its caller runs application code: outside of the   *)
(* library, in a callback dispatched by the iteration of another call, or  *)
(* in a handler of state-changed.  So a thread has a stack of frames: the  *)
(* calls it waits in, and the completions it is about to signal.           *)
(*                                                                         *)
(* The mutex of a PkConnectionSync is held from its initialisation to the  *)
(* wait: `locked', and again by the waiter once it is `woken'.             *)
(***************************************************************************)
EXTENDS Integers, Sequences, SequencesExt

CONSTANTS
  Threads,   \* the threads of the application
  Main,      \* the one that may run the main loop
  NoThread,  \* stands for no owner of the main context
  MaxCalls   \* bound: how many synchronous calls are made

ASSUME ConnectionAssumption ==
  /\ Main \in Threads
  /\ NoThread \notin Threads
  /\ MaxCalls \in Nat

VARIABLES
  calls,  \* the synchronous calls, in the order they are made
  stack,  \* each thread's frames, the innermost last
  owner,  \* the thread that has acquired the default main context
  loop,   \* Main once it runs the main loop
  dbus,   \* whether priv->dbus is a connection
  state   \* priv->state of the PkConnectionDBus

cvars == <<calls, stack, owner, loop, dbus, state>>
-----------------------------------------------------------------------------
\* What a call is for: a message to the agent, the connection, or setting a
\* subscription's handlers.
Kinds   == {"rpc", "connect", "disconnect", "handlers"}
Ended   == {"returned", "abandoned"}
Locking == {"locked", "woken", "startled"}

Caller(c)    == [role |-> "caller", call |-> c]
Signaller(c) == [role |-> "signaller", call |-> c]

Busy(t, role) == stack[t] # <<>> /\ Last(stack[t]).role = role
Top(t)        == Last(stack[t]).call
At(t, p)      == Busy(t, "caller") /\ calls[Top(t)].pc = p

\* faulty: connect and disconnect complete at once too, not in idle
AllAtOnce == {"handlers", "connect", "disconnect"}
\* What completes inside of its asynchronous call, in the caller's own frame:
\* g_simple_async_result_complete and not _complete_in_idle.
AtOnce == {"handlers"}

\* The frames a call begins with.
Frames(c, kind) ==
  IF kind \in AtOnce THEN <<Caller(c), Signaller(c)>> ELSE <<Caller(c)>>

\* A thread iterates the context in a call of its own or in the main loop.
Iterating(t) ==
  owner = t /\ (At(t, "iterating") \/ (stack[t] = <<>> /\ loop = t))

InApplication(t) ==
  \/ stack[t] = <<>>
  \/ At(t, "iterating")
  \/ Busy(t, "signaller") /\ calls[Top(t)].kind \in {"connect", "disconnect"}

\* g_main_context_acquire and _release count the acquisitions of the owner.
AcquiresFree(t) == owner = NoThread     \* faulty: not from a nested call
Acquires(t) == owner \in {NoThread, t}
OwnsLoopOnly(t, frames) == loop = t     \* faulty: the inner call releases all
StillOwns(t, frames) ==
  \/ loop = t
  \/ \E f \in ToSet(frames) : f.role = "caller" /\ calls[f.call].pc = "iterating"

Init ==
  /\ calls = <<>>
  /\ stack = [t \in Threads |-> <<>>]
  /\ loop \in {NoThread, Main}
  /\ owner = loop
  /\ dbus = FALSE
  /\ state = "INITIAL"

\* What becomes of a call as it is sent: connect and disconnect complete in
\* idle; a message to no connection is refused and the call never completes.
Sent(kind) ==
  CASE kind \in AtOnce -> "delivered"
    [] kind = "rpc"     -> IF dbus THEN "awaited" ELSE "lost"
    [] OTHER            -> "arrived"

Call(t, kind) ==
  LET c == Len(calls) + 1 IN
  /\ c <= MaxCalls
  /\ InApplication(t)
  /\ calls' = Append(calls, [kind |-> kind, caller |-> t, pc |-> "locked",
                             reply |-> Sent(kind), completed |-> FALSE])
  /\ stack' = [stack EXCEPT ![t] = @ \o Frames(c, kind)]
  /\ UNCHANGED <<owner, loop, dbus, state>>

\* pk_connection_sync_wait, up to the iteration or the condition.
Settle(t) ==
  /\ At(t, "locked")
  /\ IF Acquires(t)
     THEN /\ calls' = [calls EXCEPT ![Top(t)].pc = "iterating"]
          /\ owner' = t
     ELSE /\ calls' = [calls EXCEPT ![Top(t)].pc = "waiting"]
          /\ UNCHANGED owner
  /\ UNCHANGED <<stack, loop, dbus, state>>

\* The agent's answer, an error, or the time-out of the pending call.
Arrive(c) ==
  /\ c \in DOMAIN calls
  /\ calls[c].reply = "awaited"
  /\ calls' = [calls EXCEPT ![c].reply = "arrived"]
  /\ UNCHANGED <<stack, owner, loop, dbus, state>>

\* pk_connection_dbus_connect_finish: no bus, no agent, or both found.
Connect ==
  IF state = "INITIAL"
  THEN /\ dbus' \in BOOLEAN
       /\ state' \in IF dbus' THEN {"INITIAL", "CONNECTED"} ELSE {"INITIAL"}
  ELSE UNCHANGED <<dbus, state>>

Disconnect ==
  /\ dbus' = FALSE
  /\ UNCHANGED state

\* The owner of the context dispatches a completion: the finish function,
\* and on to the signal.
Dispatch(t, c) ==
  /\ Iterating(t)
  /\ c \in DOMAIN calls
  /\ calls[c].reply = "arrived"
  /\ CASE calls[c].kind = "connect"    -> Connect
       [] calls[c].kind = "disconnect" -> Disconnect
       [] OTHER                        -> UNCHANGED <<dbus, state>>
  /\ calls' = [calls EXCEPT ![c].reply = "delivered"]
  /\ stack' = [stack EXCEPT ![t] = Append(@, Signaller(c))]
  /\ UNCHANGED <<owner, loop>>

NotLocked(c) == TRUE                    \* faulty: signals without the mutex
MutexFree(c) == calls[c].pc \notin Locking

\* pk_connection_sync_signal.  A waiter that has been startled has destroyed
\* what is signalled: what that does is left out.
Signal(t) ==
  /\ Busy(t, "signaller")
  /\ MutexFree(Top(t))
  /\ calls' = [calls EXCEPT ![Top(t)].completed = TRUE,
                            ![Top(t)].pc = IF @ = "waiting" THEN "woken" ELSE @]
  /\ stack' = [stack EXCEPT ![t] = Front(@)]
  /\ UNCHANGED <<owner, loop, dbus, state>>

\* The iterations end: release the context, destroy the PkConnectionSync.
Return(t) ==
  /\ At(t, "iterating")
  /\ calls[Top(t)].completed
  /\ calls' = [calls EXCEPT ![Top(t)].pc = "returned"]
  /\ stack' = [stack EXCEPT ![t] = Front(@)]
  /\ owner' = IF StillOwns(t, Front(stack[t])) THEN t ELSE NoThread
  /\ UNCHANGED <<loop, dbus, state>>

\* g_cond_wait is over: no predicate is looked at.
Wake(t) ==
  /\ \/ /\ At(t, "woken")
        /\ calls' = [calls EXCEPT ![Top(t)].pc = "returned"]
     \/ /\ At(t, "startled")
        /\ calls' = [calls EXCEPT ![Top(t)].pc = "abandoned"]
  /\ stack' = [stack EXCEPT ![t] = Front(@)]
  /\ UNCHANGED <<owner, loop, dbus, state>>

SpuriousWakeup(t) ==
  /\ At(t, "waiting")
  /\ calls' = [calls EXCEPT ![Top(t)].pc = "startled"]
  /\ UNCHANGED <<stack, owner, loop, dbus, state>>

\* g_main_loop_run: waits for the context to be released.
RunLoop ==
  /\ loop = NoThread
  /\ stack[Main] = <<>>
  /\ owner = NoThread
  /\ loop' = Main
  /\ owner' = Main
  /\ UNCHANGED <<calls, stack, dbus, state>>

Next ==
  \/ \E t \in Threads :
       \/ \E kind \in Kinds : Call(t, kind)
       \/ Settle(t)
       \/ \E c \in 1 .. MaxCalls : Dispatch(t, c)
       \/ Signal(t)
       \/ Return(t)
       \/ Wake(t)
       \/ SpuriousWakeup(t)
  \/ \E c \in 1 .. MaxCalls : Arrive(c)
  \/ RunLoop

Spec == Init /\ [][Next]_cvars

\* Threads run on, the owner of the context dispatches what is ready, a
\* pending call ends by its time-out, and an idle main thread runs its loop.
FairSpec ==
  /\ Spec
  /\ \A t \in Threads : /\ WF_cvars(Settle(t))
                        /\ WF_cvars(Signal(t))
                        /\ WF_cvars(Return(t))
                        /\ WF_cvars(Wake(t))
  /\ \A c \in 1 .. MaxCalls : /\ WF_cvars(Arrive(c))
                              /\ WF_cvars(\E t \in Threads : Dispatch(t, c))
  /\ WF_cvars(RunLoop)
-----------------------------------------------------------------------------
(***************************************************************************)
(* Properties.                                                             *)
(***************************************************************************)
\* The types of the variables; a frame is of a call that has been made.
TypeOK ==
  /\ calls \in Seq([kind : Kinds, caller : Threads,
                    pc : {"iterating", "waiting"} \cup Locking \cup Ended,
                    reply : {"awaited", "arrived", "delivered", "lost"},
                    completed : BOOLEAN])
  /\ Len(calls) <= MaxCalls
  /\ stack \in [Threads -> Seq([role : {"caller", "signaller"},
                                call : DOMAIN calls])]
  /\ owner \in Threads \cup {NoThread}
  /\ loop \in {NoThread, Main}
  /\ dbus \in BOOLEAN
  /\ state \in {"INITIAL", "CONNECTED"}

\* pk_connection_sync_wait: whoever iterates the main context owns it, also
\* after the calls nested in the iteration have released it.
IteratorOwnsContext ==
  \A c \in DOMAIN calls : calls[c].pc = "iterating" => owner = calls[c].caller

\* pk_connection_sync_signal: no caller blocks on its condition for a
\* completion that has been signalled before it waited.
NoLostSignal ==
  \A c \in DOMAIN calls : calls[c].pc = "waiting" => ~calls[c].completed

WaitsForItself(t) ==
  /\ Busy(t, "signaller")
  /\ calls[Top(t)].caller = t
  /\ calls[Top(t)].pc \in Locking

\* pk_connection_sync_init, _signal: the thread that signals a call waits for
\* the mutex of a call it is itself in the middle of if that call sets the
\* handlers of a subscription, and then always: nobody ever gives it back
\* (pk-connection-dbus.c:8997).  No other call does that to its caller,
\* however they nest.
OnlyHandlersWaitForThemselves ==
  \A t \in Threads :
    Busy(t, "signaller") =>
      (WaitsForItself(t) <=> calls[Top(t)].kind = "handlers")

Made(c)      == c \in DOMAIN calls
HasEnded(c)  == c \in DOMAIN calls /\ calls[c].pc \in Ended

\* Without a connection the message of a call is lost, and a call that sets
\* handlers waits for itself: neither comes back, nor does what is below it
\* in its thread's stack.  A main thread that waits for itself dispatches
\* nothing to the others either.
SetsHandlers(c)   == calls[c].kind = "handlers"
NeverComesBack(c) == calls[c].reply = "lost" \/ SetsHandlers(c)
HeldUp(c) ==
  \/ \E t \in Threads : \E above \in DOMAIN stack[t] :
       /\ NeverComesBack(stack[t][above].call)
       /\ \E below \in 1 .. above : stack[t][below].call = c
  \/ \E f \in ToSet(stack[Main]) : SetsHandlers(f.call)

\* pk_connection_sync_wait: while the main loop runs every synchronous call
\* comes back, however they nest, unless its frame is below one of a call
\* that is lost or sets handlers, or the main thread sets handlers.  So a
\* lost call holds up what it is nested in and nothing else, the main
\* thread's too: that one goes on to dispatch.
LoopServesCalls ==
  \A c \in 1 .. MaxCalls :
    Made(c) /\ loop = Main ~> HasEnded(c) \/ HeldUp(c)
=============================================================================
