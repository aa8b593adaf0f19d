-------------------------- MODULE PkConnectionProofs --------------------------
(***************************************************************************)
(* Proofs about PkConnection, for any threads and any number of calls:     *)
(* the types, who owns the main context, that no completion is lost, which *)
(* threads wait for themselves, and that no call returns too early.        *)
(***************************************************************************)
EXTENDS PkConnection, SequenceTheorems, TLAPS

-----------------------------------------------------------------------------
(* Frames and calls.                                                       *)

Pcs     == {"iterating", "waiting"} \cup Locking \cup Ended
Replies == {"awaited", "arrived", "delivered", "lost"}
CallRec == [kind : Kinds, caller : Threads, pc : Pcs, reply : Replies,
            completed : BOOLEAN]
Frame   == [role : {"caller", "signaller"}, call : Nat]

LEMMA PushFrame ==
  ASSUME NEW st \in Seq(Frame), NEW f \in Frame
  PROVE  /\ Append(st, f) \in Seq(Frame)
         /\ st \o <<f>> = Append(st, f)
         /\ Append(st, f) # <<>>
         /\ Last(Append(st, f)) = f
         /\ ToSet(Append(st, f)) = ToSet(st) \cup {f}
<1>1. /\ Append(st, f) \in Seq(Frame) /\ Append(st, f) # <<>>
      /\ Len(Append(st, f)) = Len(st) + 1
      /\ \A i \in 1 .. Len(st) : Append(st, f)[i] = st[i]
      /\ Append(st, f)[Len(st) + 1] = f
  BY AppendProperties
<1>2. st \o <<f>> = Append(st, f)
  BY AppendIsConcat
<1>3. DOMAIN st = 1 .. Len(st) /\ DOMAIN Append(st, f) = 1 .. Len(st) + 1
      /\ Len(st) \in Nat
  BY <1>1, LenProperties
<1>4. ToSet(Append(st, f)) = ToSet(st) \cup {f}
  BY <1>1, <1>3 DEF ToSet
<1> QED
  BY <1>1, <1>2, <1>4 DEF Last

LEMMA PopFrame ==
  ASSUME NEW st \in Seq(Frame), st # <<>>
  PROVE  /\ Front(st) \in Seq(Frame)
         /\ Last(st) \in Frame
         /\ ToSet(st) = ToSet(Front(st)) \cup {Last(st)}
<1>1. Len(st) \in Nat \ {0} /\ DOMAIN st = 1 .. Len(st)
      /\ \A i \in 1 .. Len(st) : st[i] \in Frame
  BY LenProperties, EmptySeq, ElementOfSeq
<1>2. /\ Front(st) \in Seq(Frame)
      /\ Len(Front(st)) = Len(st) - 1
      /\ \A i \in 1 .. Len(st) - 1 : Front(st)[i] = st[i]
  BY <1>1, SubSeqProperties DEF Front
<1>3. DOMAIN Front(st) = 1 .. Len(st) - 1
  BY <1>2, LenProperties
<1> QED
  BY <1>1, <1>2, <1>3 DEF Last, ToSet

LEMMA LastIsIn ==
  ASSUME NEW st \in Seq(Frame), st # <<>>
  PROVE  Last(st) \in Frame /\ Last(st) \in ToSet(st)
  BY PopFrame

\* What becomes of the calls when one of them is given a pc, and a value of
\* `completed', or has its reply come one further.
LEMMA ChangedCall ==
  ASSUME NEW cs \in Seq(CallRec), NEW c \in DOMAIN cs, NEW r \in CallRec,
         r.caller = cs[c].caller, r.kind = cs[c].kind
  PROVE  LET new == [cs EXCEPT ![c] = r] IN
         /\ new \in Seq(CallRec)
         /\ Len(new) = Len(cs) /\ DOMAIN new = DOMAIN cs
         /\ new[c] = r
         /\ \A d \in DOMAIN cs : d # c => new[d] = cs[d]
         /\ \A d \in DOMAIN cs : /\ new[d].caller = cs[d].caller
                                 /\ new[d].kind = cs[d].kind
  BY ExceptSeq, LenProperties

\* The last frame of those that a call begins with.
Innermost(c, kind) == IF kind = "handlers" THEN Signaller(c) ELSE Caller(c)

LEMMA PushFrames ==
  ASSUME NEW st \in Seq(Frame), NEW c \in Nat, NEW kind
  PROVE  LET new == st \o Frames(c, kind) IN
         /\ new \in Seq(Frame) /\ new # <<>>
         /\ Last(new) = Innermost(c, kind)
         /\ Caller(c) \in ToSet(new) /\ ToSet(st) \subseteq ToSet(new)
         /\ \A f \in ToSet(new) \ ToSet(st) : f \in {Caller(c), Signaller(c)}
<1>1. Caller(c) \in Frame /\ Signaller(c) \in Frame
  BY DEF Caller, Signaller, Frame
<1> DEFINE one == Append(st, Caller(c))
           two == Append(one, Signaller(c))
<1>2. /\ one \in Seq(Frame) /\ st \o <<Caller(c)>> = one /\ one # <<>>
      /\ Last(one) = Caller(c) /\ ToSet(one) = ToSet(st) \cup {Caller(c)}
  BY <1>1, PushFrame
<1> HIDE DEF one
<1>3. /\ two \in Seq(Frame) /\ one \o <<Signaller(c)>> = two /\ two # <<>>
      /\ Last(two) = Signaller(c)
      /\ ToSet(two) = ToSet(one) \cup {Signaller(c)}
  BY <1>1, <1>2, PushFrame
<1>4. st \o <<Caller(c), Signaller(c)>> = two
  <2>1. st \o <<Caller(c), Signaller(c)>>
          = (st \o <<Caller(c)>>) \o <<Signaller(c)>>
    BY <1>1
  <2> QED
    BY <2>1, <1>2, <1>3
<1> HIDE DEF two
<1>5. CASE kind = "handlers"
  BY <1>2, <1>3, <1>4, <1>5 DEF Frames, AtOnce, Innermost
<1>6. CASE kind # "handlers"
  BY <1>2, <1>6 DEF Frames, AtOnce, Innermost
<1> QED
  BY <1>5, <1>6

LEMMA NewCall ==
  ASSUME NEW cs \in Seq(CallRec), NEW r \in CallRec
  PROVE  LET new == Append(cs, r)
             c == Len(cs) + 1
         IN  /\ new \in Seq(CallRec)
             /\ c \notin DOMAIN cs /\ c \in Nat
             /\ DOMAIN new = DOMAIN cs \cup {c}
             /\ new[c] = r
             /\ \A d \in DOMAIN cs : new[d] = cs[d]
  BY AppendProperties, LenProperties

-----------------------------------------------------------------------------
(* The invariant.                                                          *)

Types ==
  /\ calls \in Seq(CallRec)
  /\ stack \in [Threads -> Seq(Frame)]
  /\ \A t \in Threads : \A f \in ToSet(stack[t]) :
       /\ f.call \in DOMAIN calls
       /\ f.role = "caller" \/ calls[f.call].kind = "handlers" =>
            calls[f.call].caller = t
  /\ owner \in Threads \cup {NoThread}
  /\ loop \in {NoThread, Main}

\* A caller that cannot go on by itself is what its thread is at, or is just
\* under the frame in which the thread is to signal it.
Blocked == Locking \cup {"waiting"}

BlockedIsOnTop ==
  \A c \in DOMAIN calls : calls[c].pc \in Blocked =>
    /\ stack[calls[c].caller] # <<>>
    /\ Last(stack[calls[c].caller]) = Innermost(c, calls[c].kind)

\* A call that sets handlers is completed in its own frame, where its mutex
\* is locked, and stays there.
HandlersStayLocked ==
  \A c \in DOMAIN calls : calls[c].kind = "handlers" =>
    calls[c].pc = "locked" /\ calls[c].reply = "delivered"

IteratesInFrame ==
  \A c \in DOMAIN calls : calls[c].pc = "iterating" =>
    Caller(c) \in ToSet(stack[calls[c].caller])

\* The mutex is held from the beginning of the call to the wait.
NotSignalledYet ==
  \A c \in DOMAIN calls :
    calls[c].pc \in {"locked", "waiting"} => ~calls[c].completed

\* Only g_cond_wait's own wakeups end a call that has not been completed.
ReturnsAreCompleted ==
  \A c \in DOMAIN calls :
    calls[c].pc \in {"woken", "returned"} => calls[c].completed

CallInv ==
  /\ Types
  /\ BlockedIsOnTop
  /\ HandlersStayLocked
  /\ IteratesInFrame
  /\ IteratorOwnsContext
  /\ NotSignalledYet
  /\ ReturnsAreCompleted

LEMMA InitInv == ConnectionAssumption /\ Init => CallInv
<1> SUFFICES ASSUME ConnectionAssumption, Init PROVE CallInv
  OBVIOUS
<1>1. calls = <<>> /\ DOMAIN calls = {} /\ calls \in Seq(CallRec)
  BY EmptySeq DEF Init
<1>2. \A t \in Threads : stack[t] = <<>> /\ ToSet(stack[t]) = {}
  BY DEF Init, ToSet
<1>3. stack \in [Threads -> Seq(Frame)]
  BY EmptySeq DEF Init
<1>4. Types
  BY <1>1, <1>2, <1>3 DEF Types, Init, ConnectionAssumption
<1> QED
  BY <1>1, <1>4 DEF CallInv, BlockedIsOnTop, HandlersStayLocked,
    IteratesInFrame, IteratorOwnsContext, NotSignalledYet, ReturnsAreCompleted

LEMMA ACall ==
  ASSUME CallInv, NEW c \in DOMAIN calls
  PROVE  calls[c] \in CallRec /\ calls[c].caller \in Threads
<1>1. calls \in Seq(CallRec)
  BY DEF CallInv, Types
<1>2. calls[c] \in CallRec
  BY <1>1, ElementOfSeq, LenProperties
<1> QED
  BY <1>2 DEF CallRec

LEMMA SetsNoHandlers ==
  ASSUME CallInv, NEW c \in DOMAIN calls,
         calls[c].pc # "locked" \/ calls[c].reply # "delivered"
  PROVE  calls[c].kind # "handlers"
  BY DEF CallInv, HandlersStayLocked

\* Where application code runs nothing of the thread is blocked.
LEMMA ApplicationIsNotBlocked ==
  ASSUME CallInv, NEW t \in Threads, InApplication(t), NEW c \in DOMAIN calls,
         calls[c].caller = t
  PROVE  calls[c].pc \notin Blocked
<1> SUFFICES ASSUME calls[c].pc \in Blocked PROVE FALSE
  OBVIOUS
<1>1. stack[t] # <<>> /\ Last(stack[t]) = Innermost(c, calls[c].kind)
  BY DEF CallInv, BlockedIsOnTop
<1>2. Last(stack[t]).call = c /\ Top(t) = c
  BY <1>1 DEF Innermost, Caller, Signaller, Top
<1>3. ~At(t, "iterating")
  BY <1>2 DEF At, Blocked, Locking
<1>4. CASE calls[c].kind = "handlers"
  <2>1. Last(stack[t]).role = "signaller"
    BY <1>1, <1>4 DEF Innermost, Signaller
  <2> QED
    BY <1>1, <1>2, <1>3, <1>4 DEF InApplication, Busy
<1>5. CASE calls[c].kind # "handlers"
  <2>1. Last(stack[t]).role = "caller"
    BY <1>1, <1>5 DEF Innermost, Caller
  <2> QED
    BY <1>1, <1>3, <2>1 DEF InApplication, Busy
<1> QED
  BY <1>4, <1>5

LEMMA CallKeepsInv ==
  ASSUME CallInv, NEW t \in Threads, NEW kind \in Kinds, Call(t, kind)
  PROVE  CallInv'
<1> DEFINE c == Len(calls) + 1
           r == [kind |-> kind, caller |-> t, pc |-> "locked",
                 reply |-> Sent(kind), completed |-> FALSE]
<1>1. /\ InApplication(t)
      /\ calls' = Append(calls, r)
      /\ stack' = [stack EXCEPT ![t] = @ \o Frames(c, kind)]
      /\ UNCHANGED <<owner, loop>>
  BY DEF Call
<1>2. r \in CallRec
  <2>1. Sent(kind) \in Replies
    BY DEF Sent, Replies, Kinds, AtOnce
  <2> QED
    BY <2>1 DEF CallRec, Pcs, Locking
<1>3. /\ calls' \in Seq(CallRec) /\ c \notin DOMAIN calls /\ c \in Nat
      /\ DOMAIN calls' = DOMAIN calls \cup {c}
      /\ calls'[c] = r
      /\ \A d \in DOMAIN calls : calls'[d] = calls[d]
  BY <1>1, <1>2, NewCall DEF CallInv, Types
<1>4. /\ Caller(c).call = c /\ Signaller(c).call = c
      /\ Innermost(c, kind) \in {Caller(c), Signaller(c)}
  BY DEF Caller, Signaller, Innermost
<1>5. stack \in [Threads -> Seq(Frame)]
  BY DEF CallInv, Types
<1>6. /\ stack'[t] \in Seq(Frame) /\ stack'[t] # <<>>
      /\ Last(stack'[t]) = Innermost(c, kind)
      /\ Caller(c) \in ToSet(stack'[t])
      /\ ToSet(stack[t]) \subseteq ToSet(stack'[t])
      /\ \A f \in ToSet(stack'[t]) \ ToSet(stack[t]) :
           f \in {Caller(c), Signaller(c)}
  BY <1>1, <1>3, <1>5, PushFrames
<1>7. \A u \in Threads : u # t => stack'[u] = stack[u]
  BY <1>1, <1>5
<1>8. stack' \in [Threads -> Seq(Frame)]
  BY <1>1, <1>5, <1>6
<1>9. /\ r.caller = t /\ r.pc = "locked" /\ r.completed = FALSE
      /\ r.kind = kind
      /\ kind = "handlers" => r.reply = "delivered"
  BY DEF Sent, AtOnce
<1> HIDE DEF c, r
<1>10. Types'
  <2>1. ASSUME NEW u \in Threads, NEW f \in ToSet(stack'[u])
        PROVE  /\ f.call \in DOMAIN calls'
               /\ f.role = "caller" \/ calls'[f.call].kind = "handlers" =>
                    calls'[f.call].caller = u
    <3>1. CASE f \in ToSet(stack[u])
      BY <1>3, <3>1 DEF CallInv, Types
    <3>2. CASE u = t /\ f \in {Caller(c), Signaller(c)}
      BY <1>3, <1>4, <1>9, <3>2
    <3> QED
      BY <2>1, <3>1, <3>2, <1>6, <1>7
  <2> QED
    BY <2>1, <1>1, <1>3, <1>8 DEF CallInv, Types
<1>11. BlockedIsOnTop'
  <2>1. ASSUME NEW d \in DOMAIN calls', calls'[d].pc \in Blocked
        PROVE  /\ stack'[calls'[d].caller] # <<>>
               /\ Last(stack'[calls'[d].caller]) = Innermost(d, calls'[d].kind)
    <3>1. CASE d = c
      BY <1>3, <1>6, <1>9, <3>1
    <3>2. CASE d \in DOMAIN calls
      <4>1. calls[d].pc \in Blocked /\ calls[d].caller # t
        BY <1>1, <1>3, <2>1, <3>2, ApplicationIsNotBlocked
      <4>2. calls[d].caller \in Threads
        BY <3>2, ACall
      <4> QED
        BY <1>3, <1>7, <3>2, <4>1, <4>2 DEF CallInv, BlockedIsOnTop
    <3> QED
      BY <1>3, <3>1, <3>2
  <2> QED
    BY <2>1 DEF BlockedIsOnTop, Blocked, Locking, Innermost, Caller, Signaller
<1>12. IteratesInFrame'
  <2>1. ASSUME NEW d \in DOMAIN calls', calls'[d].pc = "iterating"
        PROVE  Caller(d) \in ToSet(stack'[calls'[d].caller])
    <3>1. d \in DOMAIN calls /\ calls'[d] = calls[d]
      BY <1>3, <1>9, <2>1
    <3>2. calls[d].caller \in Threads
      BY <3>1, ACall
    <3> QED
      BY <1>6, <1>7, <2>1, <3>1, <3>2 DEF CallInv, IteratesInFrame
  <2> QED
    BY <2>1 DEF IteratesInFrame, Caller
<1>13. IteratorOwnsContext' /\ NotSignalledYet' /\ ReturnsAreCompleted'
  BY <1>1, <1>3, <1>9
     DEF CallInv, IteratorOwnsContext, NotSignalledYet, ReturnsAreCompleted
<1>14. HandlersStayLocked'
  BY <1>3, <1>9 DEF CallInv, HandlersStayLocked
<1> QED
  BY <1>10, <1>11, <1>12, <1>13, <1>14 DEF CallInv

\* A step that changes one call and no stack.
LEMMA StacksStay ==
  ASSUME CallInv, NEW c \in DOMAIN calls, NEW r \in CallRec,
         r.caller = calls[c].caller, r.kind = calls[c].kind,
         calls[c].kind # "handlers", calls' = [calls EXCEPT ![c] = r],
         UNCHANGED <<stack, loop>>, owner' \in Threads \cup {NoThread},
         r.pc \in Blocked => calls[c].pc \in Blocked,
         r.pc = "iterating" => calls[c].pc = "iterating" \/ calls[c].pc \in Blocked
  PROVE  Types' /\ BlockedIsOnTop' /\ HandlersStayLocked' /\ IteratesInFrame'
<1>1. /\ calls' \in Seq(CallRec) /\ DOMAIN calls' = DOMAIN calls
      /\ calls'[c] = r
      /\ \A d \in DOMAIN calls : d # c => calls'[d] = calls[d]
      /\ \A d \in DOMAIN calls : /\ calls'[d].caller = calls[d].caller
                                 /\ calls'[d].kind = calls[d].kind
  BY ChangedCall DEF CallInv, Types
<1>2. Types'
  BY <1>1 DEF CallInv, Types
<1>3. BlockedIsOnTop'
  BY <1>1 DEF CallInv, BlockedIsOnTop, Blocked, Locking, Innermost, Caller,
     Signaller
<1>4. IteratesInFrame'
  <2>1. ASSUME NEW d \in DOMAIN calls, calls'[d].pc = "iterating"
        PROVE  Caller(d) \in ToSet(stack[calls[d].caller])
    <3>1. CASE calls[d].pc = "iterating"
      BY <3>1 DEF CallInv, IteratesInFrame
    <3>2. CASE calls[d].pc # "iterating"
      <4>0. d = c /\ calls[d].pc \in Blocked
        BY <1>1, <2>1, <3>2
      <4>1. /\ stack[calls[d].caller] # <<>>
            /\ Last(stack[calls[d].caller]) = Caller(d)
        BY <4>0 DEF CallInv, BlockedIsOnTop, Innermost
      <4>2. stack[calls[d].caller] \in Seq(Frame)
        BY ACall DEF CallInv, Types
      <4> QED
        BY <4>1, <4>2, LastIsIn
    <3> QED
      BY <1>1, <2>1, <3>1, <3>2
  <2> QED
    BY <1>1, <2>1 DEF IteratesInFrame, Caller
<1>5. HandlersStayLocked'
  BY <1>1 DEF CallInv, HandlersStayLocked
<1> QED
  BY <1>2, <1>3, <1>4, <1>5

LEMMA SettleKeepsInv ==
  ASSUME ConnectionAssumption, CallInv, NEW t \in Threads, Settle(t)
  PROVE  CallInv'
<1> DEFINE c == Top(t)
<1>1. stack[t] \in Seq(Frame) /\ stack[t] # <<>>
      /\ Last(stack[t]).role = "caller" /\ calls[c].pc = "locked"
  BY DEF Settle, At, Busy, CallInv, Types
<1>2. /\ Last(stack[t]) \in ToSet(stack[t]) /\ Last(stack[t]) \in Frame
  BY <1>1, LastIsIn
<1>3. c \in DOMAIN calls /\ calls[c].caller = t
  BY <1>1, <1>2 DEF CallInv, Types, Top
<1>4. calls[c] \in CallRec
  BY <1>3, ACall
<1>5. ~calls[c].completed /\ calls[c].kind # "handlers"
  <2>1. Last(stack[t]) = Innermost(c, calls[c].kind)
    BY <1>1, <1>3 DEF CallInv, BlockedIsOnTop, Blocked, Locking
  <2> QED
    BY <2>1, <1>1, <1>3 DEF CallInv, NotSignalledYet, Innermost, Signaller
<1>6. \A d \in DOMAIN calls : calls[d].pc = "iterating" => owner = calls[d].caller
  BY DEF CallInv, IteratorOwnsContext
<1>7. CASE Acquires(t)
  <2> DEFINE r == [calls[c] EXCEPT !.pc = "iterating"]
  <2>1. calls' = [calls EXCEPT ![c] = r] /\ owner' = t /\ UNCHANGED <<stack, loop>>
    BY <1>7 DEF Settle
  <2>2. /\ r \in CallRec /\ r.caller = t /\ r.pc = "iterating"
        /\ r.kind = calls[c].kind
        /\ r.completed = calls[c].completed
    BY <1>3, <1>4 DEF CallRec, Pcs
  <2> HIDE DEF r
  <2>3. Types' /\ BlockedIsOnTop' /\ HandlersStayLocked' /\ IteratesInFrame'
    BY <2>1, <2>2, <1>1, <1>3, <1>5, StacksStay DEF Blocked, Locking
  <2>4. /\ DOMAIN calls' = DOMAIN calls /\ calls'[c] = r
        /\ \A d \in DOMAIN calls : d # c => calls'[d] = calls[d]
    BY <2>1, <2>2, <1>3, ChangedCall DEF CallInv, Types
  <2>5. IteratorOwnsContext'
    <3>1. ASSUME NEW d \in DOMAIN calls, d # c, calls[d].pc = "iterating"
          PROVE  calls[d].caller = t
      <4>1. calls[d].caller \in Threads /\ owner = calls[d].caller
        BY <3>1, <1>6, ACall
      <4> QED
        BY <4>1, <1>7 DEF Acquires, ConnectionAssumption
    <3> QED
      BY <2>1, <2>2, <2>4, <3>1 DEF IteratorOwnsContext
  <2> QED
    BY <2>2, <2>3, <2>4, <2>5
       DEF CallInv, NotSignalledYet, ReturnsAreCompleted
<1>8. CASE ~Acquires(t)
  <2> DEFINE r == [calls[c] EXCEPT !.pc = "waiting"]
  <2>1. calls' = [calls EXCEPT ![c] = r] /\ UNCHANGED <<owner, stack, loop>>
    BY <1>8 DEF Settle
  <2>2. /\ r \in CallRec /\ r.caller = t /\ r.pc = "waiting"
        /\ r.kind = calls[c].kind
        /\ r.completed = calls[c].completed
    BY <1>3, <1>4 DEF CallRec, Pcs
  <2> HIDE DEF r
  <2>3. Types' /\ BlockedIsOnTop' /\ HandlersStayLocked' /\ IteratesInFrame'
    BY <2>1, <2>2, <1>1, <1>3, <1>5, StacksStay
       DEF Blocked, Locking, CallInv, Types
  <2>4. /\ DOMAIN calls' = DOMAIN calls /\ calls'[c] = r
        /\ \A d \in DOMAIN calls : d # c => calls'[d] = calls[d]
    BY <2>1, <2>2, <1>3, ChangedCall DEF CallInv, Types
  <2> QED
    BY <2>1, <2>2, <2>3, <2>4, <1>5
       DEF CallInv, IteratorOwnsContext, NotSignalledYet, ReturnsAreCompleted
<1> QED
  BY <1>7, <1>8

LEMMA ArriveKeepsInv ==
  ASSUME CallInv, NEW c \in 1 .. MaxCalls, Arrive(c)
  PROVE  CallInv'
<1> DEFINE r == [calls[c] EXCEPT !.reply = "arrived"]
<1>1. /\ c \in DOMAIN calls /\ calls' = [calls EXCEPT ![c] = r]
      /\ UNCHANGED <<owner, stack, loop>>
  BY DEF Arrive
<1>2. calls[c] \in CallRec
  BY <1>1, ACall
<1>3. /\ r \in CallRec /\ r.caller = calls[c].caller /\ r.pc = calls[c].pc
      /\ r.completed = calls[c].completed /\ r.kind = calls[c].kind
      /\ calls[c].kind # "handlers"
  BY <1>1, <1>2, SetsNoHandlers DEF CallRec, Replies, Arrive
<1> HIDE DEF r
<1>4. Types' /\ BlockedIsOnTop' /\ HandlersStayLocked' /\ IteratesInFrame'
  BY <1>1, <1>3, StacksStay DEF CallInv, Types
<1>5. /\ DOMAIN calls' = DOMAIN calls /\ calls'[c] = r
      /\ \A d \in DOMAIN calls : d # c => calls'[d] = calls[d]
  BY <1>1, <1>3, ChangedCall DEF CallInv, Types
<1> QED
  BY <1>1, <1>3, <1>4, <1>5
     DEF CallInv, IteratorOwnsContext, NotSignalledYet, ReturnsAreCompleted

LEMMA SpuriousWakeupKeepsInv ==
  ASSUME CallInv, NEW t \in Threads, SpuriousWakeup(t)
  PROVE  CallInv'
<1> DEFINE c == Top(t)
           r == [calls[c] EXCEPT !.pc = "startled"]
<1>1. stack[t] \in Seq(Frame) /\ stack[t] # <<>> /\ calls[c].pc = "waiting"
  BY DEF SpuriousWakeup, At, Busy, CallInv, Types
<1>2. c \in DOMAIN calls
  BY <1>1, LastIsIn DEF CallInv, Types, Top
<1>3. calls' = [calls EXCEPT ![c] = r] /\ UNCHANGED <<owner, stack, loop>>
  BY DEF SpuriousWakeup
<1>4. calls[c] \in CallRec
  BY <1>2, ACall
<1>5. /\ r \in CallRec /\ r.caller = calls[c].caller /\ r.pc = "startled"
      /\ r.kind = calls[c].kind /\ calls[c].kind # "handlers"
  BY <1>1, <1>2, <1>4, SetsNoHandlers DEF CallRec, Pcs, Locking
<1> HIDE DEF r, c
<1>6. Types' /\ BlockedIsOnTop' /\ HandlersStayLocked' /\ IteratesInFrame'
  BY <1>1, <1>2, <1>3, <1>5, StacksStay DEF Blocked, Locking, CallInv, Types
<1>7. /\ DOMAIN calls' = DOMAIN calls /\ calls'[c] = r
      /\ \A d \in DOMAIN calls : d # c => calls'[d] = calls[d]
  BY <1>2, <1>3, <1>5, ChangedCall DEF CallInv, Types
<1> QED
  BY <1>3, <1>5, <1>6, <1>7
     DEF CallInv, IteratorOwnsContext, NotSignalledYet, ReturnsAreCompleted

\* A step that changes one call and takes the innermost frame off a stack.
LEMMA FramePopped ==
  ASSUME CallInv, NEW t \in Threads, stack[t] # <<>>,
         NEW c \in DOMAIN calls, c = Top(t), NEW r \in CallRec,
         r.caller = calls[c].caller, r.kind = calls[c].kind,
         calls[c].kind # "handlers", calls' = [calls EXCEPT ![c] = r],
         stack' = [stack EXCEPT ![t] = Front(@)],
         UNCHANGED loop, owner' \in Threads \cup {NoThread},
         Last(stack[t]).role = "signaller" \/ Last(stack[t]) = Caller(c),
         r.pc \in Blocked => calls[c].pc \in Blocked /\ calls[c].caller # t,
         r.pc = "iterating" => /\ calls[c].pc = "iterating"
                               /\ Last(stack[t]).role = "signaller"
  PROVE  Types' /\ BlockedIsOnTop' /\ HandlersStayLocked' /\ IteratesInFrame'
<1>1. /\ calls' \in Seq(CallRec) /\ DOMAIN calls' = DOMAIN calls
      /\ calls'[c] = r
      /\ \A d \in DOMAIN calls : d # c => calls'[d] = calls[d]
      /\ \A d \in DOMAIN calls : /\ calls'[d].caller = calls[d].caller
                                 /\ calls'[d].kind = calls[d].kind
  BY ChangedCall DEF CallInv, Types
<1>2. stack \in [Threads -> Seq(Frame)]
  BY DEF CallInv, Types
<1>3. /\ stack'[t] \in Seq(Frame)
      /\ ToSet(stack[t]) = ToSet(stack'[t]) \cup {Last(stack[t])}
  BY <1>2, PopFrame
<1>4. \A u \in Threads : u # t => stack'[u] = stack[u]
  BY <1>2
<1>5. stack' \in [Threads -> Seq(Frame)]
  BY <1>2, <1>3
<1>6. Types'
  <2>1. ASSUME NEW u \in Threads, NEW f \in ToSet(stack'[u])
        PROVE  /\ f.call \in DOMAIN calls'
               /\ f.role = "caller" \/ calls'[f.call].kind = "handlers" =>
                    calls'[f.call].caller = u
    <3>1. f \in ToSet(stack[u])
      BY <1>3, <1>4
    <3> QED
      BY <1>1, <3>1 DEF CallInv, Types
  <2> QED
    BY <2>1, <1>1, <1>5 DEF CallInv, Types
<1>7. BlockedIsOnTop'
  <2>1. ASSUME NEW d \in DOMAIN calls, calls'[d].pc \in Blocked
        PROVE  /\ stack'[calls[d].caller] # <<>>
               /\ Last(stack'[calls[d].caller]) = Innermost(d, calls[d].kind)
    <3>1. calls[d].pc \in Blocked
      BY <1>1, <2>1
    <3>2. /\ stack[calls[d].caller] # <<>>
          /\ Last(stack[calls[d].caller]) = Innermost(d, calls[d].kind)
      BY <3>1 DEF CallInv, BlockedIsOnTop
    <3>3. calls[d].caller # t
      <4> SUFFICES ASSUME calls[d].caller = t PROVE FALSE
        OBVIOUS
      <4>1. Last(stack[t]).call = d
        BY <3>2 DEF Innermost, Caller, Signaller
      <4>2. d = c
        BY <4>1 DEF Top
      <4> QED
        BY <1>1, <2>1, <4>2
    <3>4. calls[d].caller \in Threads
      BY ACall
    <3> QED
      BY <1>4, <3>2, <3>3, <3>4
  <2> QED
    BY <1>1, <2>1
       DEF BlockedIsOnTop, Blocked, Locking, Innermost, Caller, Signaller
<1>8. IteratesInFrame'
  <2>1. ASSUME NEW d \in DOMAIN calls, calls'[d].pc = "iterating"
        PROVE  Caller(d) \in ToSet(stack'[calls[d].caller])
    <3>1. calls[d].pc = "iterating"
      BY <1>1, <2>1
    <3>2. Caller(d) \in ToSet(stack[calls[d].caller])
      BY <3>1 DEF CallInv, IteratesInFrame
    <3>3. Caller(d) # Last(stack[t])
      BY <1>1, <2>1 DEF Caller
    <3>4. calls[d].caller \in Threads
      BY ACall
    <3> QED
      BY <1>3, <1>4, <3>2, <3>3, <3>4
  <2> QED
    BY <1>1, <2>1 DEF IteratesInFrame, Caller
<1>9. HandlersStayLocked'
  BY <1>1 DEF CallInv, HandlersStayLocked
<1> QED
  BY <1>6, <1>7, <1>8, <1>9

\* The frame a thread is at, and its call.
LEMMA TopFrame ==
  ASSUME CallInv, NEW t \in Threads, stack[t] # <<>>
  PROVE  /\ Top(t) \in DOMAIN calls /\ calls[Top(t)] \in CallRec
         /\ Last(stack[t]).role = "caller" =>
              /\ calls[Top(t)].caller = t
              /\ Last(stack[t]) = Caller(Top(t))
<1>1. stack[t] \in Seq(Frame)
  BY DEF CallInv, Types
<1>2. Last(stack[t]) \in Frame /\ Last(stack[t]) \in ToSet(stack[t])
  BY <1>1, LastIsIn
<1>3. Top(t) \in DOMAIN calls
  BY <1>2 DEF CallInv, Types, Top
<1> QED
  BY <1>2, <1>3, ACall DEF CallInv, Types, Top, Frame, Caller

LEMMA SignalKeepsInv ==
  ASSUME CallInv, NEW t \in Threads, Signal(t)
  PROVE  CallInv'
<1> DEFINE c == Top(t)
           r == [calls[c] EXCEPT !.completed = TRUE,
                                 !.pc = IF @ = "waiting" THEN "woken" ELSE @]
<1>1. /\ stack[t] # <<>> /\ Last(stack[t]).role = "signaller"
      /\ calls[c].pc \notin Locking
  BY DEF Signal, Busy, MutexFree
<1>2. c \in DOMAIN calls /\ calls[c] \in CallRec
  BY <1>1, TopFrame
<1>3. /\ calls' = [calls EXCEPT ![c] = r]
      /\ stack' = [stack EXCEPT ![t] = Front(@)] /\ UNCHANGED <<owner, loop>>
  BY DEF Signal
<1>4. /\ r \in CallRec /\ r.caller = calls[c].caller /\ r.completed = TRUE
      /\ r.pc = IF calls[c].pc = "waiting" THEN "woken" ELSE calls[c].pc
      /\ r.kind = calls[c].kind
  BY <1>2 DEF CallRec, Pcs, Locking
<1>11. calls[c].kind # "handlers" /\ c = Top(t)
  BY <1>1, <1>2, SetsNoHandlers DEF Locking
<1> HIDE DEF r, c
<1>5. calls[c].pc \in Blocked => calls[c].caller # t
  <2> SUFFICES ASSUME calls[c].pc \in Blocked, calls[c].caller = t PROVE FALSE
    OBVIOUS
  <2>1. Last(stack[t]) = Caller(c)
    BY <1>2, <1>11 DEF CallInv, BlockedIsOnTop, Innermost
  <2> QED
    BY <1>1, <2>1 DEF Caller
<1>6. r.pc \in Blocked => calls[c].pc \in Blocked
  BY <1>1, <1>4 DEF Blocked
<1>7. r.pc = "iterating" => calls[c].pc = "iterating"
  BY <1>4
<1>8. Types' /\ BlockedIsOnTop' /\ HandlersStayLocked' /\ IteratesInFrame'
  BY <1>1, <1>2, <1>3, <1>4, <1>5, <1>6, <1>7, <1>11, FramePopped
     DEF CallInv, Types
<1>9. /\ DOMAIN calls' = DOMAIN calls /\ calls'[c] = r
      /\ \A d \in DOMAIN calls : d # c => calls'[d] = calls[d]
  BY <1>2, <1>3, <1>4, ChangedCall DEF CallInv, Types
<1>10. r.pc \notin {"locked", "waiting"}
  BY <1>1, <1>4 DEF Locking
<1> QED
  BY <1>2, <1>3, <1>4, <1>7, <1>8, <1>9, <1>10
     DEF CallInv, IteratorOwnsContext, NotSignalledYet, ReturnsAreCompleted

LEMMA ReturnKeepsInv ==
  ASSUME CallInv, NEW t \in Threads, Return(t)
  PROVE  CallInv'
<1> DEFINE c == Top(t)
           r == [calls[c] EXCEPT !.pc = "returned"]
           still == StillOwns(t, Front(stack[t]))
<1>1. /\ stack[t] # <<>> /\ Last(stack[t]).role = "caller"
      /\ calls[c].pc = "iterating" /\ calls[c].completed
  BY DEF Return, At, Busy
<1>2. /\ c \in DOMAIN calls /\ calls[c] \in CallRec /\ calls[c].caller = t
      /\ Last(stack[t]) = Caller(c)
  BY <1>1, TopFrame
<1>3. /\ calls' = [calls EXCEPT ![c] = r]
      /\ stack' = [stack EXCEPT ![t] = Front(@)] /\ UNCHANGED loop
      /\ owner' = IF still THEN t ELSE NoThread
  BY DEF Return
<1>4. /\ r \in CallRec /\ r.caller = calls[c].caller /\ r.pc = "returned"
      /\ r.completed /\ r.kind = calls[c].kind
  BY <1>1, <1>2 DEF CallRec, Pcs, Ended
<1>9. calls[c].kind # "handlers" /\ c = Top(t)
  BY <1>1, <1>2, SetsNoHandlers
<1> HIDE DEF r, c
<1>5. owner' \in Threads \cup {NoThread}
  BY <1>3
<1>6. Types' /\ BlockedIsOnTop' /\ HandlersStayLocked' /\ IteratesInFrame'
  BY <1>1, <1>2, <1>3, <1>4, <1>5, <1>9, FramePopped DEF Blocked, Locking
<1>7. /\ DOMAIN calls' = DOMAIN calls /\ calls'[c] = r
      /\ \A d \in DOMAIN calls : d # c => calls'[d] = calls[d]
  BY <1>2, <1>3, <1>4, ChangedCall DEF CallInv, Types
<1>8. IteratorOwnsContext'
  <2>1. ASSUME NEW d \in DOMAIN calls, d # c, calls[d].pc = "iterating"
        PROVE  calls[d].caller = owner'
    <3>1. owner = calls[d].caller /\ owner = t
      BY <2>1, <1>1, <1>2 DEF CallInv, IteratorOwnsContext
    <3>2. Caller(d) \in ToSet(stack[t])
      BY <2>1, <3>1 DEF CallInv, IteratesInFrame
    <3>3. Caller(d) # Last(stack[t])
      BY <1>2, <2>1 DEF Caller
    <3>4. stack[t] \in Seq(Frame)
      BY DEF CallInv, Types
    <3>5. Caller(d) \in ToSet(Front(stack[t]))
      BY <1>1, <3>2, <3>3, <3>4, PopFrame
    <3>6. still
      BY <2>1, <3>5 DEF StillOwns, Caller
    <3> QED
      BY <1>3, <3>1, <3>6
  <2> QED
    BY <1>4, <1>7, <2>1 DEF IteratorOwnsContext
<1> QED
  BY <1>4, <1>6, <1>7, <1>8
     DEF CallInv, NotSignalledYet, ReturnsAreCompleted

LEMMA WakeKeepsInv ==
  ASSUME CallInv, NEW t \in Threads, Wake(t)
  PROVE  CallInv'
<1> DEFINE c == Top(t)
<1>1. /\ stack[t] # <<>> /\ Last(stack[t]).role = "caller"
      /\ calls[c].pc \in {"woken", "startled"}
  BY DEF Wake, At, Busy
<1>2. /\ c \in DOMAIN calls /\ calls[c] \in CallRec /\ calls[c].caller = t
      /\ Last(stack[t]) = Caller(c)
  BY <1>1, TopFrame
<1>3. PICK p \in Ended :
        /\ calls' = [calls EXCEPT ![c] = [calls[c] EXCEPT !.pc = p]]
        /\ p = "returned" => calls[c].pc = "woken"
  BY DEF Wake, At, Ended
<1> DEFINE r == [calls[c] EXCEPT !.pc = p]
<1>4. stack' = [stack EXCEPT ![t] = Front(@)] /\ UNCHANGED <<owner, loop>>
  BY DEF Wake
<1>5. /\ r \in CallRec /\ r.caller = calls[c].caller /\ r.pc = p
      /\ r.completed = calls[c].completed /\ calls' = [calls EXCEPT ![c] = r]
      /\ r.kind = calls[c].kind
  BY <1>2, <1>3 DEF CallRec, Pcs
<1>11. calls[c].kind # "handlers" /\ c = Top(t)
  BY <1>1, <1>2, SetsNoHandlers
<1> HIDE DEF r, c
<1>6. r.pc \notin Blocked /\ r.pc \notin {"iterating", "woken"}
  BY <1>5 DEF Ended, Blocked, Locking
<1>7. Types' /\ BlockedIsOnTop' /\ HandlersStayLocked' /\ IteratesInFrame'
  BY <1>1, <1>2, <1>4, <1>5, <1>6, <1>11, FramePopped DEF CallInv, Types
<1>8. /\ DOMAIN calls' = DOMAIN calls /\ calls'[c] = r
      /\ \A d \in DOMAIN calls : d # c => calls'[d] = calls[d]
  BY <1>2, <1>5, ChangedCall DEF CallInv, Types
<1>9. r.pc \in {"locked", "waiting"} => FALSE
  BY <1>6 DEF Blocked, Locking
<1>10. r.pc \in {"woken", "returned"} => r.completed
  BY <1>2, <1>3, <1>5, <1>6 DEF CallInv, ReturnsAreCompleted
<1> QED
  BY <1>4, <1>5, <1>6, <1>7, <1>8, <1>9, <1>10
     DEF CallInv, IteratorOwnsContext, NotSignalledYet, ReturnsAreCompleted

LEMMA DispatchKeepsInv ==
  ASSUME CallInv, NEW t \in Threads, NEW c \in 1 .. MaxCalls, Dispatch(t, c)
  PROVE  CallInv'
<1> DEFINE r == [calls[c] EXCEPT !.reply = "delivered"]
<1>1. /\ InApplication(t) /\ c \in DOMAIN calls
      /\ calls' = [calls EXCEPT ![c] = r]
      /\ stack' = [stack EXCEPT ![t] = Append(@, Signaller(c))]
      /\ UNCHANGED <<owner, loop>>
  BY DEF Dispatch, Iterating, InApplication
<1>2. calls[c] \in CallRec
  BY <1>1, ACall
<1>3. /\ r \in CallRec /\ r.caller = calls[c].caller /\ r.pc = calls[c].pc
      /\ r.completed = calls[c].completed /\ r.kind = calls[c].kind
      /\ calls[c].kind # "handlers"
  BY <1>1, <1>2, SetsNoHandlers DEF CallRec, Replies, Dispatch
<1> HIDE DEF r
<1>4. /\ calls' \in Seq(CallRec) /\ DOMAIN calls' = DOMAIN calls
      /\ calls'[c] = r
      /\ \A d \in DOMAIN calls : d # c => calls'[d] = calls[d]
      /\ \A d \in DOMAIN calls : /\ calls'[d].caller = calls[d].caller
                                 /\ calls'[d].kind = calls[d].kind
  BY <1>1, <1>3, ChangedCall DEF CallInv, Types
<1>5. \A d \in DOMAIN calls : /\ calls'[d].pc = calls[d].pc
                              /\ calls'[d].completed = calls[d].completed
  BY <1>3, <1>4
<1>6. stack \in [Threads -> Seq(Frame)]
  BY DEF CallInv, Types
<1>7. Signaller(c) \in Frame /\ Signaller(c).role = "signaller" /\ Signaller(c).call = c
  BY DEF Signaller, Frame
<1>8. /\ stack'[t] \in Seq(Frame)
      /\ ToSet(stack'[t]) = ToSet(stack[t]) \cup {Signaller(c)}
  BY <1>1, <1>6, <1>7, PushFrame
<1>9. \A u \in Threads : u # t => stack'[u] = stack[u]
  BY <1>1, <1>6
<1>10. stack' \in [Threads -> Seq(Frame)]
  BY <1>1, <1>6, <1>8
<1>11. Types'
  <2>1. ASSUME NEW u \in Threads, NEW f \in ToSet(stack'[u])
        PROVE  /\ f.call \in DOMAIN calls'
               /\ f.role = "caller" \/ calls'[f.call].kind = "handlers" =>
                    calls'[f.call].caller = u
    <3>1. CASE f \in ToSet(stack[u])
      BY <1>4, <3>1 DEF CallInv, Types
    <3>2. CASE f = Signaller(c)
      BY <1>1, <1>3, <1>4, <1>7, <3>2
    <3> QED
      BY <2>1, <3>1, <3>2, <1>8, <1>9
  <2> QED
    BY <2>1, <1>1, <1>4, <1>10 DEF CallInv, Types
<1>12. BlockedIsOnTop'
  <2>1. ASSUME NEW d \in DOMAIN calls, calls'[d].pc \in Blocked
        PROVE  /\ stack'[calls[d].caller] # <<>>
               /\ Last(stack'[calls[d].caller]) = Innermost(d, calls[d].kind)
    <3>1. calls[d].pc \in Blocked /\ calls[d].caller # t
      BY <1>1, <1>5, <2>1, ApplicationIsNotBlocked
    <3>2. calls[d].caller \in Threads
      BY ACall
    <3> QED
      BY <1>9, <3>1, <3>2 DEF CallInv, BlockedIsOnTop
  <2> QED
    BY <1>4, <1>5, <2>1
       DEF BlockedIsOnTop, Blocked, Locking, Innermost, Caller, Signaller
<1>13. IteratesInFrame'
  <2>1. ASSUME NEW d \in DOMAIN calls, calls'[d].pc = "iterating"
        PROVE  Caller(d) \in ToSet(stack'[calls[d].caller])
    <3>1. Caller(d) \in ToSet(stack[calls[d].caller]) /\ calls[d].caller \in Threads
      BY <1>5, <2>1, ACall DEF CallInv, IteratesInFrame
    <3> QED
      BY <1>8, <1>9, <3>1
  <2> QED
    BY <1>4, <2>1 DEF IteratesInFrame, Caller
<1>14. HandlersStayLocked'
  BY <1>3, <1>4, <1>5 DEF CallInv, HandlersStayLocked
<1> QED
  BY <1>1, <1>4, <1>5, <1>11, <1>12, <1>13, <1>14
     DEF CallInv, IteratorOwnsContext, NotSignalledYet, ReturnsAreCompleted

LEMMA RunLoopKeepsInv ==
  ASSUME ConnectionAssumption, CallInv, RunLoop
  PROVE  CallInv'
<1>1. UNCHANGED <<calls, stack>> /\ owner = NoThread /\ owner' = Main /\ loop' = Main
  BY DEF RunLoop
<1>2. \A c \in DOMAIN calls : calls[c].pc # "iterating"
  BY <1>1, ACall DEF CallInv, IteratorOwnsContext, ConnectionAssumption
<1>3. Types'
  BY <1>1 DEF CallInv, Types, ConnectionAssumption
<1> QED
  BY <1>1, <1>2, <1>3
     DEF CallInv, BlockedIsOnTop, HandlersStayLocked, IteratesInFrame,
         IteratorOwnsContext, NotSignalledYet, ReturnsAreCompleted, Blocked,
         Locking, Innermost, Caller, Signaller

LEMMA NextKeepsInv ==
  ConnectionAssumption /\ CallInv /\ [Next]_cvars => CallInv'
<1> SUFFICES ASSUME ConnectionAssumption, CallInv, [Next]_cvars PROVE CallInv'
  OBVIOUS
<1>1. CASE UNCHANGED cvars
  BY <1>1
     DEF cvars, CallInv, Types, BlockedIsOnTop, HandlersStayLocked,
         IteratesInFrame, IteratorOwnsContext, NotSignalledYet,
         ReturnsAreCompleted, Blocked, Locking, Innermost, Caller, Signaller
<1>2. CASE Next
  BY <1>2, CallKeepsInv, SettleKeepsInv, ArriveKeepsInv, DispatchKeepsInv,
     SignalKeepsInv, ReturnKeepsInv, WakeKeepsInv, SpuriousWakeupKeepsInv,
     RunLoopKeepsInv DEF Next
<1> QED
  BY <1>1, <1>2

-----------------------------------------------------------------------------
(* The theorems.                                                           *)

\* The invariant of pk_connection_sync_wait and _signal holds whatever threads
\* make whatever number of calls, in whatever nesting.
THEOREM CallInvariant == Spec => []CallInv
<1>1. Init => CallInv
  BY InitInv, ConnectionAssumption
<1>2. CallInv /\ [Next]_cvars => CallInv'
  BY NextKeepsInv, ConnectionAssumption
<1> QED
  BY <1>1, <1>2, PTL DEF Spec

\* Whoever iterates the main context owns it, also after the calls nested in
\* the iteration have released it.
THEOREM OneIterator == Spec => []IteratorOwnsContext
<1>1. CallInv => IteratorOwnsContext
  BY DEF CallInv
<1> QED
  BY <1>1, CallInvariant, PTL

\* No caller comes to block for a completion that has been signalled: the
\* mutex is held from before the call is sent until the wait.
THEOREM CompletionsAreKept == Spec => []NoLostSignal
<1>1. CallInv => NoLostSignal
  BY DEF CallInv, NotSignalledYet, NoLostSignal
<1> QED
  BY <1>1, CallInvariant, PTL

\* Of all calls, in whatever nesting, the one that sets a subscription's
\* handlers is the only one that its own thread is to signal while it holds
\* the call's mutex, and it always is (pk-connection-dbus.c:8997).
THEOREM HandlersWaitForThemselves == Spec => []OnlyHandlersWaitForThemselves
<1>1. CallInv => OnlyHandlersWaitForThemselves
  <2> SUFFICES ASSUME CallInv, NEW t \in Threads, Busy(t, "signaller")
               PROVE  WaitsForItself(t) <=> calls[Top(t)].kind = "handlers"
    BY DEF OnlyHandlersWaitForThemselves
  <2>1. /\ stack[t] # <<>> /\ Top(t) \in DOMAIN calls
        /\ Last(stack[t]).role = "signaller" /\ Last(stack[t]).call = Top(t)
        /\ Last(stack[t]) \in ToSet(stack[t])
    BY TopFrame, LastIsIn DEF Busy, Top, CallInv, Types
  <2>2. ASSUME WaitsForItself(t) PROVE calls[Top(t)].kind = "handlers"
    <3>1. Last(stack[t]) = Innermost(Top(t), calls[Top(t)].kind)
      BY <2>1, <2>2 DEF CallInv, BlockedIsOnTop, Blocked, WaitsForItself
    <3> QED
      BY <2>1, <3>1 DEF Innermost, Caller
  <2>3. ASSUME calls[Top(t)].kind = "handlers" PROVE WaitsForItself(t)
    <3>1. calls[Top(t)].caller = t
      BY <2>1, <2>3 DEF CallInv, Types
    <3>2. calls[Top(t)].pc = "locked"
      BY <2>1, <2>3 DEF CallInv, HandlersStayLocked
    <3> QED
      BY <3>1, <3>2 DEF WaitsForItself, Locking
  <2> QED
    BY <2>2, <2>3
<1> QED
  BY <1>1, CallInvariant, PTL

\* A synchronous call returns only when it has been completed, except where
\* g_cond_wait ends for no reason (pk-connection.c:197).
THEOREM NoEarlyReturn == Spec => []ReturnsAreCompleted
<1>1. CallInv => ReturnsAreCompleted
  BY DEF CallInv
<1> QED
  BY <1>1, CallInvariant, PTL
=============================================================================
