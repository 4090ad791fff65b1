-------------------------- MODULE LifecycleProofs --------------------------
(***************************************************************************)
(* Proofs about Lifecycle, for any number of objects and of Pion's threads,*)
(* where a failed creation leaves Pion without a connection.               *)
(***************************************************************************)
EXTENDS Lifecycle, TLAPS

\* o can be called back: it is alive, initialised since it was last closed, and
\* its field says that there is a connection to close, or is about to.
Callable(o) ==
  /\ life[o] = "alive"
  /\ bound[o]
  /\ pionWebrtc[o] = "valid" \/ pc = At("create", o)

\* The inductive invariant.  A connection, and a callback that is running, are
\* about an object that can be called back; once Pion is closed there is no
\* connection, and once it has been waited for no callback is left.
IInv ==
  /\ TypeOK
  /\ connection # Null => g_context # Null /\ Callable(g_context)
  /\ \A c \in Callbacks : context[c] # Null => Callable(context[c])
  /\ pc.at = "create" => g_context = pc.obj /\ bound[pc.obj]
  /\ pc.at \in {"join", "joinDelete"} => connection = Null
  /\ pc.at \in {"closed", "deleted"} =>
       pionWebrtc[pc.obj] = "Invalid" \/ (connection = Null /\ NoCallbackRuns)

LEMMA InitEstablishesIInv == Init => IInv
  BY NullAssumption
     DEF Init, IInv, TypeOK, Idle, At, Points, NoCallbackRuns

LEMMA StepKeepsIInv ==
  ASSUME FailedCreateCloses, IInv, [Next]_vars
  PROVE  IInv'
<1>. USE NullAssumption DEF IInv, TypeOK, Callable, At, Idle, Points, NoCallbackRuns
<1>1. ASSUME NEW c \in Callbacks, CallbackEnters(c) PROVE IInv'
  BY <1>1 DEF CallbackEnters
<1>2. ASSUME NEW c \in Callbacks, CallbackLeaves(c) PROVE IInv'
  BY <1>2 DEF CallbackLeaves
<1>3. ASSUME NEW o \in Objects, New(o) PROVE IInv'
  BY <1>3 DEF New
<1>4. ASSUME NEW o \in Objects, Initialize(o) PROVE IInv'
  BY <1>4 DEF Initialize
<1>5. ASSUME NEW o \in Objects, SetContext(o) PROVE IInv'
  BY <1>5 DEF SetContext
<1>6. ASSUME NEW o \in Objects, CreatePc(o) PROVE IInv'
  BY <1>6 DEF CreatePc
<1>7. ASSUME NEW o \in Objects, CreatePcFails(o) PROVE IInv'
  BY <1>7 DEF CreatePcFails
<1>8. ASSUME NEW o \in Objects, Close(o) PROVE IInv'
  <2>1. /\ pc = Idle /\ life[o] = "alive"
        /\ UNCHANGED <<life, bound, pionWebrtc, g_context, context>>
    BY <1>8 DEF Close
  <2>2. PICK point \in {"closed", "deleted", "join", "joinDelete"} :
          /\ pc' = At(point, o)
          /\ \/ /\ point \in {"closed", "deleted"}
                /\ pionWebrtc[o] = "Invalid" /\ connection' = connection
             \/ point \in {"join", "joinDelete"} /\ connection' = Null
    BY <1>8 DEF Close
  <2>3. pc'.at = point /\ pc'.obj = o
    BY <2>2
  <2>4. TypeOK'
    BY <2>1, <2>2, <2>3
  \* pc was idle, so whatever can be called back can be, wherever pc is now.
  <2>5. \A p \in Objects : Callable(p) => Callable(p)'
    BY <2>1, <2>2
  \* What is not closed need not be: its object cannot be called back.
  <2>. QED
    BY <2>1, <2>2, <2>3, <2>4, <2>5
<1>9. ASSUME NEW o \in Objects, Join(o) PROVE IInv'
  BY <1>9 DEF Join
<1>10. ASSUME NEW o \in Objects, Return(o) PROVE IInv'
  BY <1>10 DEF Return
<1>11. CASE UNCHANGED vars
  BY <1>11 DEF vars
<1>. QED
  BY <1>1, <1>2, <1>3, <1>4, <1>5, <1>6, <1>7, <1>8, <1>9, <1>10, <1>11 DEF Next

\* The inductive invariant, of which the next four theorems are consequences,
\* holds in every reachable state.
THEOREM IInvAlways == ASSUME FailedCreateCloses PROVE Spec => []IInv
  BY InitEstablishesIInv, StepKeepsIInv, PTL DEF Spec

\* The variables have their types, and the script's thread works on objects
\* that were created and not deleted.
THEOREM TypeCorrect == ASSUME FailedCreateCloses PROVE Spec => []TypeOK
<1>1. IInv => TypeOK
  BY DEF IInv
<1>. QED
  BY <1>1, IInvAlways, PTL

\* No callback works on a deleted object (WebRTCLibPeerConnection.cpp:876).
THEOREM NoDanglingContext == ASSUME FailedCreateCloses PROVE Spec => []ContextAlive
<1>1. IInv => ContextAlive
  BY DEF IInv, Callable, ContextAlive
<1>. QED
  BY <1>1, IInvAlways, PTL

\* A closed object gets no callbacks until it is initialised again.
THEOREM ClosedIsQuiet == ASSUME FailedCreateCloses PROVE Spec => []QuietAfterClose
<1>1. IInv => QuietAfterClose
  BY DEF IInv, Callable, QuietAfterClose
<1>. QED
  BY <1>1, IInvAlways, PTL

\* While Pion has a connection, g_context is an object that can be called.
THEOREM ContextFound == ASSUME FailedCreateCloses PROVE Spec => []CallbacksFindContext
<1>1. IInv => CallbacksFindContext
  BY DEF IInv, Callable, CallbacksFindContext
<1>. QED
  BY <1>1, IInvAlways, PTL
=============================================================================
