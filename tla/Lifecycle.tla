----------------------------- MODULE Lifecycle -----------------------------
(***************************************************************************)
(* Several WebRTCLibPeerConnection objects over the one connection that    *)
(* Pion's C interface has and the one global g_context, through which its  *)
(* callbacks find their object.  The script's thread creates, initialises, *)
(* closes and deletes objects; Pion's threads call back at any time.       *)
(* (An initialize whose configuration does not parse changes nothing.)     *)
(*                                                                         *)
(* Assumed of Pion, which is external: a new connection takes the place of *)
(* the old one; pionClosePeerConnection returns when no callback runs.     *)
(* What becomes of the old connection when a new one cannot be made is a   *)
(* parameter.                                                              *)
(***************************************************************************)
CONSTANTS
  Objects,              \* the objects that are ever created
  Callbacks,            \* Pion's threads
  Null,                 \* no object: nullptr, or no connection
  FailedCreateCloses    \* whether a failed creation closes the old connection

ASSUME NullAssumption == Null \notin Objects
ASSUME FailedCreateAssumption == FailedCreateCloses \in BOOLEAN

VARIABLES
  life,         \* each object: "unborn", "alive", "gone"
  bound,        \* whether an object was initialised and not closed since
  pionWebrtc,   \* each object's field: "none", "valid", "Invalid"
  g_context,    \* the global
  connection,   \* the object Pion's connection was made for, or Null
  context,      \* the object each running callback works on, Null for none
  pc            \* the script's thread: a program point and an object

vars == <<life, bound, pionWebrtc, g_context, connection, context, pc>>

At(point, o) == [at |-> point, obj |-> o]
Idle == At("idle", Null)

Init ==
  /\ life = [o \in Objects |-> "unborn"]
  /\ bound = [o \in Objects |-> FALSE]
  /\ pionWebrtc = [o \in Objects |-> "none"]
  /\ g_context = Null
  /\ connection = Null
  /\ context = [c \in Callbacks |-> Null]
  /\ pc = Idle

NoCallbackRuns == \A c \in Callbacks : context[c] = Null

-----------------------------------------------------------------------------
(* Pion's threads: onLocalDescription, onRemoteTrack, onTrackDataCallback *)

CallbackEnters(c) ==
  /\ connection # Null /\ context[c] = Null
  /\ context' = [context EXCEPT ![c] = g_context]
  /\ UNCHANGED <<life, bound, pionWebrtc, g_context, connection, pc>>

CallbackLeaves(c) ==
  /\ context[c] # Null
  /\ context' = [context EXCEPT ![c] = Null]
  /\ UNCHANGED <<life, bound, pionWebrtc, g_context, connection, pc>>

-----------------------------------------------------------------------------
(* The script's thread *)

\* The constructor, whose _init ends in _initialize(Dictionary()).
New(o) ==
  /\ pc = Idle /\ life[o] = "unborn"
  /\ life' = [life EXCEPT ![o] = "alive"]
  /\ pc' = At("context", o)
  /\ UNCHANGED <<bound, pionWebrtc, g_context, connection, context>>

Initialize(o) ==
  /\ pc = Idle /\ life[o] = "alive"
  /\ pc' = At("context", o)
  /\ UNCHANGED <<life, bound, pionWebrtc, g_context, connection, context>>

\* Seeded fault: callbacks keep going to the object they went to.
SetContextOnce(o) ==
  /\ pc = At("context", o)
  /\ g_context' = IF g_context = Null THEN o ELSE g_context
  /\ bound' = [bound EXCEPT ![o] = TRUE]
  /\ pc' = At("create", o)
  /\ UNCHANGED <<life, pionWebrtc, connection, context>>

SetContext(o) ==
  /\ pc = At("context", o)
  /\ g_context' = o
  /\ bound' = [bound EXCEPT ![o] = TRUE]
  /\ pc' = At("create", o)
  /\ UNCHANGED <<life, pionWebrtc, connection, context>>

\* _create_pc: pionCreatePeerConnection makes the connection.
CreatePc(o) ==
  /\ pc = At("create", o)
  /\ connection' = o
  /\ pionWebrtc' = [pionWebrtc EXCEPT ![o] = "valid"]
  /\ pc' = Idle
  /\ UNCHANGED <<life, bound, g_context, context>>

\* Seeded fault: a connection that could not be replaced is left as it was.
CreatePcFailsAndKeeps(o) ==
  /\ pc = At("create", o)
  /\ pionWebrtc' = [pionWebrtc EXCEPT ![o] = "Invalid"]
  /\ pc' = Idle
  /\ UNCHANGED <<life, bound, g_context, connection, context>>

\* It cannot make one.  pionWebrtc becomes PionErrorCodeInvalid, whatever was
\* there before.
CreatePcFails(o) ==
  /\ pc = At("create", o)
  /\ pionWebrtc' = [pionWebrtc EXCEPT ![o] = "Invalid"]
  /\ IF FailedCreateCloses THEN NoCallbackRuns /\ connection' = Null
                           ELSE UNCHANGED connection
  /\ pc' = Idle
  /\ UNCHANGED <<life, bound, g_context, context>>

\* _close, on its own or from the destructor.
Close(o) ==
  /\ pc = Idle /\ life[o] = "alive"
  /\ \E last \in {"closed", "deleted"} :
       IF pionWebrtc[o] = "Invalid"
         THEN pc' = At(last, o) /\ UNCHANGED connection
         ELSE pc' = At(IF last = "closed" THEN "join" ELSE "joinDelete", o)
              /\ connection' = Null
  /\ UNCHANGED <<life, bound, pionWebrtc, g_context, context>>

\* Seeded fault: the connection is closed without waiting for its callbacks.
JoinNot(o) ==
  /\ \/ pc = At("join", o) /\ pc' = At("closed", o)
     \/ pc = At("joinDelete", o) /\ pc' = At("deleted", o)
  /\ UNCHANGED <<life, bound, pionWebrtc, g_context, connection, context>>

\* pionClosePeerConnection returns.
Join(o) ==
  /\ NoCallbackRuns
  /\ \/ pc = At("join", o) /\ pc' = At("closed", o)
     \/ pc = At("joinDelete", o) /\ pc' = At("deleted", o)
  /\ UNCHANGED <<life, bound, pionWebrtc, g_context, connection, context>>

\* Seeded fault: the object is closed once more after it was freed.
ReturnClosesAgain(o) ==
  /\ pc = At("deleted", o)
  /\ life' = [life EXCEPT ![o] = "gone"]
  /\ bound' = [bound EXCEPT ![o] = FALSE]
  /\ pc' = At("closed", o)
  /\ UNCHANGED <<pionWebrtc, g_context, connection, context>>

\* close() returns; or the destructor frees the object.  Neither resets
\* g_context or pionWebrtc.
Return(o) ==
  /\ \/ pc = At("closed", o) /\ UNCHANGED life
     \/ pc = At("deleted", o) /\ life' = [life EXCEPT ![o] = "gone"]
  /\ bound' = [bound EXCEPT ![o] = FALSE]
  /\ pc' = Idle
  /\ UNCHANGED <<pionWebrtc, g_context, connection, context>>

Next ==
  \/ \E c \in Callbacks : CallbackEnters(c) \/ CallbackLeaves(c)
  \/ \E o \in Objects :
       \/ New(o) \/ Initialize(o) \/ SetContext(o) \/ CreatePc(o) \/ CreatePcFails(o)
       \/ Close(o) \/ Join(o) \/ Return(o)

Spec == Init /\ [][Next]_vars

-----------------------------------------------------------------------------
Points == {"idle", "context", "create", "join", "joinDelete", "closed", "deleted"}

\* The types; whatever the script's thread is doing, it does to an object that
\* has been created and not deleted.
TypeOK ==
  /\ life \in [Objects -> {"unborn", "alive", "gone"}]
  /\ bound \in [Objects -> BOOLEAN]
  /\ pionWebrtc \in [Objects -> {"none", "valid", "Invalid"}]
  /\ g_context \in Objects \cup {Null}
  /\ connection \in Objects \cup {Null}
  /\ context \in [Callbacks -> Objects \cup {Null}]
  /\ pc \in [at : Points, obj : Objects \cup {Null}]
  /\ pc.at = "idle" <=> pc.obj = Null
  /\ pc.obj # Null => life[pc.obj] = "alive"

\* "Binding this should be fine as long as we call close when going out of
\* scope" (WebRTCLibPeerConnection.cpp:876): no callback works on an object
\* that was deleted, in whatever order objects are created, re-initialised,
\* closed and deleted, and whichever of them the connection was made for.
ContextAlive ==
  \A c \in Callbacks : context[c] # Null => life[context[c]] = "alive"

\* After close() has returned an object gets no callbacks until it is
\* initialised again.
QuietAfterClose ==
  \A c \in Callbacks : context[c] # Null => bound[context[c]]

\* A callback that starts always finds an object that can be called.
CallbacksFindContext ==
  connection # Null => g_context # Null /\ life[g_context] = "alive" /\ bound[g_context]
=============================================================================
