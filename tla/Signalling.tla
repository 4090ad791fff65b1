----------------------------- MODULE Signalling -----------------------------
(***************************************************************************)
(* Two games, one WebRTCLibPeerConnection each, agree on a session.  A     *)
(* script uses the object as Godot means it to: in the handler of          *)
(* session_description_created it calls set_local_description and sends    *)
(* the description to the other game, which gives it to                    *)
(* set_remote_description.  The wire between the scripts loses nothing.    *)
(* Connections are closed and made again at any time.                      *)
(*                                                                         *)
(* Assumed of Pion, which is external: it knows offers from answers by the *)
(* description itself, since the code passes it no type; it answers an     *)
(* offer by itself; it refuses a description that its state does not       *)
(* allow; closing waits for its callbacks, replacing does not.  When it    *)
(* cannot make a connection it closes the one it had in that way, or keeps *)
(* it; then the object, which has lost it, can no longer close it, and     *)
(* callbacks it owes still come.                                           *)
(***************************************************************************)
EXTENDS Integers, Sequences

CONSTANTS
  Peers,            \* the two games
  Unlucky,          \* those of them to which Pion may refuse a connection
  None,             \* no description
  MaxOffers,        \* bound: how many offers are ever made
  MaxConnections    \* bound: how many connections each game makes

ASSUME PeersAssumption == \E p, q \in Peers : p # q /\ Peers = {p, q}
ASSUME BoundsAssumption == MaxOffers \in Nat /\ MaxConnections \in Nat \ {0}

VARIABLES
  pionWebrtc,       \* each object's connection: "valid" or "Invalid"
  pion,             \* each game's connection inside Pion
  described,        \* the descriptions Pion has made and not called back with
  signal_queue,     \* the signals session_description_created not yet emitted
  wire,             \* the descriptions each game has sent and not seen taken
  offers,           \* how many offers were made
  made,             \* how many connections each game has made
  closed,           \* how many it had made when it last called close
  left_open,        \* history: those it has not closed, but lost to a failure
  attempt           \* history: "clean" after an offer made while all was quiet

vars == <<pionWebrtc, pion, described, signal_queue, wire, offers, made, closed, left_open,
          attempt>>

Other(p) == CHOOSE q \in Peers : q # p

Description ==
  [from : Peers, connection : 1 .. MaxConnections, type : {"offer", "answer"},
   offer : 1 .. MaxOffers]

NewConnection ==
  [state |-> "new", signaling |-> "stable", local |-> None, remote |-> None]

NoConnection ==
  [state |-> "closed", signaling |-> "closed", local |-> None, remote |-> None]

Init ==
  /\ pionWebrtc = [p \in Peers |-> "valid"]
  /\ pion = [p \in Peers |-> NewConnection]
  /\ described = [p \in Peers |-> <<>>]
  /\ signal_queue = [p \in Peers |-> <<>>]
  /\ wire = [p \in Peers |-> <<>>]
  /\ offers = 0
  /\ made = [p \in Peers |-> 1]
  /\ closed = [p \in Peers |-> 0]
  /\ left_open = [p \in Peers |-> {}]
  /\ attempt = "none"

\* Pion's state "connecting" stands for all that follow it.
GetConnectionState(p) ==
  IF pionWebrtc[p] = "Invalid" THEN "STATE_CLOSED"
  ELSE [new |-> "STATE_NEW", connecting |-> "STATE_CONNECTING",
        closed |-> "STATE_DISCONNECTED"][pion[p].state]

GetSignalingState(p) ==
  CASE pionWebrtc[p] = "Invalid" -> "SIGNALING_STATE_CLOSED"
    [] pion[p].signaling = "stable" -> "SIGNALING_STATE_STABLE"
    [] pion[p].signaling = "have-local-offer" -> "SIGNALING_STATE_HAVE_LOCAL_OFFER"
    [] OTHER -> "SIGNALING_STATE_CLOSED"

\* Nothing of an earlier exchange is left anywhere.
Quiet ==
  \A p \in Peers :
    /\ GetConnectionState(p) = "STATE_NEW" /\ GetSignalingState(p) = "SIGNALING_STATE_STABLE"
    /\ described[p] = <<>> /\ signal_queue[p] = <<>> /\ wire[p] = <<>>

-----------------------------------------------------------------------------
(* What the script calls *)

\* Seeded fault: the state of the connection is not looked at.
CreateOfferAnytime(p) ==
  /\ pionWebrtc[p] # "Invalid" /\ pion[p].state # "closed" /\ offers < MaxOffers
  /\ offers' = offers + 1
  /\ LET offer == [from |-> p, connection |-> made[p], type |-> "offer", offer |-> offers']
     IN  /\ pion' = [pion EXCEPT ![p].signaling = "have-local-offer", ![p].local = offer]
         /\ described' = [described EXCEPT ![p] = Append(@, offer)]
  /\ attempt' = IF Quiet THEN "clean" ELSE "spoiled"
  /\ UNCHANGED <<pionWebrtc, signal_queue, wire, made, closed, left_open>>

\* create_offer on a new connection; on any other it changes nothing.
CreateOffer(p) ==
  /\ GetConnectionState(p) = "STATE_NEW" /\ offers < MaxOffers
  /\ offers' = offers + 1
  /\ LET offer == [from |-> p, connection |-> made[p], type |-> "offer", offer |-> offers']
     IN  /\ pion' = [pion EXCEPT ![p].signaling = "have-local-offer", ![p].local = offer]
         /\ described' = [described EXCEPT ![p] = Append(@, offer)]
  /\ attempt' = IF Quiet THEN "clean" ELSE "spoiled"
  /\ UNCHANGED <<pionWebrtc, signal_queue, wire, made, closed, left_open>>

\* Seeded fault: the description is set again, as the type it was announced as.
SetLocalDescriptionAgain(connection, type, sdp) ==
  [connection EXCEPT !.signaling = IF type = "offer" THEN "have-local-offer" ELSE "stable"]

\* "Ignore this call": Pion has set the description already.
SetLocalDescription(connection, type, sdp) == connection

\* The rest of a callback: queue_signal of what is announced as an offer,
\* whatever it is.
Signal(description) == [type |-> "offer", sdp |-> description]

\* One turn of the loop of poll, and the handler of the signal.
Poll(p) ==
  /\ pionWebrtc[p] # "Invalid" /\ signal_queue[p] # <<>>
  /\ LET signal == Head(signal_queue[p])
     IN  /\ pion' = [pion EXCEPT ![p] = SetLocalDescription(@, signal.type, signal.sdp)]
         /\ wire' = [wire EXCEPT ![p] = Append(@, signal.sdp)]
  /\ signal_queue' = [signal_queue EXCEPT ![p] = Tail(@)]
  /\ UNCHANGED <<pionWebrtc, described, offers, made, closed, left_open, attempt>>

\* The other game's next description reaches set_remote_description, which
\* leaves it to Pion and succeeds, unless the connection is invalid.
SetRemoteDescription(p) ==
  /\ wire[Other(p)] # <<>>
  /\ wire' = [wire EXCEPT ![Other(p)] = Tail(@)]
  /\ LET sdp == Head(wire[Other(p)])
         answer == [from |-> p, connection |-> made[p], type |-> "answer", offer |-> sdp.offer]
     IN  \/ /\ pionWebrtc[p] # "Invalid"
            /\ sdp.type = "offer" /\ pion[p].signaling = "stable"
            /\ pion' = [pion EXCEPT ![p].remote = sdp, ![p].local = answer]
            /\ described' = [described EXCEPT ![p] = Append(@, answer)]
         \/ /\ pionWebrtc[p] # "Invalid"
            /\ sdp.type = "answer" /\ pion[p].signaling = "have-local-offer"
            /\ pion' = [pion EXCEPT ![p].remote = sdp, ![p].signaling = "stable"]
            /\ UNCHANGED described
         \/ /\ \/ pionWebrtc[p] = "Invalid"
               \/ <<sdp.type, pion[p].signaling>> \notin
                    {<<"offer", "stable">>, <<"answer", "have-local-offer">>}
            /\ UNCHANGED <<pion, described>>
  /\ UNCHANGED <<pionWebrtc, signal_queue, offers, made, closed, left_open, attempt>>

\* initialize.  What waits in signal_queue stays there; a callback of the old
\* connection may still be on its way to it.
Initialize(p) ==
  /\ made[p] < MaxConnections
  /\ made' = [made EXCEPT ![p] = @ + 1]
  /\ pionWebrtc' = [pionWebrtc EXCEPT ![p] = "valid"]
  /\ pion' = [pion EXCEPT ![p] = NewConnection]
  /\ attempt' = "spoiled"
  /\ UNCHANGED <<described, signal_queue, wire, offers, closed, left_open>>

\* initialize, when Pion makes no connection: the object has none from then on.
\* If Pion keeps the one it had, so does what that one has still to call back.
InitializeFails(p, keeps) ==
  /\ p \in Unlucky
  /\ pionWebrtc' = [pionWebrtc EXCEPT ![p] = "Invalid"]
  /\ IF keeps
       THEN /\ left_open' = [left_open EXCEPT ![p] = @ \cup (closed[p] + 1) .. made[p]]
            /\ UNCHANGED <<pion, described>>
       ELSE /\ pion' = [pion EXCEPT ![p] = NoConnection]
            /\ described' = [described EXCEPT ![p] = <<>>]
            /\ UNCHANGED left_open
  /\ attempt' = "spoiled"
  /\ UNCHANGED <<signal_queue, wire, offers, made, closed>>

\* Whether close gets to Pion, or Pion has nothing to close.
ClosesPion(p) == pionWebrtc[p] # "Invalid" \/ pion[p] = NoConnection

\* Seeded fault: the signals of the old connection stay in the queue.
CloseKeepsSignals(p) ==
  /\ IF ClosesPion(p)
       THEN /\ pion' = [pion EXCEPT ![p] = NoConnection]
            /\ described' = [described EXCEPT ![p] = <<>>]
            /\ left_open' = [left_open EXCEPT ![p] = {}]
       ELSE UNCHANGED <<pion, described, left_open>>
  /\ closed' = [closed EXCEPT ![p] = made[p]]
  /\ attempt' = "spoiled"
  /\ UNCHANGED <<pionWebrtc, signal_queue, wire, offers, made>>

\* close: what Pion's last callbacks queue is thrown away with the rest.  An
\* object without a connection only empties its queue.
Close(p) ==
  /\ IF ClosesPion(p)
       THEN /\ pion' = [pion EXCEPT ![p] = NoConnection]
            /\ described' = [described EXCEPT ![p] = <<>>]
            /\ left_open' = [left_open EXCEPT ![p] = {}]
       ELSE UNCHANGED <<pion, described, left_open>>
  /\ signal_queue' = [signal_queue EXCEPT ![p] = <<>>]
  /\ closed' = [closed EXCEPT ![p] = made[p]]
  /\ attempt' = "spoiled"
  /\ UNCHANGED <<pionWebrtc, wire, offers, made>>

-----------------------------------------------------------------------------
(* What Pion does *)

\* Its callback onLocalDescription.
OnLocalDescription(p) ==
  /\ described[p] # <<>>
  /\ described' = [described EXCEPT ![p] = Tail(@)]
  /\ signal_queue' = [signal_queue EXCEPT ![p] = Append(@, Signal(Head(described[p])))]
  /\ UNCHANGED <<pionWebrtc, pion, wire, offers, made, closed, left_open, attempt>>

\* With both descriptions the connection is set up.
Connect(p) ==
  /\ pion[p].state = "new" /\ pion[p].signaling = "stable" /\ pion[p].remote # None
  /\ pion' = [pion EXCEPT ![p].state = "connecting"]
  /\ UNCHANGED <<pionWebrtc, described, signal_queue, wire, offers, made, closed, left_open,
                 attempt>>

Next ==
  \E p \in Peers :
    \/ CreateOffer(p) \/ Poll(p) \/ SetRemoteDescription(p)
    \/ Initialize(p) \/ (\E keeps \in BOOLEAN : InitializeFails(p, keeps)) \/ Close(p)
    \/ OnLocalDescription(p) \/ Connect(p)

\* Callbacks are made, games poll, and what is sent arrives.
Spec ==
  /\ Init /\ [][Next]_vars
  /\ \A p \in Peers :
       WF_vars(OnLocalDescription(p)) /\ WF_vars(Poll(p)) /\ WF_vars(SetRemoteDescription(p))

-----------------------------------------------------------------------------
PionConnection ==
  [state : {"new", "connecting", "closed"},
   signaling : {"stable", "have-local-offer", "closed"},
   local : Description \cup {None}, remote : Description \cup {None}]

\* The types; and what the test of the connection's state in create_offer is
\* for: there is never an offer open on a connection that is already set up.
TypeOK ==
  /\ pionWebrtc \in [Peers -> {"valid", "Invalid"}]
  /\ pion \in [Peers -> PionConnection]
  /\ described \in [Peers -> Seq(Description)]
  /\ signal_queue \in [Peers -> Seq([type : {"offer"}, sdp : Description])]
  /\ wire \in [Peers -> Seq(Description)]
  /\ \A p \in Peers : pion[p].signaling = "have-local-offer" => pion[p].state = "new"
  /\ offers \in 0 .. MaxOffers
  /\ made \in [Peers -> 1 .. MaxConnections]
  /\ closed \in [Peers -> 0 .. MaxConnections]
  /\ left_open \in [Peers -> SUBSET (1 .. MaxConnections)]
  /\ attempt \in {"none", "clean", "spoiled"}

\* The games hold the same offer and the same answer to it, and both are done.
Agreed ==
  \E p \in Peers :
    LET q == Other(p) IN
    /\ GetSignalingState(p) = "SIGNALING_STATE_STABLE"
    /\ GetSignalingState(q) = "SIGNALING_STATE_STABLE"
    /\ pion[p].local # None /\ pion[p].local.type = "offer" /\ pion[q].remote = pion[p].local
    /\ pion[q].local # None /\ pion[q].local.type = "answer" /\ pion[p].remote = pion[q].local
    /\ pion[q].local.offer = pion[p].local.offer

\* An offer that is made while all is quiet is answered and agreed on, unless
\* someone makes another offer or gives up a connection; although the answer is
\* announced as an offer, no type is passed to Pion, and set_local_description
\* does nothing.  It holds again after earlier offers crossed and both games
\* started over.
NegotiationCompletes == attempt = "clean" ~> attempt # "clean" \/ Agreed

\* A description that a script is told of, and sends, never belongs to a
\* connection that it closed before: close leaves nothing in the queue and
\* nothing on its way there.  Only what a failed initialize left Pion with,
\* which close does not get to, may still be announced: on the next connection.
NothingOfClosed ==
  [][\A p \in Peers :
       Len(wire'[p]) > Len(wire[p]) =>
         LET sent == wire'[p][Len(wire'[p])].connection
         IN  sent > closed[p] \/ sent \in left_open[p]]_vars
=============================================================================
