-------------------------- MODULE SignallingProofs --------------------------
(***************************************************************************)
(* Proofs about Signalling, for any number of offers and connections.      *)
(***************************************************************************)
EXTENDS Signalling, TLAPS

\* Descriptions of a connection that p has not closed, or could not close, and
\* their signals.
Fresh(p) ==
  {d \in Description :
     d.connection <= made[p] /\ (closed[p] < d.connection \/ d.connection \in left_open[p])}
FreshSignals(p) == [type : {"offer"}, sdp : Fresh(p)]

\* What is on its way to p's script is of a connection p has not closed, Pion
\* makes descriptions only while p has such a connection, and one that a failure
\* has left to Pion is known as such.
PeerInv(p) ==
  /\ pionWebrtc[p] = "valid" /\ pion[p].signaling # "closed" => closed[p] < made[p]
  /\ pion[p].state = "closed" <=> pion[p].signaling = "closed"
  /\ pionWebrtc[p] = "Invalid" /\ pion[p] # NoConnection =>
       (closed[p] + 1) .. made[p] \subseteq left_open[p]
  /\ closed[p] <= made[p]
  /\ described[p] \in Seq(Fresh(p))
  /\ signal_queue[p] \in Seq(FreshSignals(p))

\* The inductive invariant.
IInv == TypeOK /\ \A p \in Peers : PeerInv(p)

LEMMA OtherIsPeer == ASSUME NEW p \in Peers PROVE Other(p) \in Peers
  BY PeersAssumption DEF Other

LEMMA InitEstablishesIInv == Init => IInv
<1>. SUFFICES ASSUME Init PROVE IInv
  OBVIOUS
<1>1. \A S : <<>> \in Seq(S)
  OBVIOUS
<1>2. NewConnection \in PionConnection
  BY DEF NewConnection, PionConnection
<1>3. TypeOK
  BY <1>1, <1>2, BoundsAssumption DEF Init, TypeOK, NewConnection
<1>. QED
  BY <1>1, <1>3, BoundsAssumption DEF Init, IInv, PeerInv, NewConnection

LEMMA NoConnectionHasType ==
  /\ NoConnection \in PionConnection
  /\ NoConnection.state = "closed" /\ NoConnection.signaling = "closed"
  BY DEF NoConnection, PionConnection

\* What an action does not touch of a peer keeps its invariant.
LEMMA UntouchedPeer ==
  ASSUME NEW p \in Peers, PeerInv(p),
         pionWebrtc'[p] = pionWebrtc[p], left_open'[p] = left_open[p],
         pion'[p] = pion[p], closed'[p] = closed[p], made'[p] = made[p],
         described'[p] = described[p], signal_queue'[p] = signal_queue[p]
  PROVE  PeerInv(p)'
  BY DEF PeerInv, Fresh, FreshSignals

LEMMA CreateOfferKeepsIInv ==
  ASSUME IInv, NEW p \in Peers, CreateOffer(p)
  PROVE  IInv'
<1>. DEFINE offer == [from |-> p, connection |-> made[p], type |-> "offer", offer |-> offers']
            open == [pion[p] EXCEPT !.signaling = "have-local-offer", !.local = offer]
<1>. USE DEF IInv
<1>1. /\ pionWebrtc[p] = "valid" /\ pion[p].state = "new"
      /\ offers < MaxOffers /\ offers' = offers + 1
      /\ attempt' \in {"clean", "spoiled"}
      /\ described' = [described EXCEPT ![p] = Append(@, offer)]
      /\ UNCHANGED <<pionWebrtc, signal_queue, wire, made, closed, left_open>>
  <2>1. /\ pion[p].state \in {"new", "connecting", "closed"}
        /\ pionWebrtc[p] \in {"valid", "Invalid"}
    BY DEF TypeOK, PionConnection
  <2>. QED
    BY <2>1 DEF CreateOffer, GetConnectionState
<1>2. pion' = [pion EXCEPT ![p] = open]
  BY DEF CreateOffer, TypeOK, PionConnection
<1>3. PeerInv(p) /\ closed[p] < made[p]
  BY <1>1 DEF PeerInv
<1>4. offer \in Description /\ closed[p] < offer.connection /\ offer.connection <= made[p]
  <2>1. made[p] \in 1 .. MaxConnections /\ offers' \in 1 .. MaxOffers
    BY <1>1, BoundsAssumption DEF TypeOK
  <2>. QED
    BY <1>3, <2>1 DEF Description
<1>5. offer \in Fresh(p)
  BY <1>4 DEF Fresh
<1>. HIDE DEF offer
<1>6. open \in PionConnection /\ open.state = "new" /\ open.signaling = "have-local-offer"
  BY <1>1, <1>4 DEF TypeOK, PionConnection
<1>. HIDE DEF open
<1>7. TypeOK'
  <2>1. pion' \in [Peers -> PionConnection]
    BY <1>2, <1>6 DEF TypeOK
  <2>2. described' \in [Peers -> Seq(Description)]
    BY <1>1, <1>4 DEF TypeOK
  <2>3. \A q \in Peers : pion'[q].signaling = "have-local-offer" => pion'[q].state = "new"
    BY <1>2, <1>6 DEF TypeOK
  <2>4. offers' \in 0 .. MaxOffers
    BY <1>1, BoundsAssumption DEF TypeOK
  <2>. QED
    BY <1>1, <2>1, <2>2, <2>3, <2>4 DEF TypeOK
<1>8. ASSUME NEW q \in Peers PROVE PeerInv(q)'
  <2>1. CASE q # p
    BY <1>1, <1>2, <2>1, UntouchedPeer DEF TypeOK
  <2>2. CASE q = p
    <3>1. pion'[p] = open /\ described'[p] = Append(described[p], offer)
      BY <1>1, <1>2 DEF TypeOK
    <3>2. Fresh(p)' = Fresh(p) /\ FreshSignals(p)' = FreshSignals(p)
      BY <1>1 DEF Fresh, FreshSignals
    <3>3. described'[p] \in Seq(Fresh(p))
      BY <1>3, <1>5, <3>1 DEF PeerInv
    <3>. QED
      BY <1>1, <1>3, <1>6, <2>2, <3>1, <3>2, <3>3 DEF PeerInv
  <2>. QED
    BY <2>1, <2>2
<1>. QED
  BY <1>7, <1>8

LEMMA PollKeepsIInv ==
  ASSUME IInv, NEW p \in Peers, Poll(p)
  PROVE  /\ IInv'
         /\ \A q \in Peers :
              Len(wire'[q]) > Len(wire[q]) =>
                LET sent == wire'[q][Len(wire'[q])].connection
                IN  sent > closed[q] \/ sent \in left_open[q]
<1>. USE DEF IInv
<1>. DEFINE signal == Head(signal_queue[p])
<1>1. /\ signal_queue[p] # <<>>
      /\ pion' = pion
      /\ wire' = [wire EXCEPT ![p] = Append(@, signal.sdp)]
      /\ signal_queue' = [signal_queue EXCEPT ![p] = Tail(@)]
      /\ UNCHANGED <<pionWebrtc, described, offers, made, closed, left_open, attempt>>
  BY DEF Poll, SetLocalDescription, TypeOK
<1>2. PeerInv(p)
  OBVIOUS
<1>3. signal \in FreshSignals(p) /\ Tail(signal_queue[p]) \in Seq(FreshSignals(p))
  BY <1>1, <1>2 DEF PeerInv
<1>4. /\ signal.sdp \in Description
      /\ closed[p] < signal.sdp.connection \/ signal.sdp.connection \in left_open[p]
  BY <1>3 DEF FreshSignals, Fresh
<1>5. Tail(signal_queue[p]) \in Seq([type : {"offer"}, sdp : Description])
  <2>1. signal_queue[p] \in Seq([type : {"offer"}, sdp : Description])
    BY DEF TypeOK
  <2>. QED
    BY <1>1, <2>1
<1>. HIDE DEF signal
<1>6. TypeOK'
  <2>1. wire' \in [Peers -> Seq(Description)]
    BY <1>1, <1>4 DEF TypeOK
  <2>2. signal_queue' \in [Peers -> Seq([type : {"offer"}, sdp : Description])]
    BY <1>1, <1>5 DEF TypeOK
  <2>. QED
    BY <1>1, <2>1, <2>2 DEF TypeOK
<1>7. ASSUME NEW q \in Peers PROVE PeerInv(q)'
  <2>1. CASE q # p
    BY <1>1, <2>1, UntouchedPeer DEF TypeOK
  <2>2. CASE q = p
    <3>1. signal_queue'[p] = Tail(signal_queue[p])
      BY <1>1 DEF TypeOK
    <3>2. Fresh(p)' = Fresh(p) /\ FreshSignals(p)' = FreshSignals(p)
      BY <1>1 DEF Fresh, FreshSignals
    <3>. QED
      BY <1>1, <1>2, <1>3, <2>2, <3>1, <3>2 DEF PeerInv
  <2>. QED
    BY <2>1, <2>2
<1>8. ASSUME NEW q \in Peers, Len(wire'[q]) > Len(wire[q])
      PROVE  LET sent == wire'[q][Len(wire'[q])].connection
             IN  sent > closed[q] \/ sent \in left_open[q]
  <2>1. q = p
    BY <1>1, <1>8 DEF TypeOK
  <2>2. wire'[p] = Append(wire[p], signal.sdp) /\ wire[p] \in Seq(Description)
    BY <1>1 DEF TypeOK
  <2>3. wire'[p][Len(wire'[p])] = signal.sdp
    BY <1>4, <2>2
  <2>4. closed[p] \in Int /\ signal.sdp.connection \in Int
    BY <1>4 DEF TypeOK, Description
  <2>. QED
    BY <1>4, <2>1, <2>3, <2>4
<1>. QED
  BY <1>6, <1>7, <1>8

LEMMA SetRemoteDescriptionKeepsIInv ==
  ASSUME IInv, NEW p \in Peers, SetRemoteDescription(p)
  PROVE  /\ IInv'
         /\ \A q \in Peers : ~(Len(wire'[q]) > Len(wire[q]))
<1>. USE DEF IInv
<1>. DEFINE sdp == Head(wire[Other(p)])
            answer == [from |-> p, connection |-> made[p], type |-> "answer", offer |-> sdp.offer]
            answered == [pion[p] EXCEPT !.remote = sdp, !.local = answer]
            accepted == [pion[p] EXCEPT !.remote = sdp, !.signaling = "stable"]
<1>1. /\ Other(p) \in Peers /\ wire[Other(p)] # <<>>
      /\ wire' = [wire EXCEPT ![Other(p)] = Tail(@)]
      /\ UNCHANGED <<pionWebrtc, signal_queue, offers, made, closed, left_open, attempt>>
  BY OtherIsPeer DEF SetRemoteDescription
<1>2. sdp \in Description /\ Tail(wire[Other(p)]) \in Seq(Description)
  BY <1>1 DEF TypeOK
<1>3. wire' \in [Peers -> Seq(Description)] /\ \A q \in Peers : ~(Len(wire'[q]) > Len(wire[q]))
  <2>1. Len(Tail(wire[Other(p)])) < Len(wire[Other(p)])
    BY <1>1 DEF TypeOK
  <2>2. \A q \in Peers : wire[q] \in Seq(Description)
    BY DEF TypeOK
  <2>. QED
    BY <1>1, <1>2, <2>1, <2>2, SMTT(30) DEF TypeOK
<1>4. PeerInv(p)
  OBVIOUS
<1>5. CASE UNCHANGED <<pion, described>>
  <2>1. TypeOK'
    BY <1>1, <1>3, <1>5 DEF TypeOK
  <2>2. \A q \in Peers : PeerInv(q)'
    BY <1>1, <1>5, UntouchedPeer
  <2>. QED
    BY <1>3, <2>1, <2>2
<1>6. CASE /\ pionWebrtc[p] # "Invalid" /\ pion[p].signaling = "stable"
           /\ pion' = [pion EXCEPT ![p] = answered]
           /\ described' = [described EXCEPT ![p] = Append(@, answer)]
  <2>1. answer \in Description /\ closed[p] < answer.connection /\ answer.connection <= made[p]
    <3>1. /\ made[p] \in 1 .. MaxConnections /\ sdp.offer \in 1 .. MaxOffers
          /\ pionWebrtc[p] = "valid"
      BY <1>2, <1>6 DEF TypeOK, Description
    <3>. QED
      BY <1>4, <1>6, <3>1 DEF Description, PeerInv
  <2>2. answer \in Fresh(p)
    BY <2>1 DEF Fresh
  <2>. HIDE DEF sdp, answer
  <2>3. /\ answered \in PionConnection
        /\ answered.state = pion[p].state /\ answered.signaling = "stable"
    <3>1. pion[p] \in PionConnection
      BY DEF TypeOK
    <3>. QED
      BY <1>2, <1>6, <2>1, <3>1 DEF PionConnection
  <2>. HIDE DEF answered
  <2>4. TypeOK'
    <3>1. pion' \in [Peers -> PionConnection]
      BY <1>6, <2>3 DEF TypeOK
    <3>2. described' \in [Peers -> Seq(Description)]
      BY <1>6, <2>1 DEF TypeOK
    <3>3. \A q \in Peers : pion'[q].signaling = "have-local-offer" => pion'[q].state = "new"
      BY <1>6, <2>3 DEF TypeOK
    <3>. QED
      BY <1>1, <1>3, <3>1, <3>2, <3>3 DEF TypeOK
  <2>5. ASSUME NEW q \in Peers PROVE PeerInv(q)'
    <3>1. CASE q # p
      BY <1>1, <1>6, <3>1, UntouchedPeer DEF TypeOK
    <3>2. CASE q = p
      <4>1. pion'[p] = answered /\ described'[p] = Append(described[p], answer)
        BY <1>6 DEF TypeOK
      <4>2. Fresh(p)' = Fresh(p) /\ FreshSignals(p)' = FreshSignals(p)
        BY <1>1 DEF Fresh, FreshSignals
      <4>3. described'[p] \in Seq(Fresh(p))
        BY <1>4, <2>2, <4>1 DEF PeerInv
      <4>. QED
        BY <1>1, <1>4, <1>6, <2>3, <3>2, <4>1, <4>2, <4>3 DEF PeerInv
    <3>. QED
      BY <3>1, <3>2
  <2>. QED
    BY <1>3, <2>4, <2>5
<1>7. CASE /\ pionWebrtc[p] # "Invalid" /\ pion[p].signaling = "have-local-offer"
           /\ pion' = [pion EXCEPT ![p] = accepted]
           /\ UNCHANGED described
  <2>. HIDE DEF sdp
  <2>1. /\ accepted \in PionConnection
        /\ accepted.state = pion[p].state /\ accepted.signaling = "stable"
    <3>1. pion[p] \in PionConnection
      BY DEF TypeOK
    <3>. QED
      BY <1>2, <3>1 DEF PionConnection
  <2>. HIDE DEF accepted
  <2>2. TypeOK'
    <3>1. pion' \in [Peers -> PionConnection]
      BY <1>7, <2>1 DEF TypeOK
    <3>2. \A q \in Peers : pion'[q].signaling = "have-local-offer" => pion'[q].state = "new"
      BY <1>7, <2>1 DEF TypeOK
    <3>. QED
      BY <1>1, <1>3, <1>7, <3>1, <3>2 DEF TypeOK
  <2>3. ASSUME NEW q \in Peers PROVE PeerInv(q)'
    <3>1. CASE q # p
      BY <1>1, <1>7, <3>1, UntouchedPeer DEF TypeOK
    <3>2. CASE q = p
      <4>1. pion'[p] = accepted
        BY <1>7 DEF TypeOK
      <4>2. Fresh(p)' = Fresh(p) /\ FreshSignals(p)' = FreshSignals(p)
        BY <1>1 DEF Fresh, FreshSignals
      <4>. QED
        BY <1>1, <1>4, <1>7, <2>1, <3>2, <4>1, <4>2 DEF PeerInv
    <3>. QED
      BY <3>1, <3>2
  <2>. QED
    BY <1>3, <2>2, <2>3
<1>. QED
  <2>1. \/ UNCHANGED <<pion, described>>
        \/ /\ pionWebrtc[p] # "Invalid" /\ pion[p].signaling = "stable"
           /\ pion' = [pion EXCEPT ![p].remote = sdp, ![p].local = answer]
           /\ described' = [described EXCEPT ![p] = Append(@, answer)]
        \/ /\ pionWebrtc[p] # "Invalid" /\ pion[p].signaling = "have-local-offer"
           /\ pion' = [pion EXCEPT ![p].remote = sdp, ![p].signaling = "stable"]
           /\ UNCHANGED described
    BY DEF SetRemoteDescription
  <2>. HIDE DEF sdp, answer
  <2>2. /\ [pion EXCEPT ![p].remote = sdp, ![p].local = answer] = [pion EXCEPT ![p] = answered]
        /\ [pion EXCEPT ![p].remote = sdp, ![p].signaling = "stable"] = [pion EXCEPT ![p] = accepted]
    BY DEF TypeOK, PionConnection
  <2>. QED
    BY <1>5, <1>6, <1>7, <2>1, <2>2

LEMMA InitializeKeepsIInv ==
  ASSUME IInv, NEW p \in Peers, Initialize(p)
  PROVE  IInv'
<1>. USE DEF IInv
<1>1. /\ made[p] < MaxConnections /\ made' = [made EXCEPT ![p] = @ + 1]
      /\ pionWebrtc' = [pionWebrtc EXCEPT ![p] = "valid"]
      /\ pion' = [pion EXCEPT ![p] = NewConnection]
      /\ attempt' = "spoiled"
      /\ UNCHANGED <<described, signal_queue, wire, offers, closed, left_open>>
  BY DEF Initialize
<1>2. made' \in [Peers -> 1 .. MaxConnections] /\ made'[p] = made[p] + 1
  BY <1>1, BoundsAssumption DEF TypeOK
<1>3. PeerInv(p) /\ made[p] \in Nat /\ closed[p] \in Nat
  BY DEF TypeOK
<1>4. /\ NewConnection \in PionConnection
      /\ NewConnection.state = "new" /\ NewConnection.signaling = "stable"
  BY DEF NewConnection, PionConnection
<1>5. TypeOK'
  BY <1>1, <1>2, <1>4 DEF TypeOK
<1>6. ASSUME NEW q \in Peers PROVE PeerInv(q)'
  <2>1. CASE q # p
    BY <1>1, <2>1, UntouchedPeer DEF TypeOK
  <2>2. CASE q = p
    <3>1. pion'[p] = NewConnection /\ pionWebrtc'[p] = "valid"
      BY <1>1 DEF TypeOK
    <3>2. Fresh(p) \subseteq Fresh(p)'
      BY <1>1, <1>2, <1>3 DEF Fresh, Description
    <3>3. FreshSignals(p) \subseteq FreshSignals(p)'
      BY <3>2 DEF FreshSignals
    <3>4. described[p] \in Seq(Fresh(p)') /\ signal_queue[p] \in Seq(FreshSignals(p)')
      BY <1>3, <3>2, <3>3 DEF PeerInv
    <3>. QED
      BY <1>1, <1>2, <1>3, <1>4, <2>2, <3>1, <3>4 DEF PeerInv
  <2>. QED
    BY <2>1, <2>2
<1>. QED
  BY <1>5, <1>6

LEMMA InitializeFailsKeepsIInv ==
  ASSUME IInv, NEW p \in Peers, NEW keeps \in BOOLEAN, InitializeFails(p, keeps)
  PROVE  IInv'
<1>. USE DEF IInv
<1>1. /\ pionWebrtc' = [pionWebrtc EXCEPT ![p] = "Invalid"]
      /\ attempt' = "spoiled"
      /\ UNCHANGED <<signal_queue, wire, offers, made, closed>>
  BY DEF InitializeFails
<1>2. PeerInv(p) /\ made[p] \in 1 .. MaxConnections /\ closed[p] \in Nat
  BY DEF TypeOK
<1>3. CASE keeps
  <2>1. /\ left_open' = [left_open EXCEPT ![p] = @ \cup (closed[p] + 1) .. made[p]]
        /\ UNCHANGED <<pion, described>>
    BY <1>3 DEF InitializeFails
  <2>2. (closed[p] + 1) .. made[p] \subseteq 1 .. MaxConnections
    BY <1>2, BoundsAssumption
  <2>3. TypeOK'
    <3>1. left_open' \in [Peers -> SUBSET (1 .. MaxConnections)]
      BY <2>1, <2>2 DEF TypeOK
    <3>. QED
      BY <1>1, <2>1, <3>1 DEF TypeOK
  <2>4. ASSUME NEW q \in Peers PROVE PeerInv(q)'
    <3>1. CASE q # p
      BY <1>1, <2>1, <3>1, UntouchedPeer DEF TypeOK
    <3>2. CASE q = p
      <4>1. /\ left_open'[p] = left_open[p] \cup (closed[p] + 1) .. made[p]
            /\ pionWebrtc'[p] = "Invalid"
        BY <1>1, <2>1 DEF TypeOK
      <4>2. Fresh(p) \subseteq Fresh(p)'
        BY <1>1, <4>1 DEF Fresh
      <4>3. FreshSignals(p) \subseteq FreshSignals(p)'
        BY <4>2 DEF FreshSignals
      <4>4. described[p] \in Seq(Fresh(p)') /\ signal_queue[p] \in Seq(FreshSignals(p)')
        BY <1>2, <4>2, <4>3 DEF PeerInv
      <4>. QED
        BY <1>1, <1>2, <2>1, <3>2, <4>1, <4>4 DEF PeerInv
    <3>. QED
      BY <3>1, <3>2
  <2>. QED
    BY <2>3, <2>4
<1>4. CASE ~keeps
  <2>1. /\ pion' = [pion EXCEPT ![p] = NoConnection]
        /\ described' = [described EXCEPT ![p] = <<>>]
        /\ UNCHANGED left_open
    BY <1>4 DEF InitializeFails
  <2>2. TypeOK'
    <3>1. pion' \in [Peers -> PionConnection] /\ described' \in [Peers -> Seq(Description)]
      BY <2>1, NoConnectionHasType DEF TypeOK
    <3>2. \A q \in Peers : pion'[q].signaling = "have-local-offer" => pion'[q].state = "new"
      BY <2>1, NoConnectionHasType DEF TypeOK
    <3>. QED
      BY <1>1, <2>1, <3>1, <3>2 DEF TypeOK
  <2>3. ASSUME NEW q \in Peers PROVE PeerInv(q)'
    <3>1. CASE q # p
      BY <1>1, <2>1, <3>1, UntouchedPeer DEF TypeOK
    <3>2. CASE q = p
      <4>1. pion'[p] = NoConnection /\ described'[p] = <<>> /\ pionWebrtc'[p] = "Invalid"
        BY <1>1, <2>1 DEF TypeOK
      <4>2. NoConnection' = NoConnection
        BY DEF NoConnection
      <4>3. Fresh(p)' = Fresh(p) /\ FreshSignals(p)' = FreshSignals(p)
        BY <1>1, <2>1 DEF Fresh, FreshSignals
      <4>. QED
        BY <1>1, <1>2, <2>1, <3>2, <4>1, <4>2, <4>3, NoConnectionHasType DEF PeerInv
    <3>. QED
      BY <3>1, <3>2
  <2>. QED
    BY <2>2, <2>3
<1>. QED
  BY <1>3, <1>4

LEMMA CloseKeepsIInv ==
  ASSUME IInv, NEW p \in Peers, Close(p)
  PROVE  IInv'
<1>. USE DEF IInv
<1>1. /\ signal_queue' = [signal_queue EXCEPT ![p] = <<>>]
      /\ closed' = [closed EXCEPT ![p] = made[p]]
      /\ attempt' = "spoiled"
      /\ UNCHANGED <<pionWebrtc, wire, offers, made>>
  BY DEF Close
<1>2. /\ signal_queue' \in [Peers -> Seq([type : {"offer"}, sdp : Description])]
      /\ closed' \in [Peers -> 0 .. MaxConnections]
  <2>1. <<>> \in Seq([type : {"offer"}, sdp : Description])
    OBVIOUS
  <2>2. signal_queue' \in [Peers -> Seq([type : {"offer"}, sdp : Description])]
    BY <1>1, <2>1 DEF TypeOK
  <2>3. closed' \in [Peers -> 0 .. MaxConnections]
    BY <1>1, BoundsAssumption DEF TypeOK
  <2>. QED
    BY <2>2, <2>3
<1>3. /\ PeerInv(p) /\ made[p] \in Nat /\ signal_queue'[p] = <<>> /\ closed'[p] = made[p]
  BY <1>1 DEF TypeOK
<1>4. CASE ClosesPion(p)
  <2>1. /\ pion' = [pion EXCEPT ![p] = NoConnection]
        /\ described' = [described EXCEPT ![p] = <<>>]
        /\ left_open' = [left_open EXCEPT ![p] = {}]
    BY <1>4 DEF Close
  <2>2. TypeOK'
    <3>1. pion' \in [Peers -> PionConnection] /\ described' \in [Peers -> Seq(Description)]
      BY <2>1, NoConnectionHasType DEF TypeOK
    <3>2. \A q \in Peers : pion'[q].signaling = "have-local-offer" => pion'[q].state = "new"
      BY <2>1, NoConnectionHasType DEF TypeOK
    <3>3. left_open' \in [Peers -> SUBSET (1 .. MaxConnections)]
      BY <2>1 DEF TypeOK
    <3>. QED
      BY <1>1, <1>2, <3>1, <3>2, <3>3 DEF TypeOK
  <2>3. ASSUME NEW q \in Peers PROVE PeerInv(q)'
    <3>1. CASE q # p
      BY <1>1, <2>1, <3>1, UntouchedPeer DEF TypeOK
    <3>2. CASE q = p
      <4>1. pion'[p] = NoConnection /\ described'[p] = <<>>
        BY <2>1 DEF TypeOK
      <4>2. NoConnection' = NoConnection
        BY DEF NoConnection
      <4>. QED
        BY <1>1, <1>3, <3>2, <4>1, <4>2, NoConnectionHasType DEF PeerInv
    <3>. QED
      BY <3>1, <3>2
  <2>. QED
    BY <2>2, <2>3
<1>5. CASE ~ClosesPion(p)
  <2>1. UNCHANGED <<pion, described, left_open>>
    BY <1>5 DEF Close
  <2>2. TypeOK'
    BY <1>1, <1>2, <2>1 DEF TypeOK
  <2>3. ASSUME NEW q \in Peers PROVE PeerInv(q)'
    <3>1. CASE q # p
      BY <1>1, <2>1, <3>1, UntouchedPeer DEF TypeOK
    <3>2. CASE q = p
      <4>1. (closed[p] + 1) .. made[p] \subseteq left_open[p] /\ pionWebrtc[p] = "Invalid"
        BY <1>3, <1>5 DEF ClosesPion, PeerInv, TypeOK
      <4>2. ASSUME NEW d \in Fresh(p) PROVE d.connection \in left_open[p]
        <5>1. d.connection \in Nat /\ d.connection <= made[p] /\ closed[p] \in Nat
          BY DEF Fresh, Description, TypeOK
        <5>2. CASE closed[p] < d.connection
          BY <4>1, <5>1, <5>2, <1>3
        <5>. QED
          BY <5>2 DEF Fresh
      <4>3. Fresh(p) \subseteq Fresh(p)'
        BY <1>1, <2>1, <4>2 DEF Fresh
      <4>4. described'[p] \in Seq(Fresh(p)')
        BY <1>3, <2>1, <4>3 DEF PeerInv
      <4>5. (made[p] + 1) .. made[p] = {}
        BY <1>3
      <4>. QED
        BY <1>1, <1>3, <2>1, <3>2, <4>1, <4>4, <4>5 DEF PeerInv
    <3>. QED
      BY <3>1, <3>2
  <2>. QED
    BY <2>2, <2>3
<1>. QED
  BY <1>4, <1>5

LEMMA OnLocalDescriptionKeepsIInv ==
  ASSUME IInv, NEW p \in Peers, OnLocalDescription(p)
  PROVE  IInv'
<1>. USE DEF IInv
<1>. DEFINE signal == Signal(Head(described[p]))
<1>1. /\ described[p] # <<>>
      /\ described' = [described EXCEPT ![p] = Tail(@)]
      /\ signal_queue' = [signal_queue EXCEPT ![p] = Append(@, signal)]
      /\ UNCHANGED <<pionWebrtc, pion, wire, offers, made, closed, left_open, attempt>>
  BY DEF OnLocalDescription
<1>2. PeerInv(p) /\ Fresh(p) \subseteq Description
  BY DEF Fresh
<1>3. described[p] \in Seq(Fresh(p)) /\ described[p] \in Seq(Description)
  BY <1>2 DEF PeerInv, TypeOK
<1>4. Head(described[p]) \in Fresh(p) /\ Tail(described[p]) \in Seq(Fresh(p))
      /\ Tail(described[p]) \in Seq(Description)
  BY <1>1, <1>3
<1>5. signal \in FreshSignals(p) /\ signal \in [type : {"offer"}, sdp : Description]
  BY <1>2, <1>4 DEF Signal, FreshSignals
<1>. HIDE DEF signal
<1>6. TypeOK'
  <2>1. described' \in [Peers -> Seq(Description)]
    BY <1>1, <1>4 DEF TypeOK
  <2>2. signal_queue' \in [Peers -> Seq([type : {"offer"}, sdp : Description])]
    <3>1. signal_queue[p] \in Seq([type : {"offer"}, sdp : Description])
      BY DEF TypeOK
    <3>2. Append(signal_queue[p], signal) \in Seq([type : {"offer"}, sdp : Description])
      BY <1>5, <3>1
    <3>. QED
      BY <1>1, <3>2 DEF TypeOK
  <2>. QED
    BY <1>1, <2>1, <2>2 DEF TypeOK
<1>7. ASSUME NEW q \in Peers PROVE PeerInv(q)'
  <2>1. CASE q # p
    BY <1>1, <2>1, UntouchedPeer DEF TypeOK
  <2>2. CASE q = p
    <3>1. /\ described'[p] = Tail(described[p])
          /\ signal_queue'[p] = Append(signal_queue[p], signal)
      BY <1>1 DEF TypeOK
    <3>2. Fresh(p)' = Fresh(p) /\ FreshSignals(p)' = FreshSignals(p)
      BY <1>1 DEF Fresh, FreshSignals
    <3>3. signal_queue'[p] \in Seq(FreshSignals(p))
      BY <1>2, <1>5, <3>1 DEF PeerInv
    <3>. QED
      BY <1>1, <1>2, <1>4, <2>2, <3>1, <3>2, <3>3 DEF PeerInv
  <2>. QED
    BY <2>1, <2>2
<1>. QED
  BY <1>6, <1>7

LEMMA ConnectKeepsIInv ==
  ASSUME IInv, NEW p \in Peers, Connect(p)
  PROVE  IInv'
<1>. USE DEF IInv
<1>. DEFINE connecting == [pion[p] EXCEPT !.state = "connecting"]
<1>1. /\ pion[p].state = "new" /\ pion[p].signaling = "stable"
      /\ UNCHANGED <<pionWebrtc, described, signal_queue, wire, offers, made, closed, left_open,
                     attempt>>
  BY DEF Connect
<1>2. pion[p] \in PionConnection /\ pion' = [pion EXCEPT ![p] = connecting]
  BY DEF Connect, TypeOK
<1>3. /\ connecting \in PionConnection
      /\ connecting.state = "connecting" /\ connecting.signaling = "stable"
  BY <1>1, <1>2 DEF PionConnection
<1>. HIDE DEF connecting
<1>4. TypeOK'
  <2>1. pion' \in [Peers -> PionConnection]
    BY <1>2, <1>3 DEF TypeOK
  <2>2. \A q \in Peers : pion'[q].signaling = "have-local-offer" => pion'[q].state = "new"
    BY <1>2, <1>3 DEF TypeOK
  <2>. QED
    BY <1>1, <2>1, <2>2 DEF TypeOK
<1>5. ASSUME NEW q \in Peers PROVE PeerInv(q)'
  <2>1. CASE q # p
    BY <1>1, <1>2, <2>1, UntouchedPeer DEF TypeOK
  <2>2. CASE q = p
    <3>1. pion'[p] = connecting /\ PeerInv(p)
      BY <1>2 DEF TypeOK
    <3>2. Fresh(p)' = Fresh(p) /\ FreshSignals(p)' = FreshSignals(p)
      BY <1>1 DEF Fresh, FreshSignals
    <3>3. pion[p] # NoConnection
      BY <1>1, NoConnectionHasType
    <3>. QED
      BY <1>1, <1>3, <2>2, <3>1, <3>2, <3>3 DEF PeerInv
  <2>. QED
    BY <2>1, <2>2
<1>. QED
  BY <1>4, <1>5

LEMMA StepKeepsIInv == IInv /\ [Next]_vars => IInv'
<1>. SUFFICES ASSUME IInv, [Next]_vars PROVE IInv'
  OBVIOUS
<1>1. CASE Next
  BY <1>1, CreateOfferKeepsIInv, PollKeepsIInv, SetRemoteDescriptionKeepsIInv,
     InitializeKeepsIInv, InitializeFailsKeepsIInv, CloseKeepsIInv, OnLocalDescriptionKeepsIInv, ConnectKeepsIInv DEF Next
<1>2. CASE UNCHANGED vars
  <2>1. TypeOK'
    BY <1>2 DEF IInv, TypeOK, vars
  <2>2. \A p \in Peers : PeerInv(p)'
    BY <1>2, UntouchedPeer DEF IInv, vars
  <2>. QED
    BY <2>1, <2>2 DEF IInv
<1>. QED
  BY <1>1, <1>2

\* The inductive invariant, of which the next two theorems are consequences, holds
\* in every reachable state: of each game, whatever the other does.
THEOREM IInvAlways == Spec => []IInv
  BY InitEstablishesIInv, StepKeepsIInv, PTL DEF Spec

\* The variables have their types, and no offer is open on a connection that is
\* set up already.
THEOREM TypeCorrect == Spec => []TypeOK
<1>1. IInv => TypeOK
  BY DEF IInv
<1>. QED
  BY <1>1, IInvAlways, PTL

\* What a step sends is of a connection its sender has not closed.
LEMMA SentFresh ==
  ASSUME IInv, [Next]_vars, NEW q \in Peers, Len(wire'[q]) > Len(wire[q])
  PROVE  LET sent == wire'[q][Len(wire'[q])].connection
         IN  sent > closed[q] \/ sent \in left_open[q]
<1>1. CASE UNCHANGED wire
  BY <1>1 DEF IInv, TypeOK
<1>2. CASE \E p \in Peers : Poll(p)
  BY <1>2, PollKeepsIInv
<1>3. CASE \E p \in Peers : SetRemoteDescription(p)
  BY <1>3, SetRemoteDescriptionKeepsIInv
<1>. QED
  BY <1>1, <1>2, <1>3
     DEF Next, vars, CreateOffer, Initialize, InitializeFails, Close, OnLocalDescription, Connect

\* No description of a connection that was closed is ever announced, however
\* many connections are made or fail to be, and however their callbacks and
\* polls fall; but for a connection that a failed initialize left to Pion.
THEOREM ClosedIsForgotten == Spec => NothingOfClosed
<1>1. IInv /\ [Next]_vars =>
        [\A p \in Peers :
           Len(wire'[p]) > Len(wire[p]) =>
             LET sent == wire'[p][Len(wire'[p])].connection
             IN  sent > closed[p] \/ sent \in left_open[p]]_vars
  BY SentFresh
<1>. QED
  BY <1>1, IInvAlways, PTL DEF Spec, NothingOfClosed
=============================================================================
