--------------------------- MODULE MCSignalQueue ---------------------------
(***************************************************************************)
(* SignalQueue with the number of signals bounded: nothing that would      *)
(* queue one more begins.  A program that has crashed stays so.            *)
(***************************************************************************)
EXTENDS SignalQueue, FiniteSets

Room == queued + Cardinality(Coming) < MaxSignals

MCNext ==
  \/ /\ ~crashed
     /\ \/ \E c \in Callbacks : Room /\ CallbackStart(c)
        \/ \E c \in Callbacks : CallbackLock(c) \/ CallbackPush(c)
        \/ ScriptStep
        \/ CallPoll \/ CallInitialize \/ CallInitializeFails \/ CallClose
        \/ Room /\ CallCreateOffer
  \/ crashed /\ UNCHANGED vars

MCSpec == Init /\ [][MCNext]_vars /\ Fairness
=============================================================================
