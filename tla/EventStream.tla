---------------------------- MODULE EventStream ----------------------------
(***************************************************************************)
(* What the native agent promises to the JavaScript listener passed to     *)
(* localConnect(): the messages the monitoring core hands to sendData()    *)
(* form one stream, and the listener is called with the messages of that   *)
(* stream in order, each once, none skipped, until the process ends.       *)
(*                                                                         *)
(* MessageQueue implements this specification.                             *)
(***************************************************************************)
EXTENDS Naturals, Sequences

CONSTANT Message    \* what can be sent; each at most once

VARIABLES
    sent,           \* the stream: every message accepted so far, in order
    received,       \* what the listener has been called with
    open            \* the event loop is alive

vars == <<sent, received, open>>

Init ==
    /\ sent = <<>>
    /\ received = <<>>
    /\ open = TRUE

(* An agent thread gets a message accepted, after every earlier one.       *)
Submit(m) ==
    /\ \A i \in 1..Len(sent) : sent[i] # m
    /\ sent' = Append(sent, m)
    /\ UNCHANGED <<received, open>>

(* The listener is called with the first message it has not seen.  If it   *)
(* throws and nobody handles it, that call is also the last.               *)
Deliver ==
    /\ open
    /\ Len(received) < Len(sent)
    /\ received' = Append(received, sent[Len(received) + 1])
    /\ open' \in BOOLEAN
    /\ UNCHANGED sent

(* The process exits; what was not delivered is lost.                      *)
Close ==
    /\ open
    /\ open' = FALSE
    /\ UNCHANGED <<sent, received>>

Next ==
    \/ \E m \in Message : Submit(m)
    \/ Deliver
    \/ Close

SafeSpec == Init /\ [][Next]_vars

Spec == SafeSpec /\ WF_vars(Deliver)
=============================================================================
