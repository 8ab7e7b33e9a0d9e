------------------------------ MODULE Delivery ------------------------------
(***************************************************************************)
(* What the outbox promises, without leases, attempts and replicas: an     *)
(* accepted event reaches every consumer that wants it at least once, or   *)
(* is given up after a consumer refused it; what is on record as done was  *)
(* received.  Outbox implements it.                                        *)
(***************************************************************************)
CONSTANTS
    Consumers,
    Events,
    Wants(_, _)  \* whether a consumer subscribes to an event

VARIABLES
    accepted,  \* events to be delivered
    received,  \* <<consumer, event>>: delivered at least once
    refused,   \* <<consumer, event>>: a delivery failed
    done,      \* <<consumer, event>>: on record as delivered
    given      \* events given up

vars == <<accepted, received, refused, done, given>>

Init == accepted = {} /\ received = {} /\ refused = {} /\ done = {} /\ given = {}

Accept(e) ==
    /\ e \notin accepted
    /\ accepted' = accepted \cup {e}
    /\ UNCHANGED <<received, refused, done, given>>

\* A consumer gets an event it wants, perhaps again.
Receive(c, e) ==
    /\ e \in accepted /\ Wants(c, e)
    /\ received' = received \cup {<<c, e>>}
    /\ UNCHANGED <<accepted, refused, done, given>>

Refuse(c, e) ==
    /\ e \in accepted /\ Wants(c, e)
    /\ refused' = refused \cup {<<c, e>>}
    /\ UNCHANGED <<accepted, received, done, given>>

Record(c, e) ==
    /\ <<c, e>> \in received
    /\ done' = done \cup {<<c, e>>}
    /\ UNCHANGED <<accepted, received, refused, given>>

GiveUp(e) ==
    /\ \E c \in Consumers : <<c, e>> \in refused
    /\ given' = given \cup {e}
    /\ UNCHANGED <<accepted, received, refused, done>>

Next ==
    \E e \in Events :
        \/ Accept(e) \/ GiveUp(e)
        \/ \E c \in Consumers : Receive(c, e) \/ Refuse(c, e) \/ Record(c, e)

Spec == Init /\ [][Next]_vars
=============================================================================
