---------------------------- MODULE ReplyService -----------------------------
(***************************************************************************)
(* What a server promises its clients, without threads, queues, callbacks  *)
(* or shared objects: a request it has received is answered, or dropped    *)
(* for a reason, exactly once.                                             *)
(***************************************************************************)

CONSTANTS Requests,   \* the requests that may arrive
          Malformed   \* those no result can be calculated for

VARIABLES received,   \* requests that have arrived
          replied,    \* requests a reply was sent to
          dropped,    \* requests that will never get one
          abandoned,  \* requests whose client has left
          closing     \* the server was told to stop

vars == <<received, replied, dropped, abandoned, closing>>

Pending == received \ (replied \cup dropped)

Init == /\ received = {} /\ replied = {} /\ dropped = {} /\ abandoned = {}
        /\ closing = FALSE

Receive(id) ==
    /\ id \notin received
    /\ received' = received \cup {id}
    /\ UNCHANGED <<replied, dropped, abandoned, closing>>

\* Only a well-formed request gets a reply, and only one.
ReplyTo(id) ==
    /\ id \in Pending \ Malformed
    /\ replied' = replied \cup {id}
    /\ UNCHANGED <<received, dropped, abandoned, closing>>

\* The only reasons not to answer: the request is malformed or its client
\* has left; or the server is closing.
Drop(ids) ==
    /\ ids # {} /\ ids \subseteq Pending
    /\ closing \/ ids \subseteq Malformed \cup abandoned
    /\ dropped' = dropped \cup ids
    /\ UNCHANGED <<received, replied, abandoned, closing>>

\* All the requests of a client lose their addressee together.
ClientLeaves(ids) ==
    /\ abandoned' = abandoned \cup ids
    /\ UNCHANGED <<received, replied, dropped, closing>>

Close == /\ closing' = TRUE
         /\ UNCHANGED <<received, replied, dropped, abandoned>>

Next == \/ \E id \in Requests : Receive(id) \/ ReplyTo(id)
        \/ \E ids \in SUBSET Requests : Drop(ids) \/ ClientLeaves(ids)
        \/ Close

Spec == Init /\ [][Next]_vars
=============================================================================
