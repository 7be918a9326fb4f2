------------------------------ MODULE RPChannel ------------------------------
(***************************************************************************)
(* What one Remote-Port channel promises its callers (spec 4.3 and 5):     *)
(* every bus access takes the next id, waits for the channel, holds it     *)
(* alone while its request is outstanding, receives the answer to its own  *)
(* id, and transactions complete in the order their ids were issued.      *)
(* Sending, waiting and clock reconciliation are not visible at this       *)
(* level: owning the channel is one step, being answered is another.      *)
(***************************************************************************)
EXTENDS Integers

CONSTANTS
    Threads,    \* callers of send_read / send_write
    NoOwner,    \* owner of a free channel
    MaxId       \* bound on the ids the channel hands out

VARIABLES
    phase,      \* per caller: "idle", "queued", "owns" or "done"
    owner,      \* the caller whose transaction is outstanding, or NoOwner
    ticket,     \* per caller: the id of its current transaction
    issued,     \* the next id the channel hands out
    completed,  \* the id of the last transaction answered, -1 at first
    answer      \* per caller: the id of the answer it was handed

avars == <<phase, owner, ticket, issued, completed, answer>>

Ids == 0 .. MaxId

\* Idle -> RequestSent, first half: a caller takes the next id.
Issue(t) ==
    /\ phase[t] = "idle"
    /\ issued < MaxId
    /\ ticket' = [ticket EXCEPT ![t] = issued]
    /\ issued' = issued + 1
    /\ phase' = [phase EXCEPT ![t] = "queued"]
    /\ UNCHANGED <<owner, completed, answer>>

\* ... second half: it gets the channel to itself.
Acquire(t) ==
    /\ phase[t] = "queued"
    /\ owner = NoOwner
    /\ owner' = t
    /\ phase' = [phase EXCEPT ![t] = "owns"]
    /\ UNCHANGED <<ticket, issued, completed, answer>>

\* RequestSent -> Idle: the answer to its own id arrives, after every
\* transaction issued before it, and the channel is free again.
Complete(t) ==
    /\ phase[t] = "owns"
    /\ ticket[t] > completed
    /\ answer' = [answer EXCEPT ![t] = ticket[t]]
    /\ completed' = ticket[t]
    /\ owner' = NoOwner
    /\ phase' = [phase EXCEPT ![t] = "done"]
    /\ UNCHANGED <<ticket, issued>>

\* The caller returns with the result.
Return(t) ==
    /\ phase[t] = "done"
    /\ phase' = [phase EXCEPT ![t] = "idle"]
    /\ UNCHANGED <<owner, ticket, issued, completed, answer>>

AInit ==
    /\ phase = [t \in Threads |-> "idle"]
    /\ owner = NoOwner
    /\ ticket = [t \in Threads |-> 0]
    /\ issued = 0
    /\ completed = -1
    /\ answer = [t \in Threads |-> -1]

ANext == \E t \in Threads : Issue(t) \/ Acquire(t) \/ Complete(t) \/ Return(t)

\* A caller that waits for a free channel gets it, and a caller that owns
\* the channel is answered: no caller of a responsive channel blocks
\* forever. Returning and issuing new accesses are up to the caller.
AFairness == \A t \in Threads : WF_avars(Acquire(t)) /\ WF_avars(Complete(t))

ASpec == AInit /\ [][ANext]_avars /\ AFairness

=============================================================================
