------------------------------- MODULE ChatRoom -------------------------------
(***************************************************************************)
(* What the chat server promises: there is one conversation.  Messages are  *)
(* said one after another, and what a client hears is always the message    *)
(* said last, so that no two clients hear two messages in different orders. *)
(* The messages of one client are said in the order it sent them, until two *)
(* handlers may share a connection.                                         *)
(***************************************************************************)
EXTENDS Integers, Sequences

CONSTANTS Clients, Messages

VARIABLES
    log,    \* the conversation: messages [from, n], n counting the sender's messages
    heard,  \* what was written to each client
    mixed   \* whether two handlers may serve the same connection

roomVars == <<log, heard, mixed>>

RoomInit ==
    /\ log = << >>
    /\ heard = [c \in Clients |-> << >>]
    /\ mixed = FALSE

\* Message m is the next of its sender or, once connections are mixed, a new one.
Say(m) ==
    /\ \A k \in 1 .. Len(log) : log[k].from = m.from =>
            IF mixed THEN log[k].n # m.n ELSE log[k].n < m.n
    /\ log' = Append(log, m)
    /\ UNCHANGED <<heard, mixed>>

\* A client may miss a message and may get it more than once.
Hear(c) ==
    /\ log # << >>
    /\ heard' = [heard EXCEPT ![c] = Append(@, log[Len(log)])]
    /\ UNCHANGED <<log, mixed>>

Mix == mixed' = TRUE /\ UNCHANGED <<log, heard>>

RoomNext ==
    \/ \E m \in Messages : Say(m)
    \/ \E c \in Clients : Hear(c)
    \/ Mix

RoomSpec == RoomInit /\ [][RoomNext]_roomVars
===============================================================================
