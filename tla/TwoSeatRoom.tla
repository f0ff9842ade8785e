---------------------------- MODULE TwoSeatRoom ----------------------------
(***************************************************************************)
(* What the audio relay promises: rooms of at most two members in which    *)
(* every frame goes, at once and in order, to whoever shares the room with *)
(* the speaker at that moment, and which nobody but the member itself ever *)
(* leaves.  There is no lock, no seat, no cloned sender and no map here.   *)
(***************************************************************************)
EXTENDS Naturals, Sequences, FiniteSets

CONSTANTS Conns, Sessions, MaxFrames

VARIABLES
    state,  \* "out", "in", "deaf" (its socket has ended) or "done"
    room,   \* session -> members
    inbox,  \* frames on their way to each member
    heard,  \* frames each member has got
    said    \* number of frames spoken by each member

vars == <<state, room, inbox, heard, said>>

Frame(c, n) == [from |-> c, n |-> n]

Init ==
    /\ state = [c \in Conns |-> "out"]
    /\ room = [s \in Sessions |-> {}]
    /\ inbox = [c \in Conns |-> <<>>]
    /\ heard = [c \in Conns |-> <<>>]
    /\ said = [c \in Conns |-> 0]

Enter(c, s) ==
    /\ state[c] = "out"
    /\ Cardinality(room[s]) < 2
    /\ room' = [room EXCEPT ![s] = @ \cup {c}]
    /\ state' = [state EXCEPT ![c] = "in"]
    /\ UNCHANGED <<inbox, heard, said>>

\* Only a full room turns anybody away.
TurnedAway(c, s) ==
    /\ state[c] = "out"
    /\ Cardinality(room[s]) = 2
    /\ state' = [state EXCEPT ![c] = "done"]
    /\ UNCHANGED <<room, inbox, heard, said>>

Say(c, s) ==
    /\ state[c] = "in"
    /\ c \in room[s]
    /\ said[c] < MaxFrames
    /\ said' = [said EXCEPT ![c] = @ + 1]
    /\ inbox' = [d \in Conns |->
                    IF d \in room[s] \ {c} /\ state[d] = "in"
                    THEN Append(inbox[d], Frame(c, said[c] + 1))
                    ELSE inbox[d]]
    /\ UNCHANGED <<state, room, heard>>

Hear(c) ==
    /\ state[c] = "in"
    /\ inbox[c] # <<>>
    /\ heard' = [heard EXCEPT ![c] = Append(@, Head(inbox[c]))]
    /\ inbox' = [inbox EXCEPT ![c] = Tail(@)]
    /\ UNCHANGED <<state, room, said>>

GoDeaf(c) ==
    /\ state[c] = "in"
    /\ state' = [state EXCEPT ![c] = "deaf"]
    /\ inbox' = [inbox EXCEPT ![c] = <<>>]
    /\ UNCHANGED <<room, heard, said>>

Exit(c, s) ==
    /\ state[c] = "deaf"
    /\ c \in room[s]
    /\ room' = [room EXCEPT ![s] = @ \ {c}]
    /\ state' = [state EXCEPT ![c] = "done"]
    /\ UNCHANGED <<inbox, heard, said>>

Next ==
    \E c \in Conns :
        \/ Hear(c)
        \/ GoDeaf(c)
        \/ \E s \in Sessions :
              Enter(c, s) \/ TurnedAway(c, s) \/ Say(c, s) \/ Exit(c, s)

Spec == Init /\ [][Next]_vars
=============================================================================
