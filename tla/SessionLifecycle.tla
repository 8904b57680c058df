------------------------- MODULE SessionLifecycle -------------------------
(***************************************************************************)
(* What the world server promises about one login session, whatever the    *)
(* threads do: a session is queued by its LOGIN, becomes a member of the   *)
(* world or is refused because its id is taken, and leaves the world once, *)
(* for good, and only after its LOGOUT has been handled.                   *)
(*                                                                         *)
(* SessionWorld implements this specification (server: World.cpp,          *)
(* WorldSession.cpp and the packet handler of WorldSocket.cpp).            *)
(***************************************************************************)

CONSTANT Session     \* sessions: the id, and the how manyth one of that id it is

VARIABLES known,     \* the sessions whose LOGIN has been handled
          queued,    \* those the world has not looked at yet
          members,   \* those in the world
          kicked     \* the sessions whose LOGOUT has been handled

vars == <<known, queued, members, kicked>>

Init == /\ known = {}
        /\ queued = {}
        /\ members = {}
        /\ kicked = {}

Taken(id) == \E t \in members : t[1] = id

Login(s) == /\ s \notin known
            /\ known' = known \cup {s}
            /\ queued' = queued \cup {s}
            /\ UNCHANGED <<members, kicked>>

Join(s) == /\ ~Taken(s[1])
           /\ queued' = queued \ {s}
           /\ members' = members \cup {s}
           /\ UNCHANGED <<known, kicked>>

Refuse(s) == /\ Taken(s[1])
             /\ queued' = queued \ {s}
             /\ UNCHANGED <<known, members, kicked>>

Kick(s) == /\ kicked' = kicked \cup {s}
           /\ UNCHANGED <<known, queued, members>>

Leave(s) == /\ members' = members \ {s}
            /\ UNCHANGED <<known, queued, kicked>>

Next == \/ \E s \in Session : Login(s)
        \/ \E s \in queued : Join(s) \/ Refuse(s)
        \/ \E s \in known \ kicked : Kick(s)
        \/ \E s \in members \cap kicked : Leave(s)

Spec == Init /\ [][Next]_vars
=============================================================================
