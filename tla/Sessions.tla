------------------------------- MODULE Sessions -------------------------------
(***************************************************************************)
(* The users of the server: sessions, the table of who was active when,    *)
(* the seats they hold, and what removes them: logging out, or the loop    *)
(* that looks every minute for users who were idle for an hour.            *)
(*                                                                         *)
(* A request is served in steps, each under the store's mutex, and others  *)
(* run in between: the session is looked up, the user is noted as active,  *)
(* the request is carried out.  A removal takes a step for every room.     *)
(***************************************************************************)
EXTENDS Integers, Sequences, FiniteSets, Functions

CONSTANTS User,        \* user ids, each given out once
          Room,        \* rooms that stay open
          Conn,        \* requests the server handles at a time
          MaxRequests  \* bound: requests admitted

VARIABLES session,     \* "none" before the login, "valid", "expired", "gone"
          lastActive,  \* "none", "recent", or "stale" after an hour
          members,     \* who is in which room
          work,        \* where each request, and the cleanup loop, is
          expired,     \* the idle users the loop has still to remove
          overlapped,  \* users removed while a request of theirs was served (history)
          requests     \* a bound

sessionVars == <<session, lastActive, members, work, expired, overlapped, requests>>

Cleaner == "cleaner"
Worker  == Conn \cup {Cleaner}
Idle    == [at |-> "idle"]

Busy(u)  == \E c \in Conn : work[c] # Idle /\ work[c].user = u
RoomsOf(u) == {r \in Room : <<u, r>> \in members}

\* A request of u that has been let in but not carried out, other than w.
Admitted(u, w) == \E c \in Conn \ {w} : work[c].at \in {"known", "touched"} /\ work[c].user = u
Removing(u)    == \E w \in Worker : work[w].at = "leaving" /\ work[w].user = u

SessionsInit ==
  /\ session = [u \in User |-> "none"] /\ lastActive = [u \in User |-> "none"]
  /\ members = {} /\ work = [w \in Worker |-> Idle] /\ expired = {}
  /\ overlapped = {} /\ requests = 0

-----------------------------------------------------------------------------
CreateSession(u) ==
  /\ session[u] = "none"
  /\ session'    = [session EXCEPT ![u] = "valid"]
  /\ lastActive' = [lastActive EXCEPT ![u] = "recent"]
  /\ UNCHANGED <<members, work, expired, overlapped, requests>>

\* RequireSession, GetUser: any other request is answered "unauthorized".
Admit(c, u, op) ==
  /\ work[c] = Idle /\ session[u] = "valid"
  /\ requests < MaxRequests /\ requests' = requests + 1
  /\ work' = [work EXCEPT ![c] = [at |-> "known", user |-> u, op |-> op]]
  /\ overlapped' = IF Removing(u) THEN overlapped \cup {u} ELSE overlapped
  /\ UNCHANGED <<session, lastActive, members, expired>>

\* RequireSession, TouchUser
Touch(c) ==
  /\ work[c].at = "known"
  /\ work'       = [work EXCEPT ![c].at = "touched"]
  /\ lastActive' = [lastActive EXCEPT ![work[c].user] = "recent"]
  /\ UNCHANGED <<session, members, expired, overlapped, requests>>

Ready(c, op) == work[c].at = "touched" /\ work[c].op = op
Finish(c)    == work' = [work EXCEPT ![c] = Idle]

\* CreateRoom, JoinRoom and SpectateRoom, which never look at the session
\* again, or which the room refuses.
Visit(c) ==
  /\ Ready(c, "visit") /\ Finish(c)
  /\ \/ \E r \in Room : members' = members \cup {<<work[c].user, r>>}
     \/ UNCHANGED members
  /\ UNCHANGED <<session, lastActive, expired, overlapped, requests>>

Leave(c) ==
  /\ Ready(c, "leave") /\ Finish(c)
  /\ \E r \in Room : members' = members \ {<<work[c].user, r>>}
  /\ UNCHANGED <<session, lastActive, expired, overlapped, requests>>

-----------------------------------------------------------------------------
(* RemoveUser. *)

\* Mutant: the first room found is taken for the only one.
RoomsToLeaveFirst(u) == IF RoomsOf(u) = {} THEN {} ELSE {CHOOSE r \in RoomsOf(u) : TRUE}

\* LeaveAllRooms collects the rooms before it leaves the first.
RoomsToLeave(u) == RoomsOf(u)

BeginRemoval(w, u) ==
  /\ work' = [work EXCEPT ![w] = [at |-> "leaving", user |-> u, todo |-> RoomsToLeave(u)]]
  /\ overlapped' = IF Admitted(u, w) THEN overlapped \cup {u} ELSE overlapped

Logout(c) ==
  /\ Ready(c, "logout") /\ BeginRemoval(c, work[c].user)
  /\ UNCHANGED <<session, lastActive, members, expired, requests>>

LeaveOne(w) ==
  /\ work[w].at = "leaving"
  /\ \E r \in work[w].todo :
       /\ members' = members \ {<<work[w].user, r>>}
       /\ work'    = [work EXCEPT ![w].todo = @ \ {r}]
  /\ UNCHANGED <<session, lastActive, expired, overlapped, requests>>

Forget(w) ==
  /\ work[w].at = "leaving" /\ work[w].todo = {}
  /\ session'    = [session EXCEPT ![work[w].user] = "gone"]
  /\ lastActive' = [lastActive EXCEPT ![work[w].user] = "none"]
  /\ work'       = [work EXCEPT ![w] = Idle]
  /\ UNCHANGED <<members, expired, overlapped, requests>>

\* idleCleanupLoop: one tick that finds somebody, and each of its removals.
CleanerWakes ==
  /\ work[Cleaner] = Idle /\ expired = {}
  /\ expired' = {u \in User : lastActive[u] = "stale"} /\ expired' # {}
  /\ UNCHANGED <<session, lastActive, members, work, overlapped, requests>>

CleanerTakes ==
  /\ work[Cleaner] = Idle
  /\ \E u \in expired : expired' = expired \ {u} /\ BeginRemoval(Cleaner, u)
  /\ UNCHANGED <<session, lastActive, members, requests>>

-----------------------------------------------------------------------------
(* Time. *)

\* An hour without a request; none takes that long.
HourPasses(u) ==
  /\ lastActive[u] = "recent" /\ ~Busy(u)
  /\ lastActive' = [lastActive EXCEPT ![u] = "stale"]
  /\ UNCHANGED <<session, members, work, expired, overlapped, requests>>

\* A day after the login, however active the user is.
DayPasses(u) ==
  /\ session[u] = "valid"
  /\ session' = [session EXCEPT ![u] = "expired"]
  /\ UNCHANGED <<lastActive, members, work, expired, overlapped, requests>>

RemovalStep(w) == LeaveOne(w) \/ Forget(w)

SessionsFairness ==
  /\ \A w \in Worker : WF_sessionVars(RemovalStep(w))
  /\ \A c \in Conn : WF_sessionVars(Touch(c)) /\ WF_sessionVars(Visit(c) \/ Leave(c) \/ Logout(c))
  /\ WF_sessionVars(CleanerWakes) /\ WF_sessionVars(CleanerTakes)
  /\ \A u \in User : WF_sessionVars(HourPasses(u))

-----------------------------------------------------------------------------
Gone(u) == session[u] \in {"none", "gone"} /\ lastActive[u] = "none" /\ RoomsOf(u) = {}

\* A user who stops sending requests is removed in the end, from the sessions
\* and from every room.  The one exception is a user whose removal overlapped
\* a request of theirs: the request may be carried out afterwards and seat
\* them again, and unless it was noted as activity after the removal as well,
\* nothing looks at them ever more.
IdleUserLeaves ==
  \A u \in User :
    <>[]~Busy(u) => <>[](Gone(u) \/ (u \in overlapped /\ lastActive[u] = "none"))
=============================================================================
