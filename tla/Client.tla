-------------------------------- MODULE Client --------------------------------
(***************************************************************************)
(* What the browsers at one room send and are shown, over connections that *)
(* may lose, repeat, delay and reorder: quick chats, which are polled from *)
(* a short history, and moves, which carry the version of the state they   *)
(* were chosen in.  Every request bears an id, by which the store tells a  *)
(* repeated one.                                                           *)
(*                                                                         *)
(* Time is the server's, in steps; a chat arrives within MsgLife of them,  *)
(* other messages at any time.  A request is one action of the store,      *)
(* under its mutex.                                                        *)
(***************************************************************************)
EXTENDS Integers, Sequences, FiniteSets, FiniteSetsExt, SequencesExt

CONSTANTS User,       \* the players
          Page,       \* the browsers that show the chat, at the table or watching
          Id,         \* ids of requests, each made up by one browser
          Cooldown,   \* QuickChatCooldownMS
          BubbleTTL,  \* QuickChatBubbleTTLMS
          Retention,  \* QuickChatRetentionMS
          MsgLife,    \* how long a copy of a chat may be under way
          MaxPolls,   \* bound: polls and answers of one browser under way
          MaxTime,    \* bound: the clock
          MaxVersion, \* bound: StateVersion
          MaxSeatings \* bound: how often a player leaves or comes back

ASSUME ClientAssumption ==
  /\ {BubbleTTL, Cooldown, Retention, MsgLife} \subseteq Nat
  /\ 0 < BubbleTTL /\ BubbleTTL < Cooldown /\ Cooldown < Retention
  /\ MsgLife <= Retention

VARIABLES now,       \* the server's clock
          chat,      \* the room's QuickChats, QuickChatSeen, QuickChatLastSentAt
          said,      \* the request each event came from (history)
          seated,    \* who is a player of the room
          version,   \* Room.StateVersion
          acted,     \* Room.ActionSeen
          moves,     \* the moves carried out, in order (history)
          page,      \* what each browser has been told and has shown
          wire,      \* the messages under way
          unsent,    \* ids not used yet
          seatings   \* a bound

vars == <<now, chat, said, seated, version, acted, moves, page, wire, unsent, seatings>>

Never == 0     \* no time: the clock starts at 1

-----------------------------------------------------------------------------
(* The room's chat. *)

\* Mutants: events, or the ids seen, are kept as long as a bubble is shown.
CleanEventsEarly(c, t) ==
  [c EXCEPT !.events = {e \in @ : e.at >= t - BubbleTTL},
            !.seen   = {s \in @ : s.at >= t - Retention}]
CleanSeenEarly(c, t) ==
  [c EXCEPT !.events = {e \in @ : e.at >= t - Retention},
            !.seen   = {s \in @ : s.at >= t - BubbleTTL}]

\* cleanupQuickChats
Clean(c, t) ==
  [c EXCEPT !.events = {e \in @ : e.at >= t - Retention},
            !.seen   = {s \in @ : s.at >= t - Retention}]

Repeated(c, id) == \E s \in c.seen : s.id = id
CoolingDown(c, u) == c.lastAt[u] # Never /\ now - c.lastAt[u] < Cooldown

Say(c, u, id) ==
  [c EXCEPT !.next   = @ + 1,
            !.events = @ \cup {[id |-> c.next + 1, user |-> u, at |-> now]},
            !.lastAt = [@ EXCEPT ![u] = now],
            !.seen   = @ \cup {[id |-> id, at |-> now]}]

\* ListQuickChats
Latest(c)      == IF c.events = {} THEN 0 ELSE Max({e.id : e \in c.events})
Since(c, last) == {e.id : e \in {f \in c.events : f.id > last}}

-----------------------------------------------------------------------------
Init ==
  /\ now = 1 /\ seated = User /\ version = 1 /\ acted = {} /\ moves = <<>> /\ said = <<>>
  /\ chat = [events |-> {}, seen |-> {}, next |-> 0, lastAt |-> [u \in User |-> Never]]
  /\ page = [p \in Page |-> [last |-> 0, shown |-> {}, heard |-> now]]
  /\ wire = {} /\ unsent = Id /\ seatings = 0

store == <<chat, said, seated, version, acted, moves, seatings>>

\* The browser's requests: sendQuickChat, doAction and loadQuickChats.
SendChat(u, id) ==
  /\ id \in unsent /\ unsent' = unsent \ {id}
  /\ wire' = wire \cup {[kind |-> "chat", user |-> u, id |-> id, at |-> now]}
  /\ UNCHANGED <<now, store, page>>

\* A move names the state it was chosen in; a browser that was shown an older
\* one differs from this one in that its request is slower.
SendMove(u, id) ==
  /\ id \in unsent /\ unsent' = unsent \ {id}
  /\ wire' = wire \cup {[kind |-> "move", user |-> u, id |-> id, version |-> version]}
  /\ UNCHANGED <<now, store, page>>

Poll(p) ==
  /\ Cardinality({m \in wire : m.kind \in {"poll", "events"} /\ m.page = p}) < MaxPolls
  /\ wire' = wire \cup {[kind |-> "poll", page |-> p, since |-> page[p].last]}
  /\ UNCHANGED <<now, store, page, unsent>>

\* A message arrives, and another copy of it may still be under way.
Arrives(m) == wire' \in {wire, wire \ {m}}

\* SendQuickChat
ReceiveChat(m) ==
  /\ m.kind = "chat" /\ Arrives(m)
  /\ LET kept == Clean(chat, now) IN
     IF m.user \notin seated THEN UNCHANGED <<chat, said>>
     ELSE IF Repeated(kept, m.id) \/ CoolingDown(kept, m.user)
     THEN chat' = kept /\ UNCHANGED said
     ELSE chat' = Say(kept, m.user, m.id) /\ said' = Append(said, m.id)
  /\ UNCHANGED <<now, seated, version, acted, moves, page, unsent, seatings>>

\* ListQuickChats, and the answer to the browser
ReceivePoll(m) ==
  /\ m.kind = "poll"
  /\ chat' = Clean(chat, now)
  /\ wire' = (wire \ {m}) \cup
       {[kind |-> "events", page |-> m.page, events |-> Since(chat', m.since),
         latest |-> Latest(chat'), read |-> now]}
  /\ UNCHANGED <<now, said, seated, version, acted, moves, page, unsent, seatings>>

\* loadQuickChats
Show(m) ==
  /\ m.kind = "events" /\ wire' = wire \ {m}
  /\ page' = [page EXCEPT ![m.page] =
       [last  |-> Max({@.last, m.latest}),
        shown |-> @.shown \cup m.events,
        heard |-> Max({@.heard, m.read})]]
  /\ UNCHANGED <<now, store, unsent>>

\* applyAction: the version is compared first, the id second,
\* and a move the hand does not accept changes nothing.
ReceiveMove(m) ==
  /\ m.kind = "move" /\ Arrives(m)
  /\ IF m.user \in seated /\ m.version = version /\ m.id \notin acted
     THEN \/ /\ acted' = acted \cup {m.id} /\ moves' = Append(moves, m)
             /\ version < MaxVersion /\ version' = version + 1
          \/ UNCHANGED <<acted, moves, version>>
     ELSE UNCHANGED <<acted, moves, version>>
  /\ UNCHANGED <<now, chat, said, seated, page, unsent, seatings>>

\* StartGame and NextHand forget the ids of the moves.
Deal ==
  /\ version < MaxVersion /\ version' = version + 1 /\ acted' = {}
  /\ UNCHANGED <<now, chat, said, seated, moves, page, wire, unsent, seatings>>

\* A player leaves the room or comes back; the chat's record of it stays.
LeaveOrJoin(u) ==
  /\ version < MaxVersion /\ version' = version + 1
  /\ seatings < MaxSeatings /\ seatings' = seatings + 1
  /\ seated' = IF u \in seated THEN seated \ {u} ELSE seated \cup {u}
  /\ UNCHANGED <<now, chat, said, acted, moves, page, wire, unsent>>

Lose(m) == wire' = wire \ {m} /\ UNCHANGED <<now, store, page, unsent>>

\* Time passes: old copies of chats are gone, and every browser has been answered
\* within the retention (the page polls each second, the server keeps seven).
Tick ==
  /\ now < MaxTime /\ now' = now + 1
  /\ \A p \in Page : now - page[p].heard < Retention
  /\ wire' = {m \in wire : m.kind = "chat" => now - m.at < MsgLife}
  /\ UNCHANGED <<store, page, unsent>>

Next ==
  \/ \E u \in User, id \in Id : SendChat(u, id) \/ SendMove(u, id)
  \/ \E p \in Page : Poll(p)
  \/ \E m \in wire : ReceiveChat(m) \/ ReceivePoll(m) \/ ReceiveMove(m) \/ Show(m) \/ Lose(m)
  \/ Deal
  \/ \E u \in User : LeaveOrJoin(u)
  \/ Tick

Spec == Init /\ [][Next]_vars

-----------------------------------------------------------------------------
\* A request takes effect at most once, however often and however late its
\* copies arrive, and whoever leaves, comes back or deals in between: the ids
\* of chats outlive the copies, and an accepted move outdates its own version.
TakesEffectOnce ==
  /\ IsInjective(said)
  /\ IsInjective([i \in DOMAIN moves |-> moves[i].id])

\* A browser that is answered in time misses nothing: every event up to the
\* last it knows of has been shown, though answers are lost or overtake each
\* other and the store keeps no event longer than the retention.
NothingMissed == \A p \in Page : 1 .. page[p].last \subseteq page[p].shown
=============================================================================
