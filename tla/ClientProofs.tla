----------------------------- MODULE ClientProofs -----------------------------
(***************************************************************************)
(* Proofs about Client, for any number of players, browsers and requests   *)
(* and without a bound on the clock: a request takes effect at most once,  *)
(* and a browser that is answered in time misses no chat.                  *)
(*                                                                         *)
(* The first rests on a race of ages: a copy of a chat under way is never  *)
(* older than MsgLife, and the store forgets an id only Retention after it *)
(* was said, which was not before the copy was sent.  The second rests on  *)
(* another: an event is forgotten Retention after it was said, and every   *)
(* page has been answered since.                                           *)
(***************************************************************************)
EXTENDS Client, SumFacts, SequenceTheorems

ChatMessage  == [kind : {"chat"}, user : User, id : Id, at : Nat]
MoveMessage  == [kind : {"move"}, user : User, id : Id, version : Nat]
PollMessage  == [kind : {"poll"}, page : Page, since : Nat]
EventsAnswer == [kind : {"events"}, page : Page, events : SUBSET Nat, latest : Nat, read : Nat]

Event == [id : Nat, user : User, at : Nat]
Known == [id : Id, at : Nat]
Chat  == {c \in [events : SUBSET Event, seen : SUBSET Known, next : Nat, lastAt : [User -> Nat]] :
            \A e \in c.events : e.id \in 1 .. c.next}

Requests == {m \in wire : m.kind \in {"chat", "move"}}
Chats    == {m \in wire : m.kind = "chat"}
Moves    == {m \in wire : m.kind = "move"}
Polls    == {m \in wire : m.kind = "poll"}
Answers  == {m \in wire : m.kind = "events"}

TypeOK ==
  /\ now \in Nat /\ version \in Nat
  /\ chat \in Chat
  /\ said \in Seq(Id) /\ moves \in Seq(MoveMessage)
  /\ page \in [Page -> [last : Nat, shown : SUBSET Nat, heard : Nat]]
  /\ wire \subseteq ChatMessage \cup MoveMessage \cup PollMessage \cup EventsAnswer

\* An id names one request, and is used up by it.
IdsNameOne ==
  /\ \A m \in Requests : m.id \notin unsent /\ \A k \in Requests : m.id = k.id => m = k
  /\ \A i \in DOMAIN said : said[i] \notin unsent
  /\ \A i \in DOMAIN moves : moves[i].id \notin unsent

\* The store remembers the id of every chat that was said while a copy of it is
\* under way, and has done so since that copy was sent or later.
Remembered ==
  \A m \in Chats :
    /\ m.at <= now /\ now - m.at <= MsgLife
    /\ \A i \in DOMAIN said : said[i] = m.id => \E s \in chat.seen : s.id = m.id /\ s.at >= m.at

\* A move that was carried out was chosen in a state that is past.
Outdated ==
  \A i \in DOMAIN moves :
    /\ moves[i].version < version
    /\ \A m \in Moves : m.id = moves[i].id => m.version = moves[i].version

Once == IdsNameOne /\ Remembered /\ Outdated /\ TakesEffectOnce

\* Where a page stands, and what the polls and answers of a page would tell it.
Caught(p)  == 1 .. page[p].last \subseteq page[p].shown
Heard(p)   == page[p].heard <= now /\ now - page[p].heard <= Retention
Told(m)    == page[m.page].shown \cup m.events
Ids(c)     == {e.id : e \in c.events}

\* What was said before a page was last answered it has shown, and what the
\* store has forgotten every page has shown, if c is the room's chat.
CompleteFor(c) ==
  /\ \A e \in c.events : e.at <= now
  /\ \A p \in Page : /\ Caught(p) /\ Heard(p)
                     /\ \A e \in c.events : e.at < page[p].heard => e.id \in page[p].shown
                     /\ \A j \in 1 .. c.next : j \in Ids(c) \cup page[p].shown
  /\ \A m \in Polls : 1 .. m.since \subseteq page[m.page].shown
  /\ \A m \in Answers : /\ m.read <= now
                        /\ 1 .. m.latest \subseteq Told(m)
                        /\ \A e \in c.events : e.at < m.read => e.id \in Told(m)

Complete == CompleteFor(chat)

-----------------------------------------------------------------------------
(* The messages and the chat. *)

\* The kind of a message tells its fields.
LEMMA KindsOfMessages ==
  ASSUME TypeOK
  PROVE  /\ Chats \subseteq ChatMessage /\ Moves \subseteq MoveMessage
         /\ Polls \subseteq PollMessage /\ Answers \subseteq EventsAnswer
         /\ Requests = Chats \cup Moves
<1> USE DEF TypeOK
<1>1. \A m \in wire : \/ m \in ChatMessage /\ m.kind = "chat"
                      \/ m \in MoveMessage /\ m.kind = "move"
                      \/ m \in PollMessage /\ m.kind = "poll"
                      \/ m \in EventsAnswer /\ m.kind = "events"
  BY DEF ChatMessage, MoveMessage, PollMessage, EventsAnswer
<1> QED BY <1>1 DEF Chats, Moves, Polls, Answers, Requests

\* Cleaning takes away what is older than the retention, and nothing else.
LEMMA CleanFacts ==
  ASSUME NEW c \in Chat, NEW t \in Nat, NEW k, k = Clean(c, t)
  PROVE  /\ k \in Chat /\ k.next = c.next /\ k.lastAt = c.lastAt
         /\ k.events = {e \in c.events : e.at >= t - Retention}
         /\ k.seen = {s \in c.seen : s.at >= t - Retention}
BY DEF Clean, Chat

\* What is said becomes one more event with the next id, and its id is known.
LEMMA SayFacts ==
  ASSUME NEW c \in Chat, NEW u \in User, NEW id \in Id, now \in Nat, NEW k, k = Say(c, u, id)
  PROVE  /\ k \in Chat /\ k.next = c.next + 1
         /\ k.events = c.events \cup {[id |-> c.next + 1, user |-> u, at |-> now]}
         /\ k.seen = c.seen \cup {[id |-> id, at |-> now]}
<1>1. [id |-> c.next + 1, user |-> u, at |-> now] \in Event /\ [id |-> id, at |-> now] \in Known
  BY DEF Chat, Event, Known
<1>2. [c.lastAt EXCEPT ![u] = now] \in [User -> Nat]
  BY DEF Chat
<1>3. k = [events |-> c.events \cup {[id |-> c.next + 1, user |-> u, at |-> now]},
           seen   |-> c.seen \cup {[id |-> id, at |-> now]},
           next   |-> c.next + 1, lastAt |-> [c.lastAt EXCEPT ![u] = now]]
  BY DEF Say, Chat
<1>4. \A e \in k.events : e.id \in 1 .. k.next
  BY <1>3 DEF Chat
<1> QED BY <1>1, <1>2, <1>3, <1>4 DEF Chat

\* The latest event a poll is told of is one of the events.
LEMMA LatestFacts ==
  ASSUME NEW c \in Chat
  PROVE  Latest(c) \in Nat /\ Latest(c) <= c.next
<1> DEFINE S == {e.id : e \in c.events}
<1>1. c.next \in Nat /\ S \subseteq 1 .. c.next /\ (c.events # {} => S # {})
  BY DEF Chat
<1>2. S \in SUBSET (0 .. c.next)
  BY <1>1
<1>3. CASE c.events = {}
  BY <1>1, <1>3 DEF Latest
<1>4. CASE c.events # {}
  <2>1. Max(S) \in S
    BY <1>1, <1>2, <1>4, MaxOfNaturals
  <2> QED BY <1>1, <1>4, <2>1 DEF Latest
<1> QED BY <1>3, <1>4

\* A chat that arrives is dropped, or said and then known; either way the store
\* may forget what is old.
LEMMA ChatArrives ==
  ASSUME TypeOK, NEW m \in Chats, ReceiveChat(m)
  PROVE  \/ chat' = chat /\ said' = said
         \/ chat' = Clean(chat, now) /\ said' = said
         \/ /\ chat' = Say(Clean(chat, now), m.user, m.id) /\ said' = Append(said, m.id)
            /\ ~Repeated(Clean(chat, now), m.id)
BY DEF ReceiveChat

-----------------------------------------------------------------------------
(* Types. *)

LEMMA StepTypeOK == TypeOK /\ [Next]_vars => TypeOK'
<1> SUFFICES ASSUME TypeOK, [Next]_vars PROVE TypeOK'
  OBVIOUS
<1> USE DEF TypeOK
<1>0. /\ Chats \subseteq ChatMessage /\ Moves \subseteq MoveMessage
      /\ Polls \subseteq PollMessage /\ Answers \subseteq EventsAnswer
  BY KindsOfMessages
<1>1. ASSUME NEW u \in User, NEW id \in Id, SendChat(u, id) PROVE TypeOK'
  <2>1. [kind |-> "chat", user |-> u, id |-> id, at |-> now] \in ChatMessage
    BY DEF ChatMessage
  <2> QED BY <1>1, <2>1 DEF SendChat, store
<1>2. ASSUME NEW u \in User, NEW id \in Id, SendMove(u, id) PROVE TypeOK'
  <2>1. [kind |-> "move", user |-> u, id |-> id, version |-> version] \in MoveMessage
    BY DEF MoveMessage
  <2> QED BY <1>2, <2>1 DEF SendMove, store
<1>3. ASSUME NEW p \in Page, Poll(p) PROVE TypeOK'
  <2>1. [kind |-> "poll", page |-> p, since |-> page[p].last] \in PollMessage
    BY DEF PollMessage
  <2> QED BY <1>3, <2>1 DEF Poll, store
<1>4. ASSUME NEW m \in wire, ReceiveChat(m) PROVE TypeOK'
  <2>1. m \in Chats /\ m \in ChatMessage
    BY <1>0, <1>4 DEF ReceiveChat, Chats
  <2>2. m.user \in User /\ m.id \in Id
    BY <2>1 DEF ChatMessage
  <2>3. Clean(chat, now) \in Chat
    BY CleanFacts
  <2>4. Say(Clean(chat, now), m.user, m.id) \in Chat /\ Append(said, m.id) \in Seq(Id)
    BY <2>2, <2>3, SayFacts
  <2>5. chat' \in Chat /\ said' \in Seq(Id)
    BY <1>4, <2>1, <2>3, <2>4, ChatArrives
  <2> QED BY <1>4, <2>5 DEF ReceiveChat, Arrives
<1>5. ASSUME NEW m \in wire, ReceivePoll(m) PROVE TypeOK'
  <2>1. m \in PollMessage
    BY <1>0, <1>5 DEF ReceivePoll, Polls
  <2>2. chat' \in Chat /\ chat'.next = chat.next
    BY <1>5, CleanFacts DEF ReceivePoll
  <2>3. Since(chat', m.since) \in SUBSET Nat
    BY <2>2 DEF Since, Chat, Event
  <2>4. Latest(chat') \in Nat
    BY <2>2, LatestFacts
  <2>5. now \in Nat /\ m.page \in Page
    BY <2>1 DEF PollMessage
  <2>6. [kind |-> "events", page |-> m.page, events |-> Since(chat', m.since),
         latest |-> Latest(chat'), read |-> now] \in EventsAnswer
    BY <2>3, <2>4, <2>5 DEF EventsAnswer
  <2> QED BY <1>5, <2>2, <2>6 DEF ReceivePoll
<1>6. ASSUME NEW m \in wire, ReceiveMove(m) PROVE TypeOK'
  <2>1. m \in MoveMessage
    BY <1>0, <1>6 DEF ReceiveMove, Moves
  <2>2. wire' \subseteq wire
    BY <1>6 DEF ReceiveMove, Arrives
  <2>3. moves' \in Seq(MoveMessage) /\ version' \in Nat
    <3>1. \/ moves' = moves /\ version' = version
          \/ moves' = Append(moves, m) /\ version' = version + 1
      BY <1>6 DEF ReceiveMove
    <3>2. Append(moves, m) \in Seq(MoveMessage)
      BY <2>1
    <3>3. moves \in Seq(MoveMessage) /\ version \in Nat
      OBVIOUS
    <3> HIDE DEF TypeOK
    <3> QED BY ONLY <3>1, <3>2, <3>3
  <2> QED BY <1>6, <2>2, <2>3 DEF ReceiveMove
<1>7. ASSUME NEW m \in wire, Show(m) PROVE TypeOK'
  <2>1. m \in EventsAnswer
    BY <1>0, <1>7 DEF Show, Answers
  <2>2. m.page \in Page /\ m.events \in SUBSET Nat /\ m.latest \in Nat /\ m.read \in Nat
    BY <2>1 DEF EventsAnswer
  <2>3. \A a, b \in Nat : Max({a, b}) \in Nat
    BY MaxOfPair
  <2>4. page' \in [Page -> [last : Nat, shown : SUBSET Nat, heard : Nat]]
    <3>1. page[m.page].last \in Nat /\ page[m.page].heard \in Nat /\ page[m.page].shown \in SUBSET Nat
      BY <2>2
    <3>2. /\ Max({page[m.page].last, m.latest}) \in Nat
          /\ Max({page[m.page].heard, m.read}) \in Nat
          /\ page[m.page].shown \cup m.events \in SUBSET Nat
      BY <2>2, <2>3, <3>1
    <3> QED BY <1>7, <2>2, <3>2 DEF Show
  <2> QED BY <1>7, <2>4 DEF Show, store
<1>8. ASSUME NEW m \in wire, Lose(m) PROVE TypeOK'
  BY <1>8 DEF Lose, store
<1>9. CASE Deal
  BY <1>9 DEF Deal
<1>10. ASSUME NEW u \in User, LeaveOrJoin(u) PROVE TypeOK'
  BY <1>10 DEF LeaveOrJoin
<1>11. CASE Tick
  BY <1>11 DEF Tick, store
<1>12. CASE UNCHANGED vars
  BY <1>12 DEF vars
<1> QED BY <1>1, <1>2, <1>3, <1>4, <1>5, <1>6, <1>7, <1>8, <1>9, <1>10, <1>11, <1>12 DEF Next

-----------------------------------------------------------------------------
(* A request takes effect at most once. *)

LEMMA InitOnce == Init => TypeOK /\ Once
<1> SUFFICES ASSUME Init PROVE TypeOK /\ Once
  OBVIOUS
<1>1. chat \in Chat
  BY DEF Init, Chat, Event, Known, Never
<1>2. TypeOK
  BY <1>1 DEF Init, TypeOK
<1>3. said = <<>> /\ moves = <<>> /\ wire = {} /\ DOMAIN said = {} /\ DOMAIN moves = {}
  BY DEF Init
<1>4. TakesEffectOnce
  BY <1>3 DEF TakesEffectOnce, IsInjective
<1> QED BY <1>2, <1>3, <1>4
        DEF Once, IdsNameOne, Remembered, Outdated, Requests, Chats, Moves

\* A step that tells the store nothing new, and sends no request.
LEMMA QuietOnce ==
  ASSUME TypeOK, Once, Requests' \subseteq Requests,
         said' = said, moves' = moves, now' = now, unsent' = unsent,
         chat'.seen = chat.seen, version' \in Nat, version <= version'
  PROVE  Once'
<1>1. Chats' \subseteq Chats /\ Moves' \subseteq Moves
  BY DEF Requests, Chats, Moves
<1>2. IdsNameOne' /\ TakesEffectOnce'
  BY DEF Once, IdsNameOne, TakesEffectOnce
<1>3. Remembered'
  BY <1>1 DEF Once, Remembered
<1>4. \A i \in DOMAIN moves : moves[i].version \in Nat
  <2>1. moves \in Seq(MoveMessage)
    BY DEF TypeOK
  <2>2. \A i \in DOMAIN moves : moves[i] \in MoveMessage
    BY <2>1, ElementOfSeq
  <2> QED BY <2>2 DEF MoveMessage
<1>5. Outdated'
  BY <1>1, <1>4 DEF Once, Outdated, TypeOK
<1> QED BY <1>2, <1>3, <1>5 DEF Once

\* Cleaning keeps the id of every chat of which a copy may still arrive.
LEMMA CleanRemembers ==
  ASSUME TypeOK, Once, NEW m \in Chats, NEW i \in DOMAIN said, said[i] = m.id
  PROVE  \E s \in Clean(chat, now).seen : s.id = m.id /\ s.at >= m.at
<1>1. m.at \in Nat /\ now \in Nat /\ chat \in Chat
  BY KindsOfMessages DEF TypeOK, ChatMessage
<1>2. PICK s \in chat.seen : s.id = m.id /\ s.at >= m.at
  BY DEF Once, Remembered
<1>3. s.at \in Nat
  BY <1>1, <1>2 DEF Chat, Known
<1>4. now - m.at <= MsgLife
  BY DEF Once, Remembered
<1>5. s.at >= now - Retention
  BY <1>1, <1>2, <1>3, <1>4, ClientAssumption
<1>6. Clean(chat, now).seen = {e \in chat.seen : e.at >= now - Retention}
  BY <1>1 DEF Clean, Chat
<1> QED BY <1>2, <1>5, <1>6

\* What a poll or a chat that is dropped leaves behind.
LEMMA CleanOnce ==
  ASSUME TypeOK, Once, Requests' \subseteq Requests,
         chat' = Clean(chat, now), said' = said,
         UNCHANGED <<now, moves, version, unsent>>
  PROVE  Once'
<1>1. Chats' \subseteq Chats /\ Moves' \subseteq Moves
  BY DEF Requests, Chats, Moves
<1>2. IdsNameOne' /\ TakesEffectOnce' /\ Outdated'
  BY <1>1 DEF Once, IdsNameOne, TakesEffectOnce, Outdated
<1>3. Remembered'
  BY <1>1, CleanRemembers DEF Once, Remembered
<1> QED BY <1>2, <1>3 DEF Once

LEMMA ChatOnce ==
  ASSUME TypeOK, Once, NEW m \in Chats, ReceiveChat(m)
  PROVE  Once'
<1>1. /\ UNCHANGED <<now, moves, version, unsent>>
      /\ Requests' \subseteq Requests /\ Chats' \subseteq Chats /\ Moves' \subseteq Moves
  BY DEF ReceiveChat, Arrives, Requests, Chats, Moves
<1>2. m \in ChatMessage /\ m \in Requests
  BY KindsOfMessages
<1>3. m.id \in Id /\ m.user \in User /\ now \in Nat /\ chat \in Chat /\ said \in Seq(Id)
  BY <1>2 DEF TypeOK, ChatMessage
<1>4. CASE chat' = chat /\ said' = said
  BY <1>1, <1>4, QuietOnce DEF TypeOK
<1>5. CASE chat' = Clean(chat, now) /\ said' = said
  BY <1>1, <1>5, CleanOnce
<1>6. CASE /\ chat' = Say(Clean(chat, now), m.user, m.id) /\ said' = Append(said, m.id)
           /\ ~Repeated(Clean(chat, now), m.id)
  <2>1. Clean(chat, now) \in Chat
    BY <1>3, CleanFacts
  <2>2. chat'.seen = Clean(chat, now).seen \cup {[id |-> m.id, at |-> now]}
    BY <1>3, <1>6, <2>1, SayFacts
  <2>3. \A i \in DOMAIN said : said[i] # m.id
    BY <1>6, CleanRemembers DEF Repeated
  <2>4. /\ DOMAIN said = 1 .. Len(said) /\ DOMAIN said' = 1 .. Len(said) + 1 /\ Len(said) \in Nat
        /\ said'[Len(said) + 1] = m.id /\ \A i \in 1 .. Len(said) : said'[i] = said[i]
    BY <1>3, <1>6
  <2>5. TakesEffectOnce'
    BY <1>1, <2>3, <2>4 DEF Once, TakesEffectOnce, IsInjective
  <2>6. IdsNameOne'
    BY <1>1, <1>2, <2>4 DEF Once, IdsNameOne
  <2>7. Remembered'
    <3>1. SUFFICES ASSUME NEW k \in Chats', NEW i \in DOMAIN said', said'[i] = k.id
                   PROVE  \E s \in chat'.seen : s.id = k.id /\ s.at >= k.at
      BY <1>1 DEF Once, Remembered
    <3>2. k \in Chats
      BY <1>1
    <3>3. CASE i \in DOMAIN said
      BY <2>2, <2>4, <3>1, <3>2, <3>3, CleanRemembers
    <3>4. CASE i = Len(said) + 1
      <4>1. k.id = m.id /\ k.at <= now
        BY <2>4, <3>1, <3>2, <3>4 DEF Once, Remembered
      <4>2. k.at \in Nat
        BY <3>2, KindsOfMessages DEF ChatMessage
      <4>3. [id |-> m.id, at |-> now] \in chat'.seen
        BY <2>2
      <4> QED BY <1>3, <4>1, <4>2, <4>3
    <3> QED BY <2>4, <3>3, <3>4
  <2> QED BY <1>1, <2>5, <2>6, <2>7 DEF Once, Outdated
<1> QED BY <1>4, <1>5, <1>6, ChatArrives

LEMMA MoveOnce ==
  ASSUME TypeOK, Once, NEW m \in Moves, ReceiveMove(m)
  PROVE  Once'
<1>1. /\ UNCHANGED <<now, chat, said, unsent>>
      /\ Requests' \subseteq Requests /\ Chats' \subseteq Chats /\ Moves' \subseteq Moves
  BY DEF ReceiveMove, Arrives, Requests, Chats, Moves
<1>2. m \in MoveMessage /\ m \in Requests
  BY KindsOfMessages
<1>3. m.id \in Id /\ version \in Nat /\ moves \in Seq(MoveMessage)
  BY <1>2 DEF TypeOK, MoveMessage
<1>4. CASE moves' = moves /\ version' = version
  BY <1>1, <1>3, <1>4, QuietOnce
<1>5. CASE moves' = Append(moves, m) /\ version' = version + 1 /\ m.version = version
  <2>1. /\ DOMAIN moves = 1 .. Len(moves) /\ DOMAIN moves' = 1 .. Len(moves) + 1
        /\ Len(moves) \in Nat
        /\ moves'[Len(moves) + 1] = m /\ \A i \in 1 .. Len(moves) : moves'[i] = moves[i]
    BY <1>2, <1>3, <1>5
  <2>2. \A i \in DOMAIN moves : moves[i].version < version /\ moves[i].version \in Nat
    <3>1. \A i \in DOMAIN moves : moves[i] \in MoveMessage
      BY <1>3, ElementOfSeq
    <3> QED BY <3>1 DEF Once, Outdated, MoveMessage
  <2>3. \A i \in DOMAIN moves : moves[i].id # m.id
    BY <1>3, <1>5, <2>2 DEF Once, Outdated
  <2>4. TakesEffectOnce'
    BY <1>1, <2>1, <2>3 DEF Once, TakesEffectOnce, IsInjective
  <2>5. IdsNameOne'
    BY <1>1, <1>2, <2>1 DEF Once, IdsNameOne
  <2>6. Outdated'
    <3>1. ASSUME NEW i \in DOMAIN moves', NEW k \in Moves', k.id = moves'[i].id
          PROVE  k.version = moves'[i].version
      <4>1. k \in Moves /\ k \in Requests
        BY <1>1, KindsOfMessages
      <4>2. CASE i \in DOMAIN moves
        BY <2>1, <3>1, <4>1, <4>2 DEF Once, Outdated
      <4>3. CASE i = Len(moves) + 1
        BY <1>2, <2>1, <3>1, <4>1, <4>3 DEF Once, IdsNameOne
      <4> QED BY <2>1, <4>2, <4>3
    <3>2. ASSUME NEW i \in DOMAIN moves' PROVE moves'[i].version < version'
      BY <1>3, <1>5, <2>1, <2>2
    <3> QED BY <3>1, <3>2 DEF Outdated
  <2> QED BY <1>1, <2>4, <2>5, <2>6 DEF Once, Remembered
<1>6. \/ moves' = moves /\ version' = version
      \/ moves' = Append(moves, m) /\ version' = version + 1 /\ m.version = version
  BY DEF ReceiveMove
<1> QED BY <1>4, <1>5, <1>6

\* A new request has an id of its own.
LEMMA SendOnce ==
  ASSUME TypeOK, Once, NEW k \in ChatMessage \cup MoveMessage,
         k.id \in unsent, unsent' = unsent \ {k.id}, wire' = wire \cup {k},
         k.kind = "chat" => k.at = now,
         UNCHANGED <<now, chat, said, version, moves>>
  PROVE  Once'
<1>1. Requests' = Requests \cup {k}
  BY DEF Requests, ChatMessage, MoveMessage
<1>2. Chats' = IF k.kind = "chat" THEN Chats \cup {k} ELSE Chats
  BY DEF Chats
<1>3. Moves' = IF k.kind = "move" THEN Moves \cup {k} ELSE Moves
  BY DEF Moves
<1>4. IdsNameOne'
  BY <1>1 DEF Once, IdsNameOne
<1>5. /\ \A i \in DOMAIN said : said[i] # k.id
      /\ \A i \in DOMAIN moves : moves[i].id # k.id
  BY DEF Once, IdsNameOne
<1>6. Remembered'
  BY <1>2, <1>5, ClientAssumption DEF Once, Remembered, TypeOK
<1>7. Outdated'
  BY <1>3, <1>5 DEF Once, Outdated
<1> QED BY <1>4, <1>6, <1>7 DEF Once, TakesEffectOnce

LEMMA StepOnce == TypeOK /\ Once /\ [Next]_vars => Once'
<1> SUFFICES ASSUME TypeOK, Once, [Next]_vars PROVE Once'
  OBVIOUS
<1>0. version \in Nat /\ now \in Nat
  BY DEF TypeOK
<1>1. ASSUME NEW u \in User, NEW id \in Id, SendChat(u, id) PROVE Once'
  <2> DEFINE k == [kind |-> "chat", user |-> u, id |-> id, at |-> now]
  <2>1. k \in ChatMessage /\ k.id = id /\ k.kind = "chat" /\ k.at = now
    BY <1>0 DEF ChatMessage
  <2> HIDE DEF k
  <2>2. /\ id \in unsent /\ unsent' = unsent \ {id} /\ wire' = wire \cup {k}
        /\ UNCHANGED <<now, chat, said, version, moves>>
    BY <1>1 DEF SendChat, store, k
  <2> QED BY <2>1, <2>2, SendOnce
<1>2. ASSUME NEW u \in User, NEW id \in Id, SendMove(u, id) PROVE Once'
  <2> DEFINE k == [kind |-> "move", user |-> u, id |-> id, version |-> version]
  <2>1. k \in MoveMessage /\ k.id = id /\ k.kind = "move"
    BY <1>0 DEF MoveMessage
  <2> HIDE DEF k
  <2>2. /\ id \in unsent /\ unsent' = unsent \ {id} /\ wire' = wire \cup {k}
        /\ UNCHANGED <<now, chat, said, version, moves>>
    BY <1>2 DEF SendMove, store, k
  <2> QED BY <2>1, <2>2, SendOnce
<1>3. ASSUME NEW p \in Page, Poll(p) PROVE Once'
  <2>1. Requests' = Requests
    BY <1>3 DEF Poll, Requests
  <2> QED BY <1>0, <1>3, <2>1, QuietOnce DEF Poll, store
<1>4. ASSUME NEW m \in wire, ReceiveChat(m) PROVE Once'
  BY <1>4, ChatOnce DEF ReceiveChat, Chats
<1>5. ASSUME NEW m \in wire, ReceivePoll(m) PROVE Once'
  <2>1. Requests' \subseteq Requests
    BY <1>5 DEF ReceivePoll, Requests
  <2> QED BY <1>5, <2>1, CleanOnce DEF ReceivePoll
<1>6. ASSUME NEW m \in wire, ReceiveMove(m) PROVE Once'
  BY <1>6, MoveOnce DEF ReceiveMove, Moves
<1>7. ASSUME NEW m \in wire, Show(m) PROVE Once'
  <2>1. Requests' \subseteq Requests
    BY <1>7 DEF Show, Requests
  <2> QED BY <1>0, <1>7, <2>1, QuietOnce DEF Show, store
<1>8. ASSUME NEW m \in wire, Lose(m) PROVE Once'
  <2>1. Requests' \subseteq Requests
    BY <1>8 DEF Lose, Requests
  <2> QED BY <1>0, <1>8, <2>1, QuietOnce DEF Lose, store
<1>9. CASE Deal
  <2>1. Requests' = Requests
    BY <1>9 DEF Deal, Requests
  <2> QED BY <1>0, <1>9, <2>1, QuietOnce DEF Deal
<1>10. ASSUME NEW u \in User, LeaveOrJoin(u) PROVE Once'
  <2>1. Requests' = Requests
    BY <1>10 DEF LeaveOrJoin, Requests
  <2> QED BY <1>0, <1>10, <2>1, QuietOnce DEF LeaveOrJoin
<1>11. CASE Tick
  <2>1. /\ now' = now + 1 /\ UNCHANGED <<chat, said, version, moves, unsent>>
        /\ Requests' \subseteq Requests /\ Chats' \subseteq Chats /\ Moves' \subseteq Moves
        /\ \A m \in Chats' : now - m.at < MsgLife
    BY <1>11 DEF Tick, store, Requests, Chats, Moves
  <2>2. IdsNameOne' /\ Outdated' /\ TakesEffectOnce'
    BY <2>1 DEF Once, IdsNameOne, Outdated, TakesEffectOnce
  <2>3. \A m \in Chats : m.at \in Nat
    BY KindsOfMessages DEF ChatMessage
  <2>4. Remembered'
    BY <1>0, <2>1, <2>3, ClientAssumption DEF Once, Remembered
  <2> QED BY <2>2, <2>4 DEF Once
<1>12. CASE UNCHANGED vars
  <2>1. Requests' = Requests
    BY <1>12 DEF vars, Requests
  <2> QED BY <1>0, <1>12, <2>1, QuietOnce DEF vars
<1> QED BY <1>1, <1>2, <1>3, <1>4, <1>5, <1>6, <1>7, <1>8, <1>9, <1>10, <1>11, <1>12 DEF Next

\* A request takes effect at most once (SendQuickChat's table of request ids,
\* applyAction's expected version), whoever sends, repeats, loses or delays what.
THEOREM RequestsTakeEffectOnce == Spec => []TakesEffectOnce
<1>1. TypeOK /\ Once /\ [Next]_vars => (TypeOK /\ Once)'
  BY StepTypeOK, StepOnce
<1>2. TypeOK /\ Once => TakesEffectOnce
  BY DEF Once
<1> QED BY <1>1, <1>2, InitOnce, PTL DEF Spec

-----------------------------------------------------------------------------
(* A browser that is answered in time misses nothing. *)

LEMMA InitComplete == Init => Complete
<1> SUFFICES ASSUME Init PROVE Complete
  OBVIOUS
<1>1. /\ chat.events = {} /\ chat.next = 0 /\ Polls = {} /\ Answers = {} /\ now = 1
      /\ \A p \in Page : page[p].last = 0 /\ page[p].heard = now
  BY DEF Init, Polls, Answers
<1>2. \A p \in Page : Caught(p) /\ Heard(p)
  BY <1>1, ClientAssumption DEF Caught, Heard
<1> QED BY <1>1, <1>2 DEF Complete, CompleteFor

\* A step that shows nothing, asks nothing and answers nothing.
LEMMA QuietComplete ==
  ASSUME CompleteFor(chat'), Polls' \subseteq Polls, Answers' \subseteq Answers,
         UNCHANGED <<now, page>>
  PROVE  Complete'
<1>1. /\ \A p \in Page : (Caught(p))' = Caught(p) /\ (Heard(p))' = Heard(p)
      /\ \A m \in Answers' : Told(m)' = Told(m)
  BY DEF Caught, Heard, Told
<1> QED BY <1>1 DEF Complete, CompleteFor

\* What is cleaned away every page has shown.
LEMMA CleanComplete ==
  ASSUME TypeOK, NEW c \in Chat, CompleteFor(c)
  PROVE  CompleteFor(Clean(c, now))
<1> DEFINE k == Clean(c, now)
<1>1. now \in Nat /\ page \in [Page -> [last : Nat, shown : SUBSET Nat, heard : Nat]]
  BY DEF TypeOK
<1>2. k.next = c.next /\ k.events = {e \in c.events : e.at >= now - Retention}
  BY <1>1, CleanFacts
<1>3. \A e \in c.events : e.at \in Nat
  BY DEF Chat, Event
<1> HIDE DEF k
<1>4. ASSUME NEW p \in Page, NEW j \in 1 .. k.next, j \notin Ids(k) PROVE j \in page[p].shown
  <2>1. CASE j \in Ids(c)
    <3>1. PICK e \in c.events : e.id = j
      BY <2>1 DEF Ids
    <3>2. ~ (e.at >= now - Retention)
      BY <1>2, <1>4, <3>1 DEF Ids
    <3>3. page[p].heard \in Nat
      BY <1>1
    <3>4. now - page[p].heard <= Retention
      BY DEF CompleteFor, Heard
    <3>5. e.at < page[p].heard
      BY <1>1, <1>3, <3>2, <3>3, <3>4, ClientAssumption
    <3> QED BY <3>1, <3>5 DEF CompleteFor
  <2>2. CASE j \notin Ids(c)
    BY <1>2, <2>2 DEF CompleteFor
  <2> QED BY <2>1, <2>2
<1>5. CompleteFor(k)
  BY <1>2, <1>4 DEF CompleteFor
<1> QED BY <1>5 DEF k

\* A new event is said now: nobody has been answered later.
LEMMA SayComplete ==
  ASSUME TypeOK, NEW c \in Chat, CompleteFor(c), NEW u \in User, NEW id \in Id
  PROVE  CompleteFor(Say(c, u, id))
<1> DEFINE k == Say(c, u, id)
           e == [id |-> c.next + 1, user |-> u, at |-> now]
<1>1. /\ now \in Nat /\ c.next \in Nat
      /\ page \in [Page -> [last : Nat, shown : SUBSET Nat, heard : Nat]]
  BY DEF TypeOK, Chat
<1>2. k.next = c.next + 1 /\ k.events = c.events \cup {e}
  BY <1>1, SayFacts
<1>3. e.id = c.next + 1 /\ e.at = now
  OBVIOUS
<1> HIDE DEF e, k
<1>4. Ids(k) = Ids(c) \cup {c.next + 1}
  BY <1>2, <1>3 DEF Ids
<1>5. \A p \in Page : page[p].heard \in Nat /\ page[p].heard <= now
  BY <1>1 DEF CompleteFor, Heard
<1>6. \A m \in Answers : m.read \in Nat /\ m.read <= now
  BY KindsOfMessages DEF CompleteFor, EventsAnswer
<1>7. \A x \in k.events : x = e \/ x \in c.events
  BY <1>2
<1>8. ASSUME NEW p \in Page
      PROVE  /\ Caught(p) /\ Heard(p)
             /\ \A x \in k.events : x.at < page[p].heard => x.id \in page[p].shown
             /\ \A j \in 1 .. k.next : j \in Ids(k) \cup page[p].shown
  <2>1. \A x \in k.events : x.at < page[p].heard => x.id \in page[p].shown
    BY <1>1, <1>3, <1>5, <1>7 DEF CompleteFor
  <2>2. \A j \in 1 .. k.next : j \in Ids(k) \cup page[p].shown
    BY <1>1, <1>2, <1>4 DEF CompleteFor
  <2> QED BY <2>1, <2>2 DEF CompleteFor
<1>9. \A m \in Answers : \A x \in k.events : x.at < m.read => x.id \in Told(m)
  BY <1>1, <1>3, <1>6, <1>7 DEF CompleteFor
<1>10. \A x \in k.events : x.at <= now
  BY <1>1, <1>3, <1>7 DEF CompleteFor
<1>11. CompleteFor(k)
  BY <1>8, <1>9, <1>10 DEF CompleteFor
<1> QED BY <1>11 DEF k

LEMMA ChatComplete ==
  ASSUME TypeOK, Complete, NEW m \in Chats, ReceiveChat(m)
  PROVE  Complete'
<1>1. UNCHANGED <<now, page>> /\ Polls' \subseteq Polls /\ Answers' \subseteq Answers
  BY DEF ReceiveChat, Arrives, Polls, Answers
<1>2. m.user \in User /\ m.id \in Id /\ chat \in Chat /\ now \in Nat
  BY KindsOfMessages DEF ChatMessage, TypeOK
<1>3. /\ CompleteFor(chat) /\ CompleteFor(Clean(chat, now))
      /\ CompleteFor(Say(Clean(chat, now), m.user, m.id))
  BY <1>2, CleanComplete, CleanFacts, SayComplete DEF Complete
<1>4. CompleteFor(chat')
  BY <1>3, ChatArrives
<1> QED BY <1>1, <1>4, QuietComplete

\* The answer to a poll tells all that is new to its page, and what it does not
\* tell the page has shown.
LEMMA PollComplete ==
  ASSUME TypeOK, Complete, NEW m \in Polls, ReceivePoll(m)
  PROVE  Complete'
<1> DEFINE a == [kind |-> "events", page |-> m.page, events |-> Since(chat', m.since),
                 latest |-> Latest(chat'), read |-> now]
<1>1. /\ m.page \in Page /\ m.since \in Nat /\ chat \in Chat /\ now \in Nat
      /\ page \in [Page -> [last : Nat, shown : SUBSET Nat, heard : Nat]]
  BY KindsOfMessages DEF PollMessage, TypeOK
<1>2. chat' \in Chat /\ CompleteFor(chat')
  BY <1>1, CleanFacts, CleanComplete DEF Complete, ReceivePoll
<1>3. /\ a.kind = "events" /\ a.page = m.page /\ a.events = Since(chat', m.since)
      /\ a.latest = Latest(chat') /\ a.read = now
  OBVIOUS
<1>4. UNCHANGED <<now, page>> /\ wire' = (wire \ {m}) \cup {a}
  BY DEF ReceivePoll
<1> HIDE DEF a
<1>5. Polls' \subseteq Polls /\ Answers' \subseteq Answers \cup {a}
  BY <1>3, <1>4 DEF Polls, Answers
<1>6. \A e \in chat'.events : e.id \in Nat
  BY <1>2 DEF Chat, Event
<1>7. ASSUME NEW j \in Ids(chat') PROVE j \in page[m.page].shown \cup a.events
  <2>1. PICK e \in chat'.events : e.id = j
    BY <1>7 DEF Ids
  <2>2. CASE j > m.since
    BY <1>3, <2>1, <2>2 DEF Since
  <2>3. CASE ~ (j > m.since)
    <3>1. j \in 1 .. m.since
      BY <1>1, <1>2, <1>6, <2>1, <2>3 DEF Chat
    <3> QED BY <1>1, <3>1 DEF Complete, CompleteFor
  <2> QED BY <2>2, <2>3
<1>8. 1 .. a.latest \subseteq page[m.page].shown \cup a.events
  <2>1. SUFFICES ASSUME NEW j \in 1 .. a.latest
                 PROVE  j \in page[m.page].shown \cup a.events
    OBVIOUS
  <2>2. a.latest \in Nat /\ a.latest <= chat'.next /\ chat'.next \in Nat
    BY <1>2, <1>3, LatestFacts DEF Chat
  <2>3. j \in Ids(chat') \cup page[m.page].shown
    <3>1. j \in 1 .. chat'.next
      BY <2>2
    <3> QED BY <1>1, <1>2, <3>1 DEF CompleteFor
  <2> QED BY <1>7, <2>3
<1>9. \A e \in chat'.events : e.id \in page[m.page].shown \cup a.events
  BY <1>7 DEF Ids
<1>10. page'[a.page].shown \cup a.events = page[m.page].shown \cup a.events
  BY <1>3, <1>4
<1>11. \A k \in Answers : Told(k)' = Told(k)
  BY <1>4 DEF Told
<1>12. \A p \in Page : (Caught(p))' = Caught(p) /\ (Heard(p))' = Heard(p)
  BY <1>4 DEF Caught, Heard
<1>13. a.read <= now'
  BY <1>1, <1>3, <1>4
<1>14. \A k \in Answers' : /\ k.read <= now'
                           /\ 1 .. k.latest \subseteq Told(k)'
                           /\ \A e \in chat'.events : e.at < k.read => e.id \in Told(k)'
  <2>1. TAKE k \in Answers'
  <2>2. CASE k = a
    <3>1. Told(k)' = page'[k.page].shown \cup k.events
      BY DEF Told
    <3> QED BY <1>8, <1>9, <1>10, <1>13, <2>2, <3>1
  <2>3. CASE k # a
    BY <1>2, <1>4, <1>5, <1>11, <2>3 DEF CompleteFor
  <2> QED BY <2>2, <2>3
<1> QED BY <1>2, <1>4, <1>5, <1>12, <1>14 DEF Complete, CompleteFor

\* The page learns what an answer tells it, and knows it up to its latest event.
LEMMA ShowComplete ==
  ASSUME TypeOK, Complete, NEW m \in Answers, Show(m)
  PROVE  Complete'
<1> DEFINE q == m.page
<1>1. /\ q \in Page /\ m.events \in SUBSET Nat /\ m.latest \in Nat /\ m.read \in Nat
      /\ page \in [Page -> [last : Nat, shown : SUBSET Nat, heard : Nat]] /\ now \in Nat
  BY KindsOfMessages DEF EventsAnswer, TypeOK
<1>2. page[q].last \in Nat /\ page[q].heard \in Nat
  BY <1>1
<1>3. page'[q] = [last  |-> Max({page[q].last, m.latest}),
                  shown |-> page[q].shown \cup m.events,
                  heard |-> Max({page[q].heard, m.read})]
  BY <1>1 DEF Show
<1>4. /\ page'[q].shown = page[q].shown \cup m.events
      /\ page'[q].last \in {page[q].last, m.latest}
      /\ page'[q].heard = IF page[q].heard >= m.read THEN page[q].heard ELSE m.read
  <2>1. /\ Max({page[q].last, m.latest}) = IF page[q].last >= m.latest THEN page[q].last ELSE m.latest
        /\ Max({page[q].heard, m.read}) = IF page[q].heard >= m.read THEN page[q].heard ELSE m.read
    BY <1>1, <1>2, MaxOfPair
  <2> QED BY <1>3, <2>1
<1>5. \A p \in Page : p # q => page'[p] = page[p]
  BY <1>1 DEF Show
<1>6. UNCHANGED <<now, chat>> /\ wire' = wire \ {m}
  BY DEF Show, store
<1>7. Polls' \subseteq Polls /\ Answers' \subseteq Answers
  BY <1>6 DEF Polls, Answers
<1> HIDE DEF q
<1>8. Told(m) = page[q].shown \cup m.events
  BY DEF Told, q
<1>9. \A p \in Page : page[p].shown \subseteq page'[p].shown
  BY <1>4, <1>5
<1>10. ASSUME NEW p \in Page
       PROVE  /\ (Caught(p))' /\ (Heard(p))'
              /\ \A e \in chat.events : e.at < page'[p].heard => e.id \in page'[p].shown
              /\ \A j \in 1 .. chat.next : j \in Ids(chat) \cup page'[p].shown
  <2>1. /\ Caught(p) /\ Heard(p)
        /\ \A e \in chat.events : e.at < page[p].heard => e.id \in page[p].shown
        /\ \A j \in 1 .. chat.next : j \in Ids(chat) \cup page[p].shown
    BY DEF Complete, CompleteFor
  <2>2. CASE p # q
    BY <1>5, <1>6, <2>1, <2>2 DEF Caught, Heard
  <2>3. CASE p = q
    <3>1. /\ m.read <= now /\ 1 .. m.latest \subseteq page'[q].shown
          /\ \A e \in chat.events : e.at < m.read => e.id \in page'[q].shown
      BY <1>4, <1>8 DEF Complete, CompleteFor
    <3>2. (Caught(p))'
      BY <1>4, <1>9, <2>1, <2>3, <3>1 DEF Caught
    <3>3. (Heard(p))'
      <4>1. page'[p].heard \in {page[p].heard, m.read} /\ now' = now
        BY <1>4, <1>6, <2>3
      <4>2. page'[p].heard >= page[p].heard /\ page'[p].heard <= now
        BY <1>1, <1>2, <1>4, <2>1, <2>3, <3>1 DEF Heard
      <4>3. now - page'[p].heard <= Retention
        BY <1>1, <1>2, <2>1, <2>3, <4>1, <4>2, ClientAssumption DEF Heard
      <4> QED BY <4>1, <4>2, <4>3 DEF Heard
    <3>4. \A e \in chat.events : e.at < page'[p].heard => e.id \in page'[p].shown
      BY <1>4, <1>9, <2>1, <2>3, <3>1
    <3> QED BY <1>9, <2>1, <3>2, <3>3, <3>4
  <2> QED BY <2>2, <2>3
<1>11. \A k \in Polls' : 1 .. k.since \subseteq page'[k.page].shown
  <2>1. \A k \in Polls' : k.page \in Page /\ 1 .. k.since \subseteq page[k.page].shown
    BY <1>7, KindsOfMessages DEF PollMessage, Complete, CompleteFor
  <2> QED BY <1>9, <2>1
<1>12. \A k \in Answers' : Told(k) \subseteq Told(k)'
  <2>1. \A k \in Answers' : k.page \in Page
    BY <1>7, KindsOfMessages DEF EventsAnswer
  <2> QED BY <1>9, <2>1 DEF Told
<1>13. \A k \in Answers' : /\ k.read <= now'
                           /\ 1 .. k.latest \subseteq Told(k)'
                           /\ \A e \in chat'.events : e.at < k.read => e.id \in Told(k)'
  BY <1>6, <1>7, <1>12 DEF Complete, CompleteFor
<1> QED BY <1>6, <1>10, <1>11, <1>13 DEF Complete, CompleteFor

LEMMA StepComplete == TypeOK /\ Complete /\ [Next]_vars => Complete'
<1> SUFFICES ASSUME TypeOK, Complete, [Next]_vars PROVE Complete'
  OBVIOUS
<1>1. ASSUME NEW u \in User, NEW id \in Id, SendChat(u, id) PROVE Complete'
  <2>1. Polls' = Polls /\ Answers' = Answers
    BY <1>1 DEF SendChat, Polls, Answers
  <2> QED BY <1>1, <2>1, QuietComplete DEF SendChat, store, Complete
<1>2. ASSUME NEW u \in User, NEW id \in Id, SendMove(u, id) PROVE Complete'
  <2>1. Polls' = Polls /\ Answers' = Answers
    BY <1>2 DEF SendMove, Polls, Answers
  <2> QED BY <1>2, <2>1, QuietComplete DEF SendMove, store, Complete
<1>3. ASSUME NEW p \in Page, Poll(p) PROVE Complete'
  <2> DEFINE a == [kind |-> "poll", page |-> p, since |-> page[p].last]
  <2>1. a.kind = "poll" /\ a.page = p /\ a.since = page[p].last
    OBVIOUS
  <2>2. UNCHANGED <<now, chat, page>> /\ wire' = wire \cup {a}
    BY <1>3 DEF Poll, store
  <2> HIDE DEF a
  <2>3. Polls' = Polls \cup {a} /\ Answers' = Answers
    BY <2>1, <2>2 DEF Polls, Answers
  <2>4. 1 .. a.since \subseteq page[a.page].shown
    BY <2>1 DEF Complete, CompleteFor, Caught
  <2>5. \A k \in Polls' : 1 .. k.since \subseteq page[k.page].shown
    BY <2>3, <2>4 DEF Complete, CompleteFor
  <2>6. /\ \A x \in Page : (Caught(x))' = Caught(x) /\ (Heard(x))' = Heard(x)
        /\ \A m \in Answers' : Told(m)' = Told(m)
    BY <2>2 DEF Caught, Heard, Told
  <2> QED BY <2>2, <2>3, <2>5, <2>6 DEF Complete, CompleteFor
<1>4. ASSUME NEW m \in wire, ReceiveChat(m) PROVE Complete'
  BY <1>4, ChatComplete DEF ReceiveChat, Chats
<1>5. ASSUME NEW m \in wire, ReceivePoll(m) PROVE Complete'
  BY <1>5, PollComplete DEF ReceivePoll, Polls
<1>6. ASSUME NEW m \in wire, ReceiveMove(m) PROVE Complete'
  <2>1. Polls' \subseteq Polls /\ Answers' \subseteq Answers
    BY <1>6 DEF ReceiveMove, Arrives, Polls, Answers
  <2> QED BY <1>6, <2>1, QuietComplete DEF ReceiveMove, Complete
<1>7. ASSUME NEW m \in wire, Show(m) PROVE Complete'
  BY <1>7, ShowComplete DEF Show, Answers
<1>8. ASSUME NEW m \in wire, Lose(m) PROVE Complete'
  <2>1. Polls' \subseteq Polls /\ Answers' \subseteq Answers
    BY <1>8 DEF Lose, Polls, Answers
  <2> QED BY <1>8, <2>1, QuietComplete DEF Lose, store, Complete
<1>9. CASE Deal
  <2>1. Polls' = Polls /\ Answers' = Answers
    BY <1>9 DEF Deal, Polls, Answers
  <2> QED BY <1>9, <2>1, QuietComplete DEF Deal, Complete
<1>10. ASSUME NEW u \in User, LeaveOrJoin(u) PROVE Complete'
  <2>1. Polls' = Polls /\ Answers' = Answers
    BY <1>10 DEF LeaveOrJoin, Polls, Answers
  <2> QED BY <1>10, <2>1, QuietComplete DEF LeaveOrJoin, Complete
<1>11. CASE Tick
  <2>1. /\ now \in Nat /\ chat \in Chat
        /\ page \in [Page -> [last : Nat, shown : SUBSET Nat, heard : Nat]]
    BY DEF TypeOK
  <2>2. /\ now' = now + 1 /\ UNCHANGED <<chat, page>>
        /\ Polls' \subseteq Polls /\ Answers' \subseteq Answers
        /\ \A p \in Page : now - page[p].heard < Retention
    BY <1>11 DEF Tick, store, Polls, Answers
  <2>3. \A p \in Page : (Caught(p))' = Caught(p)
    BY <2>2 DEF Caught
  <2>4. \A m \in Answers' : Told(m)' = Told(m) /\ m.read \in Nat
    BY <2>2, KindsOfMessages DEF Told, EventsAnswer
  <2>5. ASSUME NEW p \in Page PROVE (Heard(p))'
    <3>1. page[p].heard \in Nat
      BY <2>1
    <3>2. page[p].heard <= now
      BY DEF Complete, CompleteFor, Heard
    <3>3. (now + 1) - page[p].heard <= Retention /\ page[p].heard <= now + 1
      BY <2>1, <2>2, <3>1, <3>2, ClientAssumption
    <3>4. now' = now + 1 /\ page'[p].heard = page[p].heard
      BY <2>2
    <3> QED BY <3>3, <3>4 DEF Heard
  <2>6. \A e \in chat.events : e.at \in Nat
    BY <2>1 DEF Chat, Event
  <2>7. /\ \A e \in chat'.events : e.at <= now'
        /\ \A m \in Answers' : m.read <= now'
    BY <2>1, <2>2, <2>4, <2>6 DEF Complete, CompleteFor
  <2> QED BY <2>2, <2>3, <2>4, <2>5, <2>7 DEF Complete, CompleteFor
<1>12. CASE UNCHANGED vars
  <2>1. Polls' = Polls /\ Answers' = Answers
    BY <1>12 DEF vars, Polls, Answers
  <2> QED BY <1>12, <2>1, QuietComplete DEF vars, Complete
<1> QED BY <1>1, <1>2, <1>3, <1>4, <1>5, <1>6, <1>7, <1>8, <1>9, <1>10, <1>11, <1>12 DEF Next

\* A browser that is answered in time has shown every event up to the last it
\* knows of (ListQuickChats and the page's polling), whatever answers are lost
\* or overtake each other.
THEOREM NothingIsMissed == Spec => []NothingMissed
<1>1. TypeOK /\ Complete /\ [Next]_vars => (TypeOK /\ Complete)'
  BY StepTypeOK, StepComplete
<1>2. Complete => NothingMissed
  BY DEF Complete, CompleteFor, Caught, NothingMissed
<1> QED BY <1>1, <1>2, InitOnce, InitComplete, PTL DEF Spec

=============================================================================
