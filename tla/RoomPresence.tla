----------------------------- MODULE RoomPresence -----------------------------
(***************************************************************************)
(* Rooms, seats and presence on one instance (server.js, room-recovery.js):*)
(* the sockets of users that connect, identify, join rooms, take seats,    *)
(* drop and come back, several of a user at a time; the host's moderation; *)
(* the two grace timers of a disconnect and the sweep of ghost seats.      *)
(* Handlers are synchronous, except an identify whose token is validated   *)
(* elsewhere.                                                              *)
(***************************************************************************)
EXTENDS Integers, Sequences, FiniteSets

CONSTANTS
    User, Sock, Room,
    Seats,        \* ROOM_SEAT_COUNT
    SocketsOf,    \* the sockets a user opens, in order
    HostOf,       \* host of each room
    Moderated,    \* BOUND: the rooms whose host or moderator acts, on a
                  \* connection of his that is none of Sock
    Lockable,     \* BOUND: the seats he locks
    MaxGen,       \* BOUND: a join rebinds a user up to this generation
    Null          \* no socket, room, seat or pending timer

Seat == 1 .. Seats
Place == [user : User, sock : Sock] \cup {Null}
RoomState == [online : [User -> Sock \cup {Null}], seats : [Seat -> Place],
              locked : SUBSET Seat]

\* A socket is opened by one client, once.
ASSUME RoomAssumption ==
    /\ Seats \in Nat \ {0} /\ MaxGen \in Nat
    /\ HostOf \in [Room -> User]
    /\ SocketsOf \in [User -> Seq(Sock)]
    /\ \A s \in Sock : \E u \in User : \E i \in DOMAIN SocketsOf[u] : SocketsOf[u][i] = s
    /\ \A u, v \in User : \A i \in DOMAIN SocketsOf[u], j \in DOMAIN SocketsOf[v] :
          SocketsOf[u][i] = SocketsOf[v][j] => u = v /\ i = j
    /\ Null \notin User \cup Sock \cup Room
    /\ Null \notin RoomState

VARIABLES
    conn,       \* [sock: "new", "open", "closed"]
    as,         \* socket.userId
    current,    \* socket.currentRoom
    sub,        \* Socket.IO rooms of each socket
    connGen,    \* socket.connGen
    view,       \* CLIENT: the room it shows
    checking,   \* sockets whose identify awaits the token's validation
    primary,    \* socketsByUserId
    gen,        \* userConnGeneration
    pend,       \* pendingDisconnects
    presPend,   \* pendingPresenceDisconnects
    timers,     \* armed grace timers of rooms
    presTimers, \* armed grace timers of presence
    rooms,      \* rooms, Null once closed
    late,       \* HISTORY: users with an identify that ended on a closed socket,
                \* or a room closed during their grace period
    parted      \* HISTORY: users whose current socket closed while another that
                \* speaks for them stayed open, until one of theirs is bound

sockVars == <<conn, as, current, sub, connGen, view, checking>>
presenceVars == <<primary, gen, pend, presPend, timers, presTimers, parted>>
roomVars == <<sockVars, presenceVars, rooms, late>>

\* The user whose client opens a socket.
ClientOf ==
    [s \in Sock |-> CHOOSE u \in User :
                      \E i \in DOMAIN SocketsOf[u] : SocketsOf[u][i] = s]
Older ==
    [s \in Sock |-> LET mine == SocketsOf[ClientOf[s]] IN
        {mine[j] : j \in {j \in DOMAIN mine :
                             \E i \in DOMAIN mine : mine[i] = s /\ j < i}}]
Acts(s) == conn[s] = "open"                           \* any open tab may act
Open(u) == {s \in Sock : conn[s] = "open" /\ ClientOf[s] = u}
Isn(s, r) == r # Null /\ rooms[r] # Null

-----------------------------------------------------------------------------
(* The shared mutations of a room                                          *)

VacatedBy(seats, u) ==
    [n \in Seat |-> IF seats[n] # Null /\ seats[n].user = u THEN Null ELSE seats[n]]

WithoutUser(rm, u) ==
    [rm EXCEPT !.online[u] = Null, !.seats = VacatedBy(rm.seats, u)]

\* A disconnect frees the seat only if that socket took it.
Dropped(rm, u, s) ==
    [rm EXCEPT !.online[u] = Null,
               !.seats = [n \in Seat |->
                   IF rm.seats[n] # Null /\ rm.seats[n].user = u
                        /\ rm.seats[n].sock = s
                   THEN Null ELSE rm.seats[n]]]

\* performRoomJoin: the seat of a user who comes back follows him.
Joined(rm, u, s) ==
    [rm EXCEPT !.online[u] = s,
               !.seats = [n \in Seat |->
                   IF rm.seats[n] # Null /\ rm.seats[n].user = u
                   THEN [user |-> u, sock |-> s] ELSE rm.seats[n]]]

\* bindSocketToUser, of every path that makes a socket a user's current one.
Bind(s, u) ==
    /\ primary' = [primary EXCEPT ![u] = s]
    /\ gen' = [gen EXCEPT ![u] = IF primary[u] = s THEN @ ELSE @ + 1]
    /\ connGen' = [connGen EXCEPT ![s] = gen'[u]]
    /\ parted' = parted \ {u}

-----------------------------------------------------------------------------
(* Connecting                                                              *)

Connect(s) ==
    /\ conn[s] = "new"
    /\ \A o \in Older[s] : conn[o] # "new"
    /\ conn' = [conn EXCEPT ![s] = "open"]
    /\ UNCHANGED <<as, current, sub, connGen, view, checking, presenceVars, rooms, late>>

\* finishIdentify
Identified(s) ==
    LET u == ClientOf[s] IN
    /\ as' = [as EXCEPT ![s] = u]
    /\ presTimers' = presTimers \ {presPend[u]}
    /\ presPend' = [presPend EXCEPT ![u] = Null]
    /\ Bind(s, u)
    /\ UNCHANGED <<conn, current, sub, view, pend, timers, rooms>>

Identify(s) ==
    /\ Acts(s) /\ as[s] = Null
    /\ Identified(s)
    /\ UNCHANGED <<checking, late>>

\* The token is not known here: sessionStore and the database are asked.
IdentifyLater(s) ==
    /\ Acts(s) /\ as[s] = Null
    /\ s \notin checking
    /\ checking' = checking \cup {s}
    /\ UNCHANGED <<conn, as, current, sub, connGen, view, presenceVars, rooms, late>>

\* The answer may find the socket gone; nobody looks.
IdentifyDone(s) ==
    /\ s \in checking
    /\ checking' = checking \ {s}
    /\ Identified(s)
    /\ late' = late \cup (IF conn[s] = "closed" THEN {ClientOf[s]} ELSE {})

-----------------------------------------------------------------------------
(* Rooms                                                                   *)

\* Leaving the old room is the first thing a join does.
LeftOld(s, r) ==
    LET old == current[s] IN
    IF old \notin {Null, r} /\ rooms[old] # Null
    THEN [rooms EXCEPT ![old] = WithoutUser(rooms[old], ClientOf[s])]
    ELSE rooms

\* finishJoin, after performRoomJoin; a repeated join is answered only.
JoinRoom(s, r) ==
    LET u == ClientOf[s]
        left == LeftOld(s, r)
        old == IF current[s] = Null \/ rooms[current[s]] = Null
               THEN {} ELSE {current[s]}
    IN
    /\ Acts(s)
    /\ rooms[r] # Null
    /\ ~(current[s] = r /\ as[s] = u /\ primary[u] = s)
    /\ primary[u] = s \/ gen[u] < MaxGen
    /\ rooms' = [left EXCEPT ![r] = Joined(left[r], u, s)]
    /\ timers' = timers \ {pend[u]}
    /\ pend' = [pend EXCEPT ![u] = Null]
    /\ presTimers' = presTimers \ {presPend[u]}
    /\ presPend' = [presPend EXCEPT ![u] = Null]
    /\ as' = [as EXCEPT ![s] = u]
    /\ current' = [current EXCEPT ![s] = r]
    /\ sub' = [sub EXCEPT ![s] = (@ \ old) \cup {r}]
    /\ view' = [view EXCEPT ![s] = r]
    /\ Bind(s, u)
    /\ UNCHANGED <<conn, checking, late>>

\* A banned user, a wrong password or a closed room: the old room is left all
\* the same.
JoinRefused(s, r) ==
    /\ Acts(s)
    /\ current[s] \notin {Null, r} /\ rooms[current[s]] # Null
    /\ rooms' = LeftOld(s, r)
    /\ sub' = [sub EXCEPT ![s] = @ \ {current[s]}]
    /\ current' = [current EXCEPT ![s] = Null]
    /\ UNCHANGED <<conn, as, connGen, view, checking, presenceVars, late>>

LeaveRoom(s) ==
    LET r == view[s] IN
    /\ Acts(s) /\ r # Null
    /\ view' = [view EXCEPT ![s] = Null]
    /\ IF rooms[r] # Null
       THEN /\ rooms' = [rooms EXCEPT ![r] = WithoutUser(rooms[r], ClientOf[s])]
            /\ sub' = [sub EXCEPT ![s] = @ \ {r}]
            /\ current' = [current EXCEPT ![s] = IF @ = r THEN Null ELSE @]
       ELSE UNCHANGED <<rooms, sub, current>>
    /\ UNCHANGED <<conn, as, connGen, checking, presenceVars, late>>

\* The client learns that it was removed from the room it shows.
Hear(s) ==
    /\ conn[s] = "open"
    /\ view[s] # Null /\ current[s] # view[s]
    /\ view' = [view EXCEPT ![s] = Null]
    /\ UNCHANGED <<conn, as, current, sub, connGen, checking, presenceVars, rooms, late>>

-----------------------------------------------------------------------------
(* Seats                                                                   *)

SetSeats(r, seats) ==
    /\ rooms' = [rooms EXCEPT ![r].seats = seats]
    /\ UNCHANGED <<sockVars, presenceVars, late>>

\* performTakeSeat asks that the seat be free, not that the user be in the
\* room; a locked seat is the host's and the admins'.
TakeSeat(s, n) ==
    LET r == view[s] IN
    /\ Acts(s) /\ as[s] # Null
    /\ Isn(s, r)
    /\ rooms[r].seats[n] = Null
    /\ n \in rooms[r].locked => HostOf[r] = as[s]
    /\ SetSeats(r, [VacatedBy(rooms[r].seats, as[s])
                      EXCEPT ![n] = [user |-> as[s], sock |-> s]])

LeaveSeat(s) ==
    /\ Acts(s) /\ as[s] # Null
    /\ Isn(s, view[s])
    /\ SetSeats(view[s], VacatedBy(rooms[view[s]].seats, as[s]))

-----------------------------------------------------------------------------
(* The host's moderation, wherever he is                                   *)

Hosting(r) == rooms[r] # Null /\ r \in Moderated

LockSeat(r, n) ==
    /\ Hosting(r) /\ n \in Lockable
    /\ rooms' = [rooms EXCEPT ![r].locked =
                   IF n \in @ THEN @ \ {n} ELSE @ \cup {n}]
    /\ UNCHANGED <<sockVars, presenceVars, late>>

MoveSeat(r, from, to) ==
    LET seats == rooms[r].seats IN
    /\ Hosting(r)
    /\ seats[from] # Null /\ seats[to] = Null
    /\ to \notin rooms[r].locked
    /\ SetSeats(r, [seats EXCEPT ![from] = Null, ![to] = seats[from]])

MoveToAudience(r, u) ==
    /\ Hosting(r)
    /\ u # HostOf[r]
    /\ SetSeats(r, VacatedBy(rooms[r].seats, u))

\* Only the user's current socket is taken out of the room, and it loses its
\* currentRoom whatever room that is.
Kick(r, u) ==
    LET s == primary[u] IN
    /\ Hosting(r)
    /\ u # HostOf[r]
    /\ rooms' = [rooms EXCEPT ![r] = WithoutUser(rooms[r], u)]
    /\ IF s # Null /\ conn[s] = "open"
       THEN /\ sub' = [sub EXCEPT ![s] = @ \ {r}]
            /\ current' = [current EXCEPT ![s] = Null]
       ELSE UNCHANGED <<sub, current>>
    /\ UNCHANGED <<conn, as, connGen, view, checking, presenceVars, late>>

\* Whoever is in the grace period of this room stays online for ever.
CloseRoom(r) ==
    LET inside == {s \in Sock : conn[s] = "open" /\ r \in sub[s]} IN
    /\ Hosting(r)
    /\ rooms' = [rooms EXCEPT ![r] = Null]
    /\ sub' = [s \in Sock |-> sub[s] \ (IF s \in inside THEN {r} ELSE {})]
    /\ current' = [s \in Sock |-> IF s \in inside THEN Null ELSE current[s]]
    /\ late' = late \cup {t.user : t \in {t \in timers : t.room = r}}
    /\ UNCHANGED <<conn, as, connGen, view, checking, presenceVars>>

-----------------------------------------------------------------------------
(* Disconnect, its timers and the sweep                                    *)

\* Closing a socket ends its part in every room, and its client forgets the
\* room.
Closed(s) ==
    /\ conn[s] = "open"
    /\ conn' = [conn EXCEPT ![s] = "closed"]
    /\ current' = [current EXCEPT ![s] = Null]
    /\ sub' = [sub EXCEPT ![s] = {}]
    /\ view' = [view EXCEPT ![s] = Null]
    /\ parted' = parted \cup
         {u \in User : primary[u] = s /\ \E o \in Open(u) \ {s} : as[o] # Null}
    /\ UNCHANGED <<as, connGen, checking, primary, gen, rooms, late>>

\* The grace period of a user in a room, or of one outside rooms.
GraceOf(s) == [user |-> as[s], sock |-> s, room |-> current[s], gen |-> connGen[s]]

RoomGrace(s) ==
    /\ timers' = timers \cup {GraceOf(s)}
    /\ pend' = [pend EXCEPT ![as[s]] = GraceOf(s)]
    /\ UNCHANGED <<presPend, presTimers>>

NoGrace(s) == UNCHANGED <<pend, timers, presPend, presTimers>>

PresenceNoGrace(s) == NoGrace(s)

PresenceGrace(s) ==
    /\ presTimers' = presTimers \cup {GraceOf(s)}
    /\ presPend' = [presPend EXCEPT ![as[s]] = GraceOf(s)]
    /\ UNCHANGED <<pend, timers>>

Disconnect(s) ==
    /\ Closed(s)
    /\ CASE as[s] # Null /\ current[s] # Null -> RoomGrace(s)
         [] as[s] # Null /\ current[s] = Null -> PresenceGrace(s)
         [] OTHER -> NoGrace(s)

Stale(t) == primary[t.user] \notin {Null, t.sock} \/ gen[t.user] # t.gen

\* Mutant: the timer only asks whether its own socket is gone.
GraceUnchecked(t) ==
    /\ t \in timers
    /\ timers' = timers \ {t}
    /\ pend' = [pend EXCEPT ![t.user] = Null]
    /\ rooms' = IF rooms[t.room] = Null THEN rooms
                ELSE [rooms EXCEPT ![t.room] = WithoutUser(rooms[t.room], t.user)]
    /\ primary' = IF rooms[t.room] = Null THEN primary
                  ELSE [primary EXCEPT ![t.user] = Null]
    /\ UNCHANGED <<sockVars, gen, presPend, presTimers, late, parted>>

\* In any case the user's pending entry goes, even if a later disconnect
\* wrote it.  A closed room ends nothing: presence stays.
GraceExpires(t) ==
    /\ t \in timers
    /\ timers' = timers \ {t}
    /\ pend' = [pend EXCEPT ![t.user] = Null]
    /\ IF Stale(t) \/ rooms[t.room] = Null
       THEN UNCHANGED <<rooms, primary>>
       ELSE /\ rooms' = [rooms EXCEPT ![t.room] = Dropped(rooms[t.room], t.user, t.sock)]
            /\ primary' = [primary EXCEPT ![t.user] = Null]
    /\ UNCHANGED <<sockVars, gen, presPend, presTimers, late, parted>>

PresenceExpires(t) ==
    /\ t \in presTimers
    /\ presTimers' = presTimers \ {t}
    /\ presPend' = [presPend EXCEPT ![t.user] = Null]
    /\ primary' = IF primary[t.user] = t.sock /\ gen[t.user] = t.gen
                  THEN [primary EXCEPT ![t.user] = Null] ELSE primary
    /\ UNCHANGED <<sockVars, gen, pend, timers, rooms, late, parted>>

\* Mutant: the sweep does not wait for the grace period.
GhostAtOnce(u) == primary[u] = Null \/ conn[primary[u]] = "closed"

\* isGhostSeat
Ghost(u) == primary[u] = Null /\ pend[u] = Null

Sweep ==
    /\ rooms' = [r \in Room |->
          IF rooms[r] = Null THEN Null
          ELSE LET seats == rooms[r].seats
                   gone == {u \in User : /\ Ghost(u)
                                         /\ \E n \in Seat : seats[n] # Null /\ seats[n].user = u}
               IN [rooms[r] EXCEPT
                     !.online = [u \in User |-> IF u \in gone THEN Null ELSE @[u]],
                     !.seats = [n \in Seat |->
                         IF seats[n] # Null /\ seats[n].user \in gone
                         THEN Null ELSE seats[n]]]]
    /\ UNCHANGED <<sockVars, presenceVars, late>>

-----------------------------------------------------------------------------
RoomInit ==
    /\ conn = [s \in Sock |-> "new"]
    /\ as = [s \in Sock |-> Null]
    /\ current = [s \in Sock |-> Null]
    /\ sub = [s \in Sock |-> {}]
    /\ connGen = [s \in Sock |-> 0]
    /\ view = [s \in Sock |-> Null]
    /\ checking = {}
    /\ primary = [u \in User |-> Null]
    /\ gen = [u \in User |-> 0]
    /\ pend = [u \in User |-> Null]
    /\ presPend = [u \in User |-> Null]
    /\ timers = {} /\ presTimers = {}
    /\ rooms = [r \in Room |-> [online |-> [u \in User |-> Null],
                                seats |-> [n \in Seat |-> Null],
                                locked |-> {}]]
    /\ late = {} /\ parted = {}

ClientStep(s) ==
    \/ Connect(s) \/ Identify(s) \/ IdentifyLater(s) \/ IdentifyDone(s)
    \/ \E r \in Room : JoinRoom(s, r) \/ JoinRefused(s, r)
    \/ LeaveRoom(s) \/ Hear(s)
    \/ \E n \in Seat : TakeSeat(s, n)
    \/ LeaveSeat(s) \/ Disconnect(s)

HostStep(r) ==
    \/ \E n \in Seat : LockSeat(r, n) \/ \E m \in Seat : MoveSeat(r, n, m)
    \/ \E u \in User : MoveToAudience(r, u) \/ Kick(r, u)
    \/ CloseRoom(r)

TimerStep ==
    \/ \E t \in timers : GraceExpires(t)
    \/ \E t \in presTimers : PresenceExpires(t)
    \/ Sweep

RoomNext ==
    \/ \E s \in Sock : ClientStep(s)
    \/ \E r \in Room : HostStep(r)
    \/ TimerStep

RoomSpec == RoomInit /\ [][RoomNext]_roomVars

\* setTimeout and setInterval fire; an awaited validation ends.
RoomFairSpec ==
    /\ RoomSpec
    /\ \A s \in Sock :
          /\ WF_roomVars(\E t \in timers : t.sock = s /\ GraceExpires(t))
          /\ WF_roomVars(\E t \in presTimers : t.sock = s /\ PresenceExpires(t))
          /\ WF_roomVars(IdentifyDone(s))
    /\ WF_roomVars(Sweep)

-----------------------------------------------------------------------------
(* Properties                                                              *)

Timer(where) == [user : User, sock : Sock, room : where, gen : Nat]

SeatsOf(u, r) ==
    IF rooms[r] = Null THEN {}
    ELSE {n \in Seat : rooms[r].seats[n] # Null /\ rooms[r].seats[n].user = u}

\* A grace timer frees only seats whose own socket is closed, and takes off
\* the list only users listed with a closed socket: "a stale disconnect must
\* never free a seat that belongs to that newer session" (server.js,
\* handleUserLeaveRoom), on whichever device that session is.  The listing,
\* not the seat, does go from a user whose current device closed while
\* another stayed open, or whose identification came late.
NewSessionIsSpared ==
    [][(\E t \in timers : GraceExpires(t)) =>
         \A r \in Room : rooms[r] # Null =>
            /\ \A n \in Seat :
                  LET place == rooms[r].seats[n] IN
                  place # Null /\ place # rooms'[r].seats[n]
                    => conn[place.sock] = "closed"
            /\ \A u \in User \ (late \cup parted) :
                  rooms[r].online[u] # Null /\ rooms'[r].online[u] = Null
                    => conn[rooms[r].online[u]] = "closed"]_roomVars

\* The sweep of ghost seats takes the seat of nobody whose grace period still
\* counts, and of a connected user only if the current one of his devices
\* closed while another stayed open and none was bound since.  "A seat is
\* genuinely stale only if there's no live socket for that user"
\* (room-recovery.js, isGhostSeat) is not so for that user: he is parted.
OnlyTheGoneAreSwept ==
    [][Sweep => \A u \in User \ late, r \in Room :
          SeatsOf(u, r)' # SeatsOf(u, r) =>
             /\ u \in parted \/ \A s \in Open(u) : as[s] = Null
             /\ \A t \in timers : t.user = u => Stale(t)]_roomVars

\* A user whose sockets are all closed comes back, or is shown offline and
\* sits nowhere.
TheGoneLeave ==
    \A u \in User :
        (Open(u) = {}) ~>
            \/ Open(u) # {} \/ u \in late
            \/ primary[u] = Null /\ \A r \in Room : SeatsOf(u, r) = {}
=============================================================================
