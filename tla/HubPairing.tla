----------------------------- MODULE HubPairing -----------------------------
(***************************************************************************)
(* How a hub comes to be known, and how it comes to be served:             *)
(* pairing codes, the row a pairing creates and its device token, the      *)
(* exchange of the token for a JWT, unpairing (auth/service.py), the room  *)
(* of a hub (hub/api.py, room/api.py) and the handshake of /ws/hub, which  *)
(* decodes the JWT, then looks the hub up and then its room (voice/ws.py). *)
(*                                                                         *)
(* Every request and every handshake is a task; a step is what happens     *)
(* between two awaits, so a row may change between the look-up of a task   *)
(* and its commit.  A device token is drawn at random for each pairing:    *)
(* it is named after the request that drew it, and so is the row, whose    *)
(* primary key is never used again, nor is that of a room: a room that is  *)
(* made later is one that no row names until then.  The database is the    *)
(* PostgreSQL of the deployment: a statement reads what is committed,      *)
(* hub_id is unique, hubs refer to rooms and chat_sessions, which nothing  *)
(* deletes, to hubs without ON DELETE (so do timers, as long as they are   *)
(* set).  The map from hubs to sockets, which a served socket enters, is   *)
(* in HubConnections.                                                      *)
(***************************************************************************)
EXTENDS Integers, FiniteSets

CONSTANTS
    Codes,       \* the values generate_pairing_code draws from
    Ttl,         \* life of a code, in ticks
    MaxIssues,   \* bound: codes issued
    Hubs,        \* hub ids
    NoHub,       \* none yet
    Rooms,       \* ids of rooms
    NoRoom,      \* room_id NULL
    Pairings,    \* calls of POST /pair, and the tokens and rows they make
    NoToken,     \* no row, no token
    Exchanges,   \* calls of POST /token, and the JWTs they return
    Unpairings,  \* calls of DELETE /hubs/{hub_id}
    Sockets      \* connections to /ws/hub

ASSUME PairingConstants ==
    /\ Ttl \in Nat \ {0}
    /\ MaxIssues \in Nat
    /\ NoHub \notin Hubs
    /\ NoRoom \notin Rooms
    /\ NoToken \notin Pairings

VARIABLES
    stored,   \* codes in PairingCodeStore._codes, those past their time included
    left,     \* ticks until a code's expiry
    issues,   \* ghost: codes issued
    credit,   \* ghost: uses that the issues of a code still allow
    token,    \* the row of each hub, by the token whose hash it has
    room,     \* its room_id
    rooms,    \* the rooms there are
    cited,    \* rows that a chat session refers to
    deleted,  \* ghost: rows that were deleted
    pairing,  \* how far each POST /pair is
    asked,    \* its hub_id
    exchange, \* how far each POST /token is
    shown,    \* the token in it, that of its row
    bearer,   \* the hub in its JWT
    removal,  \* how far each DELETE is
    victim,   \* its row
    socket,   \* how far each connection is
    caller,   \* the hub its JWT names
    greeted,  \* the row and the room it goes on with
    stood     \* ghost: what the hub's row was since the JWT came

codeVars == <<stored, left, issues, credit>>
rowVars == <<token, room, rooms, cited, deleted>>
pairVars == <<pairing, asked>>
exchangeVars == <<exchange, shown, bearer>>
removalVars == <<removal, victim>>
socketVars == <<socket, caller, greeted, stood>>
vars == <<codeVars, rowVars, pairVars, exchangeVars, removalVars, socketVars>>

Tokens == Pairings \cup {NoToken}
RoomIds == Rooms \cup {NoRoom}
Callers == Hubs \cup {NoHub}

TypeOK ==
    /\ stored \in SUBSET Codes
    /\ left \in [Codes -> 0..Ttl]
    /\ issues \in 0..MaxIssues
    /\ credit \in [Codes -> Int]
    /\ token \in [Hubs -> Tokens]
    /\ room \in [Hubs -> RoomIds]
    /\ rooms \in SUBSET Rooms
    /\ cited \in SUBSET Pairings
    /\ deleted \in SUBSET Pairings
    /\ pairing \in [Pairings -> {"ready", "looking", "creating", "reading", "paired", "refused"}]
    /\ asked \in [Pairings -> Callers]
    /\ exchange \in [Exchanges -> {"ready", "committing", "minted", "expired", "refused"}]
    /\ shown \in [Exchanges -> Tokens]
    /\ bearer \in [Exchanges -> Callers]
    /\ removal \in [Unpairings -> {"ready", "deleting", "done", "failed", "cut"}]
    /\ victim \in [Unpairings -> Tokens]
    /\ socket \in [Sockets -> {"unused", "looking", "placing", "greeting", "serving", "closed"}]
    /\ caller \in [Sockets -> Callers]
    /\ greeted \in [Sockets -> Tokens \X RoomIds]
    /\ stood \in [Sockets -> SUBSET (Tokens \X RoomIds)]

Init ==
    /\ stored = {}
    /\ left = [c \in Codes |-> 0]
    /\ issues = 0
    /\ credit = [c \in Codes |-> 0]
    /\ token = [h \in Hubs |-> NoToken]
    /\ room = [h \in Hubs |-> NoRoom]
    /\ rooms = Rooms
    /\ cited = {}
    /\ deleted = {}
    /\ pairing = [p \in Pairings |-> "ready"]
    /\ asked = [p \in Pairings |-> NoHub]
    /\ exchange = [e \in Exchanges |-> "ready"]
    /\ shown = [e \in Exchanges |-> NoToken]
    /\ bearer = [e \in Exchanges |-> NoHub]
    /\ removal = [u \in Unpairings |-> "ready"]
    /\ victim = [u \in Unpairings |-> NoToken]
    /\ socket = [s \in Sockets |-> "unused"]
    /\ caller = [s \in Sockets |-> NoHub]
    /\ greeted = [s \in Sockets |-> <<NoToken, NoRoom>>]
    /\ stood = [s \in Sockets |-> {}]

\* What the row of a hub is, of its token and its room: nothing, or the two of them.
RowOf(key, place) == IF key = NoToken THEN {} ELSE {<<key, place>>}

\* Ghost: a handshake remembers every row that its hub has had since its JWT came.
Witness == stood' = [s \in Sockets |->
    IF socket'[s] \in {"looking", "placing", "greeting"}
    THEN stood[s] \cup RowOf(token'[caller'[s]], room'[caller'[s]])
    ELSE stood[s]]

-----------------------------------------------------------------------------
(* PairingCodeStore                                                        *)

\* time.monotonic moves on; a code whose time is up stays stored until the next
\* issue or consume.
Tick ==
    /\ \E c \in Codes : left[c] > 0
    /\ left' = [c \in Codes |-> IF left[c] > 0 THEN left[c] - 1 ELSE 0]
    /\ credit' = [c \in Codes |-> IF left[c] = 1 THEN 0 ELSE credit[c]]
    /\ UNCHANGED <<stored, issues, rowVars, pairVars, exchangeVars, removalVars, socketVars>>

\* Mutant: no eviction.
Everything == stored
\* _evict_expired: what it leaves.
Unexpired == {c \in stored : left[c] > 0}

\* POST /pairing.  The code may be one that is still stored: its time starts anew.
Issue(c) ==
    /\ issues < MaxIssues
    /\ stored' = Unexpired \cup {c}
    /\ left' = [left EXCEPT ![c] = Ttl]
    /\ issues' = issues + 1
    /\ credit' = [credit EXCEPT ![c] = @ + 1]
    /\ UNCHANGED <<rowVars, pairVars, exchangeVars, removalVars, socketVars>>

-----------------------------------------------------------------------------
(* pair_hub                                                                *)

\* consume: evict, then pop; the look-up of the hub is sent off.
PairBegins(p, c, h) ==
    /\ pairing[p] = "ready"
    /\ asked' = [asked EXCEPT ![p] = h]
    /\ stored' = Unexpired \ {c}
    /\ IF c \in Unexpired
       THEN /\ pairing' = [pairing EXCEPT ![p] = "looking"]
            /\ credit' = [credit EXCEPT ![c] = @ - 1]
       ELSE /\ pairing' = [pairing EXCEPT ![p] = "refused"]
            /\ UNCHANGED credit
    /\ UNCHANGED <<left, issues, rowVars, exchangeVars, removalVars, socketVars>>

\* The look-up answers: the hub id is free, or ConflictError -- the code is gone.
PairLooks(p) ==
    /\ pairing[p] = "looking"
    /\ pairing' = [pairing EXCEPT ![p] =
           IF token[asked[p]] = NoToken THEN "creating" ELSE "refused"]
    /\ UNCHANGED <<codeVars, rowVars, asked, exchangeVars, removalVars, socketVars>>

\* Mutant: the row is written over one that came after the look-up.
Overwrites(h) == TRUE
\* The unique constraint of hub_id.
Insertable(h) == token[h] = NoToken

\* create_hub's commit: the row is there, or IntegrityError.
PairCommits(p) ==
    /\ pairing[p] = "creating"
    /\ IF Insertable(asked[p])
       THEN /\ token' = [token EXCEPT ![asked[p]] = p]
            /\ room' = [room EXCEPT ![asked[p]] = NoRoom]
            /\ pairing' = [pairing EXCEPT ![p] = "reading"]
       ELSE /\ pairing' = [pairing EXCEPT ![p] = "refused"]
            /\ UNCHANGED <<token, room>>
    /\ UNCHANGED <<codeVars, rooms, cited, deleted, asked, exchangeVars, removalVars, socket,
                   caller, greeted>>
    /\ Witness

\* create_hub's refresh: the token is returned, or the row was deleted since and it raises.
PairAnswers(p) ==
    /\ pairing[p] = "reading"
    /\ pairing' = [pairing EXCEPT ![p] = IF token[asked[p]] = p THEN "paired" ELSE "refused"]
    /\ UNCHANGED <<codeVars, rowVars, asked, exchangeVars, removalVars, socketVars>>

-----------------------------------------------------------------------------
(* issue_hub_jwt                                                           *)

\* The look-up by token hash, of a token that a hub was given.
ExchangeLooks(e, p) ==
    /\ exchange[e] = "ready"
    /\ pairing[p] = "paired"
    /\ shown' = [shown EXCEPT ![e] = p]
    /\ IF \E h \in Hubs : token[h] = p
       THEN /\ exchange' = [exchange EXCEPT ![e] = "committing"]
            /\ bearer' = [bearer EXCEPT ![e] = CHOOSE h \in Hubs : token[h] = p]
       ELSE /\ exchange' = [exchange EXCEPT ![e] = "refused"]
            /\ UNCHANGED bearer
    /\ UNCHANGED <<codeVars, rowVars, pairVars, removalVars, socketVars>>

\* last_seen_at is committed and create_jwt runs; the UPDATE of a row that was
\* deleted since raises.
ExchangeCommits(e) ==
    /\ exchange[e] = "committing"
    /\ exchange' = [exchange EXCEPT ![e] =
           IF token[bearer[e]] = shown[e] THEN "minted" ELSE "refused"]
    /\ UNCHANGED <<codeVars, rowVars, pairVars, shown, bearer, removalVars, socketVars>>

\* The exp of a JWT passes.
JwtExpires(e) ==
    /\ exchange[e] = "minted"
    /\ exchange' = [exchange EXCEPT ![e] = "expired"]
    /\ UNCHANGED <<codeVars, rowVars, pairVars, shown, bearer, removalVars, socketVars>>

-----------------------------------------------------------------------------
(* unpair_hub, patch_hub, delete_room                                      *)

UnpairLooks(u, h) ==
    /\ removal[u] = "ready"
    /\ IF token[h] # NoToken
       THEN /\ removal' = [removal EXCEPT ![u] = "deleting"]
            /\ victim' = [victim EXCEPT ![u] = token[h]]
       ELSE /\ removal' = [removal EXCEPT ![u] = "done"]     \* NotFoundError
            /\ UNCHANGED victim
    /\ UNCHANGED <<codeVars, rowVars, pairVars, exchangeVars, socketVars>>

\* delete_hub's commit.  A row that is referred to cannot go: IntegrityError.  One
\* that is gone already is not missed.
UnpairCommits(u) ==
    /\ removal[u] = "deleting"
    /\ IF victim[u] \in cited
       THEN /\ removal' = [removal EXCEPT ![u] = "failed"]
            /\ UNCHANGED <<token, room, deleted>>
       ELSE /\ removal' = [removal EXCEPT ![u] = "done"]
            /\ token' = [h \in Hubs |-> IF token[h] = victim[u] THEN NoToken ELSE token[h]]
            /\ room' = [h \in Hubs |-> IF token[h] = victim[u] THEN NoRoom ELSE room[h]]
            /\ deleted' = deleted \cup {victim[u]}
    /\ UNCHANGED <<codeVars, rooms, cited, pairVars, exchangeVars, victim, socket, caller, greeted>>
    /\ Witness

\* patch_hub's commit with a room; one whose hub or whose room was deleted since its
\* look-up raises and changes nothing.
PatchRoom(h, r) ==
    /\ token[h] # NoToken
    /\ r \in rooms
    /\ room' = [room EXCEPT ![h] = r]
    /\ UNCHANGED <<codeVars, token, rooms, cited, deleted, pairVars, exchangeVars, removalVars,
                   socket, caller, greeted>>
    /\ Witness

\* delete_room's commit; of a room that a hub or a device is in it raises and changes
\* nothing.
DeleteRoom(r) ==
    /\ r \in rooms
    /\ \A h \in Hubs : room[h] # r
    /\ rooms' = rooms \ {r}
    /\ UNCHANGED <<codeVars, token, room, cited, deleted, pairVars, exchangeVars, removalVars,
                   socketVars>>

-----------------------------------------------------------------------------
(* hub_websocket                                                           *)

\* These connections are closed, and what their handlers had is gone.
Closes(gone) ==
    /\ socket' = [s \in Sockets |-> IF s \in gone THEN "closed" ELSE socket[s]]
    /\ caller' = [s \in Sockets |-> IF s \in gone THEN NoHub ELSE caller[s]]
    /\ greeted' = [s \in Sockets |-> IF s \in gone THEN <<NoToken, NoRoom>> ELSE greeted[s]]
    /\ stood' = [s \in Sockets |-> IF s \in gone THEN {} ELSE stood[s]]

\* The auth frame: decode_jwt takes a JWT in its time and refuses another.
Authenticate(s, e) ==
    /\ socket[s] = "unused"
    /\ exchange[e] \in {"minted", "expired"}
    /\ UNCHANGED <<codeVars, rowVars, pairVars, exchangeVars, removalVars>>
    /\ IF exchange[e] = "minted"
       THEN /\ socket' = [socket EXCEPT ![s] = "looking"]
            /\ caller' = [caller EXCEPT ![s] = bearer[e]]
            /\ UNCHANGED greeted
            /\ Witness
       ELSE Closes({s})

\* The look-up of the hub: the connection is revoked, or goes on to auth.ok with the row
\* that was found, by way of the look-up of the room if it names one.
LookUpHub(s) ==
    /\ socket[s] = "looking"
    /\ LET key == token[caller[s]]
           place == room[caller[s]] IN
       IF key = NoToken THEN Closes({s})
       ELSE /\ socket' = [socket EXCEPT ![s] = IF place = NoRoom THEN "greeting" ELSE "placing"]
            /\ greeted' = [greeted EXCEPT ![s] = <<key, place>>]
            /\ UNCHANGED <<caller, stood>>
    /\ UNCHANGED <<codeVars, rowVars, pairVars, exchangeVars, removalVars>>

\* Mutant: of the room that the hub is in by now.
RoomByNow(s) == room[caller[s]]
\* hub.room_id of the row that was found
RoomFound(s) == greeted[s][2]

\* The look-up of its room, whose slug never changes: "room.slug if room else None".
LookUpRoom(s) ==
    /\ socket[s] = "placing"
    /\ socket' = [socket EXCEPT ![s] = "greeting"]
    /\ greeted' = [greeted EXCEPT ![s] =
           <<@[1], IF RoomFound(s) \in rooms THEN RoomFound(s) ELSE NoRoom>>]
    /\ UNCHANGED <<codeVars, rowVars, pairVars, exchangeVars, removalVars, caller, stood>>

\* auth.ok is sent; the connection is registered and gets its VoiceSessionHandler.
Serve(s) ==
    /\ socket[s] = "greeting"
    /\ socket' = [socket EXCEPT ![s] = "serving"]
    /\ UNCHANGED <<codeVars, rowVars, pairVars, exchangeVars, removalVars, caller, greeted, stood>>

\* The first turn opens a chat session, which refers to the row the connection was
\* greeted with; when that row is deleted the INSERT raises, inside the turn.
Cite(s) ==
    /\ socket[s] = "serving"
    /\ \E h \in Hubs : token[h] = greeted[s][1]
    /\ cited' = cited \cup {greeted[s][1]}
    /\ UNCHANGED <<codeVars, token, room, rooms, deleted, pairVars, exchangeVars, removalVars,
                   socketVars>>

\* The peer goes, or a send raises.
Close(s) ==
    /\ socket[s] \in {"looking", "placing", "greeting", "serving"}
    /\ Closes({s})
    /\ UNCHANGED <<codeVars, rowVars, pairVars, exchangeVars, removalVars>>

-----------------------------------------------------------------------------
\* The process stops and starts: codes and tasks are gone, rows and JWTs remain.
Restart ==
    /\ stored' = {}
    /\ left' = [c \in Codes |-> 0]
    /\ credit' = [c \in Codes |-> 0]
    /\ pairing' = [p \in Pairings |->
           IF pairing[p] \in {"looking", "creating", "reading"} THEN "refused" ELSE pairing[p]]
    /\ exchange' = [e \in Exchanges |->
           IF exchange[e] = "committing" THEN "refused" ELSE exchange[e]]
    /\ removal' = [u \in Unpairings |->
           IF removal[u] = "deleting" THEN "cut" ELSE removal[u]]
    /\ Closes({s \in Sockets : socket[s] # "unused"})
    /\ UNCHANGED <<issues, rowVars, asked, shown, bearer, victim>>

Pair(p) ==
    \/ \E c \in Codes, h \in Hubs : PairBegins(p, c, h)
    \/ PairLooks(p) \/ PairCommits(p) \/ PairAnswers(p)

Exchange(e) ==
    \/ \E p \in Pairings : ExchangeLooks(e, p)
    \/ ExchangeCommits(e) \/ JwtExpires(e)

Unpair(u) ==
    \/ \E h \in Hubs : UnpairLooks(u, h)
    \/ UnpairCommits(u)

Connection(s) ==
    \/ \E e \in Exchanges : Authenticate(s, e)
    \/ LookUpHub(s) \/ LookUpRoom(s) \/ Serve(s) \/ Cite(s) \/ Close(s)

Next ==
    \/ Tick
    \/ \E c \in Codes : Issue(c)
    \/ \E p \in Pairings : Pair(p)
    \/ \E e \in Exchanges : Exchange(e)
    \/ \E u \in Unpairings : Unpair(u)
    \/ \E h \in Hubs, r \in Rooms : PatchRoom(h, r)
    \/ \E r \in Rooms : DeleteRoom(r)
    \/ \E s \in Sockets : Connection(s)
    \/ Restart

Spec == Init /\ [][Next]_vars

-----------------------------------------------------------------------------
(* Properties                                                              *)

\* No code is used more often than it was issued, nor after the time of its last
\* issue, although codes past their time stay stored and a draw may hit a code that is
\* still waiting for its hub.
CodesAdmitOnce == \A c \in Codes : credit[c] >= 0

\* A device token that a pairing returned is the one its hub's row has until the row is
\* deleted: two pairings of one hub id that both found it free, each with a code of its
\* own, do not both return a token.
PairedTokensWork == \A p \in Pairings :
    pairing[p] = "paired" /\ p \notin deleted => token[asked[p]] = p

\* The key that a connection is served with was that of its hub's row at a moment after
\* its JWT came, and the room it is told was that row's at the same moment, or it is told
\* none because that room was deleted.  Unpairing, pairing anew, a change of room and the
\* deletion of one, between the two look-ups, auth.ok and register, may make both old; a
\* row without its key, or the key of one row with the room of another, never comes of it.
GreetedByARow == \A s \in Sockets :
    socket[s] \in {"greeting", "serving"} =>
        \E row \in stood[s] :
            /\ row[1] = greeted[s][1]
            /\ greeted[s][2] = row[2] \/ (greeted[s][2] = NoRoom /\ row[2] \notin rooms)

\* "Unpairs the hub (its token is invalid at once)": a removal that found a row and was
\* not cut off leaves no hub with that row.
UnpairRevokes == \A u \in Unpairings :
    removal[u] \in {"done", "failed"} /\ victim[u] # NoToken =>
        \A h \in Hubs : token[h] # victim[u]

-----------------------------------------------------------------------------
(* What the documents say and the code does not do.                        *)

\* design section 11 and voice/ws.py: revoking the token blocks the hub at once.  So no
\* connection is served on a row that is deleted.
RevokedHubsAreBlocked == \A s \in Sockets :
    socket[s] = "serving" => greeted[s][1] \notin deleted
=============================================================================
