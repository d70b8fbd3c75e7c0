-------------------------- MODULE HubPairing_proofs --------------------------
(***************************************************************************)
(* What holds of HubPairing for any codes, lifetimes, hubs, rooms and      *)
(* requests: its types, that a code admits once for each issue, that a     *)
(* token that was returned works, and that a hub is greeted by a row it    *)
(* has had, of whose room it is not told when that is gone.                *)
(***************************************************************************)
EXTENDS HubPairing, TLAPS

-----------------------------------------------------------------------------
(* Types.                                                                  *)

\* A request that got past its look-up, and a connection, are about a hub and a row.
SubjectsKnown ==
    /\ \A p \in Pairings : pairing[p] # "ready" => asked[p] \in Hubs
    /\ \A e \in Exchanges :
          exchange[e] \in {"committing", "minted", "expired"} => bearer[e] \in Hubs
    /\ \A s \in Sockets :
          socket[s] \in {"looking", "placing", "greeting", "serving"} => caller[s] \in Hubs
    /\ \A u \in Unpairings : removal[u] = "deleting" => victim[u] \in Pairings
    /\ \A s \in Sockets :
          socket[s] \in {"placing", "greeting", "serving"} => greeted[s][1] \in Pairings

Typed == TypeOK /\ SubjectsKnown

LEMMA TypeInit == Init => Typed
  <1> SUFFICES ASSUME Init PROVE Typed
    OBVIOUS
  <1>1. TypeOK
    BY PairingConstants DEF Init, TypeOK, Tokens, RoomIds, Callers
  <1>2. SubjectsKnown
    BY DEF Init, SubjectsKnown
  <1> QED BY <1>1, <1>2 DEF Typed

\* The steps that leave the rows and the connections alone.
LEMMA TypeOfRequests ==
    ASSUME Typed,
           \/ Tick
           \/ \E c \in Codes : Issue(c)
           \/ \E p \in Pairings, c \in Codes, h \in Hubs : PairBegins(p, c, h)
           \/ \E p \in Pairings : PairLooks(p) \/ PairAnswers(p)
           \/ \E e \in Exchanges, p \in Pairings : ExchangeLooks(e, p)
           \/ \E e \in Exchanges : ExchangeCommits(e) \/ JwtExpires(e)
           \/ \E u \in Unpairings, h \in Hubs : UnpairLooks(u, h)
    PROVE  Typed'
  <1> USE DEF Typed, TypeOK, SubjectsKnown, codeVars, rowVars, pairVars, exchangeVars,
              removalVars, socketVars
  <1>1. CASE Tick
    <2>1. left' \in [Codes -> 0..Ttl]
      BY <1>1, PairingConstants DEF Tick
    <2>2. credit' \in [Codes -> Int]
      BY <1>1 DEF Tick
    <2> QED BY <1>1, <2>1, <2>2 DEF Tick
  <1>2. ASSUME NEW c \in Codes, Issue(c)
        PROVE  Typed'
    <2>1. stored' \in SUBSET Codes /\ left' \in [Codes -> 0..Ttl]
      BY <1>2, PairingConstants DEF Issue, Unexpired
    <2>2. issues' \in 0..MaxIssues /\ credit' \in [Codes -> Int]
      BY <1>2, PairingConstants DEF Issue
    <2> QED BY <1>2, <2>1, <2>2 DEF Issue
  <1>3. ASSUME NEW p \in Pairings, NEW c \in Codes, NEW h \in Hubs, PairBegins(p, c, h)
        PROVE  Typed'
    <2>1. stored' \in SUBSET Codes /\ credit' \in [Codes -> Int]
      BY <1>3 DEF PairBegins, Unexpired
    <2>2. pairing' \in [Pairings -> {"ready", "looking", "creating", "reading", "paired", "refused"}]
      <3>1. CASE c \in Unexpired
        BY <1>3, <3>1 DEF PairBegins
      <3>2. CASE c \notin Unexpired
        BY <1>3, <3>2 DEF PairBegins
      <3> QED BY <3>1, <3>2
    <2>3. asked' \in [Pairings -> Callers]
      BY <1>3 DEF PairBegins, Callers
    <2>4. \A q \in Pairings : pairing'[q] # "ready" => asked'[q] \in Hubs
      BY <1>3 DEF PairBegins
    <2> QED BY <1>3, <2>1, <2>2, <2>3, <2>4 DEF PairBegins
  <1>4. ASSUME NEW p \in Pairings, PairLooks(p)
        PROVE  Typed'
    BY <1>4 DEF PairLooks
  <1>5. ASSUME NEW p \in Pairings, PairAnswers(p)
        PROVE  Typed'
    BY <1>5 DEF PairAnswers
  <1>6. ASSUME NEW e \in Exchanges, NEW p \in Pairings, ExchangeLooks(e, p)
        PROVE  Typed'
    <2>1. CASE \E h \in Hubs : token[h] = p
      <3>1. (CHOOSE h \in Hubs : token[h] = p) \in Hubs
        BY <2>1
      <3> QED BY <1>6, <2>1, <3>1 DEF ExchangeLooks, Tokens, Callers
    <2>2. CASE ~\E h \in Hubs : token[h] = p
      BY <1>6, <2>2 DEF ExchangeLooks, Tokens
    <2> QED BY <2>1, <2>2
  <1>7. ASSUME NEW e \in Exchanges, ExchangeCommits(e)
        PROVE  Typed'
    BY <1>7 DEF ExchangeCommits
  <1>8. ASSUME NEW e \in Exchanges, JwtExpires(e)
        PROVE  Typed'
    BY <1>8 DEF JwtExpires
  <1>9. ASSUME NEW u \in Unpairings, NEW h \in Hubs, UnpairLooks(u, h)
        PROVE  Typed'
    <2>1. CASE token[h] # NoToken
      <3>1. token[h] \in Pairings
        BY <2>1 DEF Tokens
      <3>2. /\ removal' = [removal EXCEPT ![u] = "deleting"]
            /\ victim' = [victim EXCEPT ![u] = token[h]]
        BY <1>9, <2>1 DEF UnpairLooks
      <3>3. victim' \in [Unpairings -> Tokens]
        BY <3>1, <3>2 DEF Tokens
      <3>4. \A v \in Unpairings : removal'[v] = "deleting" => victim'[v] \in Pairings
        BY <3>1, <3>2
      <3> QED BY <1>9, <3>2, <3>3, <3>4 DEF UnpairLooks
    <2>2. CASE token[h] = NoToken
      BY <1>9, <2>2 DEF UnpairLooks
    <2> QED BY <2>1, <2>2
  <1> QED BY <1>1, <1>2, <1>3, <1>4, <1>5, <1>6, <1>7, <1>8, <1>9

\* What the ghost of a handshake becomes has its type.
LEMMA TypeOfWitness ==
    ASSUME Witness,
           stood \in [Sockets -> SUBSET (Tokens \X RoomIds)],
           token' \in [Hubs -> Tokens], room' \in [Hubs -> RoomIds],
           \A s \in Sockets :
              socket'[s] \in {"looking", "placing", "greeting"} => caller'[s] \in Hubs
    PROVE  stood' \in [Sockets -> SUBSET (Tokens \X RoomIds)]
  <1>1. ASSUME NEW s \in Sockets, socket'[s] \in {"looking", "placing", "greeting"}
        PROVE  RowOf(token'[caller'[s]], room'[caller'[s]]) \subseteq Tokens \X RoomIds
    BY <1>1 DEF RowOf
  <1> QED BY <1>1 DEF Witness

\* What closing leaves of the connections has its type.
LEMMA TypeOfClosed ==
    ASSUME Typed, NEW gone, Closes(gone)
    PROVE  /\ socket' \in [Sockets -> {"unused", "looking", "placing", "greeting", "serving", "closed"}]
           /\ caller' \in [Sockets -> Callers]
           /\ greeted' \in [Sockets -> Tokens \X RoomIds]
           /\ stood' \in [Sockets -> SUBSET (Tokens \X RoomIds)]
           /\ \A s \in Sockets :
                 socket'[s] # "closed" =>
                    /\ socket'[s] = socket[s] /\ caller'[s] = caller[s]
                    /\ greeted'[s] = greeted[s] /\ stood'[s] = stood[s]
  <1>1. NoHub \in Callers /\ <<NoToken, NoRoom>> \in Tokens \X RoomIds
    BY DEF Callers, Tokens, RoomIds
  <1> QED BY <1>1 DEF Closes, Typed, TypeOK

\* Closing, of which nobody is any longer the subject.
LEMMA TypeWhenClosing ==
    ASSUME Typed, NEW gone, Closes(gone), UNCHANGED rowVars,
           UNCHANGED <<codeVars, pairVars, exchangeVars, removalVars>>
    PROVE  Typed'
  <1>1. TypeOK'
    BY TypeOfClosed DEF Typed, TypeOK, codeVars, rowVars, pairVars, exchangeVars, removalVars
  <1>2. SubjectsKnown'
    BY TypeOfClosed DEF Typed, SubjectsKnown, pairVars, exchangeVars, removalVars
  <1> QED BY <1>1, <1>2 DEF Typed

\* The steps that write rows, and those of the connections.
LEMMA TypeOfRowsAndSockets ==
    ASSUME Typed,
           \/ \E p \in Pairings : PairCommits(p)
           \/ \E u \in Unpairings : UnpairCommits(u)
           \/ \E h \in Hubs, r \in Rooms : PatchRoom(h, r)
           \/ \E r \in Rooms : DeleteRoom(r)
           \/ \E s \in Sockets, e \in Exchanges : Authenticate(s, e)
           \/ \E s \in Sockets : LookUpHub(s) \/ LookUpRoom(s) \/ Serve(s) \/ Cite(s) \/ Close(s)
           \/ Restart
    PROVE  Typed'
  <1> USE DEF Typed, TypeOK, SubjectsKnown, codeVars, rowVars, pairVars, exchangeVars,
              removalVars, socketVars
  <1>1. ASSUME NEW p \in Pairings, PairCommits(p)
        PROVE  Typed'
    <2>1. token' \in [Hubs -> Tokens] /\ room' \in [Hubs -> RoomIds]
      <3>1. p \in Tokens /\ NoRoom \in RoomIds
        BY DEF Tokens, RoomIds
      <3>2. CASE Insertable(asked[p])
        BY <1>1, <3>1, <3>2 DEF PairCommits
      <3>3. CASE ~Insertable(asked[p])
        BY <1>1, <3>3 DEF PairCommits
      <3> QED BY <3>2, <3>3
    <2>2. stood' \in [Sockets -> SUBSET (Tokens \X RoomIds)]
      BY <1>1, <2>1, TypeOfWitness DEF PairCommits
    <2> QED BY <1>1, <2>1, <2>2 DEF PairCommits
  <1>2. ASSUME NEW u \in Unpairings, UnpairCommits(u)
        PROVE  Typed'
    <2>1. token' \in [Hubs -> Tokens] /\ room' \in [Hubs -> RoomIds]
      BY <1>2 DEF UnpairCommits, Tokens, RoomIds
    <2>2. stood' \in [Sockets -> SUBSET (Tokens \X RoomIds)]
      BY <1>2, <2>1, TypeOfWitness DEF UnpairCommits
    <2>3. deleted' \in SUBSET Pairings
      BY <1>2 DEF UnpairCommits
    <2> QED BY <1>2, <2>1, <2>2, <2>3 DEF UnpairCommits
  <1>3. ASSUME NEW h \in Hubs, NEW r \in Rooms, PatchRoom(h, r)
        PROVE  Typed'
    <2>1. room' \in [Hubs -> RoomIds]
      BY <1>3 DEF PatchRoom, RoomIds
    <2>2. stood' \in [Sockets -> SUBSET (Tokens \X RoomIds)]
      BY <1>3, <2>1, TypeOfWitness DEF PatchRoom
    <2> QED BY <1>3, <2>1, <2>2 DEF PatchRoom
  <1>4. ASSUME NEW s \in Sockets, NEW e \in Exchanges, Authenticate(s, e)
        PROVE  Typed'
    <2>1. CASE exchange[e] = "minted"
      <3>1. caller' \in [Sockets -> Callers] /\ greeted' = greeted
        BY <1>4, <2>1 DEF Authenticate, Callers
      <3>2. socket' \in [Sockets -> {"unused", "looking", "placing", "greeting", "serving", "closed"}]
        BY <1>4, <2>1 DEF Authenticate
      <3>3. \A t \in Sockets : socket'[t] \in {"looking", "placing", "greeting", "serving"}
                                  => caller'[t] \in Hubs
        BY <1>4, <2>1 DEF Authenticate
      <3>4. stood' \in [Sockets -> SUBSET (Tokens \X RoomIds)]
        BY <1>4, <2>1, <3>3, TypeOfWitness DEF Authenticate
      <3>5. \A t \in Sockets : socket'[t] \in {"placing", "greeting", "serving"}
                                  => greeted'[t][1] \in Pairings
        BY <1>4, <2>1 DEF Authenticate
      <3>6. TypeOK'
        BY <1>4, <3>1, <3>2, <3>4 DEF Authenticate
      <3> QED BY <1>4, <3>3, <3>5, <3>6 DEF Authenticate
    <2>2. CASE exchange[e] # "minted"
      BY <1>4, <2>2, TypeWhenClosing DEF Authenticate
    <2> QED BY <2>1, <2>2
  <1>5. ASSUME NEW s \in Sockets, LookUpHub(s)
        PROVE  Typed'
    <2> DEFINE key == token[caller[s]]
               place == room[caller[s]]
    <2>1. CASE key # NoToken
      <3>1. key \in Pairings /\ place \in RoomIds
        BY <1>5, <2>1 DEF LookUpHub, Tokens
      <3>2. <<key, place>> \in Tokens \X RoomIds
        BY <3>1 DEF Tokens
      <3>3. /\ greeted' = [greeted EXCEPT ![s] = <<key, place>>]
            /\ socket' = [socket EXCEPT ![s] = IF place = NoRoom THEN "greeting" ELSE "placing"]
            /\ UNCHANGED <<caller, stood>>
        BY <1>5, <2>1 DEF LookUpHub
      <3>4. greeted' \in [Sockets -> Tokens \X RoomIds]
        BY <3>2, <3>3
      <3>5. \A t \in Sockets : socket'[t] \in {"placing", "greeting", "serving"}
                                  => greeted'[t][1] \in Pairings
        BY <3>1, <3>3
      <3>6. \A t \in Sockets : socket'[t] \in {"looking", "placing", "greeting", "serving"}
                                  => caller'[t] \in Hubs
        BY <1>5, <3>3 DEF LookUpHub
      <3>7. socket' \in [Sockets -> {"unused", "looking", "placing", "greeting", "serving", "closed"}]
        BY <3>3
      <3> HIDE DEF key, place
      <3> QED BY <1>5, <3>3, <3>4, <3>5, <3>6, <3>7 DEF LookUpHub
    <2>2. CASE key = NoToken
      BY <1>5, <2>2, TypeWhenClosing DEF LookUpHub
    <2> QED BY <2>1, <2>2
  <1>10. ASSUME NEW s \in Sockets, LookUpRoom(s)
         PROVE  Typed'
    <2> DEFINE told == IF RoomFound(s) \in rooms THEN RoomFound(s) ELSE NoRoom
    <2>1. greeted[s] \in Tokens \X RoomIds /\ greeted[s][1] \in Pairings /\ told \in RoomIds
      BY <1>10 DEF LookUpRoom, RoomIds
    <2>2. greeted' = [greeted EXCEPT ![s] = <<greeted[s][1], told>>]
      BY <1>10, <2>1 DEF LookUpRoom
    <2> HIDE DEF told
    <2>3. greeted' \in [Sockets -> Tokens \X RoomIds]
      BY <2>1, <2>2
    <2>4. \A t \in Sockets : socket'[t] \in {"placing", "greeting", "serving"}
                                => greeted'[t][1] \in Pairings
      BY <1>10, <2>1, <2>2 DEF LookUpRoom
    <2> QED BY <1>10, <2>3, <2>4 DEF LookUpRoom
  <1>11. ASSUME NEW r \in Rooms, DeleteRoom(r)
         PROVE  Typed'
    BY <1>11 DEF DeleteRoom
  <1>6. ASSUME NEW s \in Sockets, Serve(s)
        PROVE  Typed'
    BY <1>6 DEF Serve
  <1>7. ASSUME NEW s \in Sockets, Cite(s)
        PROVE  Typed'
    <2>1. greeted[s][1] \in Pairings
      BY <1>7 DEF Cite
    <2> QED BY <1>7, <2>1 DEF Cite
  <1>8. ASSUME NEW s \in Sockets, Close(s)
        PROVE  Typed'
    BY <1>8, TypeWhenClosing DEF Close
  <1>9. CASE Restart
    <2>1. /\ stored' \in SUBSET Codes /\ left' \in [Codes -> 0..Ttl]
          /\ issues' \in 0..MaxIssues /\ credit' \in [Codes -> Int]
      BY <1>9, PairingConstants DEF Restart
    <2>2. /\ pairing' \in [Pairings -> {"ready", "looking", "creating", "reading", "paired", "refused"}]
          /\ exchange' \in [Exchanges -> {"ready", "committing", "minted", "expired", "refused"}]
          /\ removal' \in [Unpairings -> {"ready", "deleting", "done", "failed", "cut"}]
          /\ \A p \in Pairings : pairing'[p] # "ready" => pairing[p] # "ready"
          /\ \A e \in Exchanges :
                exchange'[e] \in {"committing", "minted", "expired"} => exchange'[e] = exchange[e]
          /\ \A u \in Unpairings : removal'[u] # "deleting"
          /\ UNCHANGED <<rowVars, asked, shown, bearer, victim>>
      BY <1>9 DEF Restart
    <2>3. PICK gone : Closes(gone)
      BY <1>9 DEF Restart
    <2>4. TypeOK'
      BY <2>1, <2>2, <2>3, TypeOfClosed
    <2>5. SubjectsKnown'
      BY <2>2, <2>3, TypeOfClosed
    <2> QED BY <2>4, <2>5
  <1> QED BY <1>1, <1>2, <1>3, <1>4, <1>5, <1>6, <1>7, <1>8, <1>9, <1>10, <1>11

LEMMA TypeStep == Typed /\ [Next]_vars => Typed'
  <1> SUFFICES ASSUME Typed, [Next]_vars PROVE Typed'
    OBVIOUS
  <1>1. CASE UNCHANGED vars
    BY <1>1 DEF vars, codeVars, rowVars, pairVars, exchangeVars, removalVars, socketVars,
                Typed, TypeOK, SubjectsKnown
  <1> QED
    BY <1>1, TypeOfRequests, TypeOfRowsAndSockets DEF Next, Pair, Exchange, Unpair, Connection

\* Type correctness of the codes, the rows, the requests and the connections.
THEOREM TypeCorrect == Spec => []TypeOK
  <1>1. Typed => TypeOK
    BY DEF Typed
  <1> QED BY <1>1, TypeInit, TypeStep, PTL DEF Spec

-----------------------------------------------------------------------------
(* A code admits once for each issue.                                      *)

\* A code that can still be used has been issued once more than it was used.
CodesAreBacked ==
    /\ CodesAdmitOnce
    /\ \A c \in Codes : c \in stored /\ left[c] > 0 => credit[c] >= 1

LEMMA CodesInit == Init => CodesAreBacked
  BY DEF Init, CodesAreBacked, CodesAdmitOnce

\* Most steps leave the codes alone.
LEMMA CodesKept == CodesAreBacked /\ UNCHANGED codeVars => CodesAreBacked'
  BY DEF CodesAreBacked, CodesAdmitOnce, codeVars

LEMMA CodesStep == Typed /\ CodesAreBacked /\ [Next]_vars => CodesAreBacked'
  <1> SUFFICES ASSUME Typed, CodesAreBacked, [Next]_vars PROVE CodesAreBacked'
    OBVIOUS
  <1> USE DEF CodesAreBacked, CodesAdmitOnce
  <1>0. /\ left \in [Codes -> 0..Ttl] /\ credit \in [Codes -> Int]
        /\ Ttl \in Nat \ {0}
    BY PairingConstants DEF Typed, TypeOK
  <1>1. CASE Tick
    BY <1>0, <1>1 DEF Tick
  <1>2. ASSUME NEW c \in Codes, Issue(c)
        PROVE  CodesAreBacked'
    BY <1>0, <1>2 DEF Issue, Unexpired
  <1>3. ASSUME NEW p \in Pairings, NEW c \in Codes, NEW h \in Hubs, PairBegins(p, c, h)
        PROVE  CodesAreBacked'
    <2>1. CASE c \in Unexpired
      BY <1>0, <1>3, <2>1 DEF PairBegins, Unexpired
    <2>2. CASE c \notin Unexpired
      BY <1>0, <1>3, <2>2 DEF PairBegins, Unexpired
    <2> QED BY <2>1, <2>2
  <1>4. CASE Restart
    BY <1>4 DEF Restart
  <1>5. CASE UNCHANGED codeVars
    BY <1>5, CodesKept
  <1>6. ASSUME NEW p \in Pairings, PairLooks(p) \/ PairCommits(p) \/ PairAnswers(p)
        PROVE  UNCHANGED codeVars
    BY <1>6 DEF PairLooks, PairCommits, PairAnswers
  <1>7. ASSUME NEW e \in Exchanges, Exchange(e)
        PROVE  UNCHANGED codeVars
    BY <1>7 DEF Exchange, ExchangeLooks, ExchangeCommits, JwtExpires
  <1>8. ASSUME NEW u \in Unpairings, Unpair(u)
        PROVE  UNCHANGED codeVars
    BY <1>8 DEF Unpair, UnpairLooks, UnpairCommits
  <1>9. ASSUME NEW h \in Hubs, NEW r \in Rooms, PatchRoom(h, r)
        PROVE  UNCHANGED codeVars
    BY <1>9 DEF PatchRoom
  <1>10. ASSUME NEW s \in Sockets, Connection(s)
         PROVE  UNCHANGED codeVars
    BY <1>10 DEF Connection, Authenticate, LookUpHub, LookUpRoom, Serve, Cite, Close
  <1>11. CASE UNCHANGED vars
    BY <1>11, CodesKept DEF vars
  <1>12. ASSUME NEW r \in Rooms, DeleteRoom(r)
         PROVE  UNCHANGED codeVars
    BY <1>12 DEF DeleteRoom
  <1> QED
    BY <1>1, <1>2, <1>3, <1>4, <1>5, <1>6, <1>7, <1>8, <1>9, <1>10, <1>11, <1>12 DEF Next, Pair

\* However codes are drawn again, expire and are evicted late, none is used more often than
\* it was issued, nor after the time of its last issue.
THEOREM CodesAdmitOncePerIssue == Spec => []CodesAdmitOnce
  <1>1. CodesAreBacked => CodesAdmitOnce
    BY DEF CodesAreBacked
  <1> QED BY <1>1, TypeInit, TypeStep, CodesInit, CodesStep, PTL DEF Spec

-----------------------------------------------------------------------------
(* A token that was returned works.                                        *)

LEMMA TokensInit == Init => PairedTokensWork
  BY DEF Init, PairedTokensWork

\* Steps that pair nobody and write no row.
LEMMA TokensKept ==
    ASSUME PairedTokensWork, UNCHANGED <<token, deleted, asked>>,
           \A p \in Pairings : pairing'[p] = "paired" => pairing[p] = "paired"
    PROVE  PairedTokensWork'
  BY DEF PairedTokensWork

LEMMA TokensStep == Typed /\ PairedTokensWork /\ [Next]_vars => PairedTokensWork'
  <1> SUFFICES ASSUME Typed, PairedTokensWork, [Next]_vars PROVE PairedTokensWork'
    OBVIOUS
  <1> USE DEF rowVars, pairVars
  <1>0. /\ pairing \in [Pairings -> {"ready", "looking", "creating", "reading", "paired", "refused"}]
        /\ token \in [Hubs -> Tokens] /\ asked \in [Pairings -> Callers]
        /\ \A p \in Pairings : pairing[p] # "ready" => asked[p] \in Hubs
    BY DEF Typed, TypeOK, SubjectsKnown
  <1>1. ASSUME NEW p \in Pairings, NEW c \in Codes, NEW h \in Hubs, PairBegins(p, c, h)
        PROVE  PairedTokensWork'
    <2>1. pairing'[p] # "paired"
      <3>1. CASE c \in Unexpired
        BY <1>0, <1>1, <3>1 DEF PairBegins
      <3>2. CASE c \notin Unexpired
        BY <1>0, <1>1, <3>2 DEF PairBegins
      <3> QED BY <3>1, <3>2
    <2>2. \A q \in Pairings \ {p} : pairing'[q] = pairing[q] /\ asked'[q] = asked[q]
      <3>1. CASE c \in Unexpired
        BY <1>0, <1>1, <3>1 DEF PairBegins
      <3>2. CASE c \notin Unexpired
        BY <1>0, <1>1, <3>2 DEF PairBegins
      <3> QED BY <3>1, <3>2
    <2>3. UNCHANGED <<token, deleted>>
      BY <1>1 DEF PairBegins
    <2> QED BY <2>1, <2>2, <2>3 DEF PairedTokensWork
  <1>2. ASSUME NEW p \in Pairings, PairLooks(p)
        PROVE  PairedTokensWork'
    BY <1>0, <1>2, TokensKept DEF PairLooks
  <1>3. ASSUME NEW p \in Pairings, PairCommits(p)
        PROVE  PairedTokensWork'
    <2>1. CASE Insertable(asked[p])
      <3>1. \A h \in Hubs : token[h] # NoToken => token'[h] = token[h]
        BY <1>0, <1>3, <2>1 DEF PairCommits, Insertable
      <3>2. \A q \in Pairings : pairing'[q] = "paired" => pairing[q] = "paired"
        BY <1>0, <1>3, <2>1 DEF PairCommits
      <3>3. UNCHANGED <<deleted, asked>>
        BY <1>3 DEF PairCommits
      <3> QED BY <1>0, <3>1, <3>2, <3>3, PairingConstants DEF PairedTokensWork
    <2>2. CASE ~Insertable(asked[p])
      BY <1>0, <1>3, <2>2, TokensKept DEF PairCommits
    <2> QED BY <2>1, <2>2
  <1>4. ASSUME NEW p \in Pairings, PairAnswers(p)
        PROVE  PairedTokensWork'
    BY <1>0, <1>4 DEF PairAnswers, PairedTokensWork
  <1>5. ASSUME NEW e \in Exchanges, Exchange(e)
        PROVE  PairedTokensWork'
    BY <1>5, TokensKept DEF Exchange, ExchangeLooks, ExchangeCommits, JwtExpires
  <1>6. ASSUME NEW u \in Unpairings, NEW h \in Hubs, UnpairLooks(u, h)
        PROVE  PairedTokensWork'
    BY <1>6, TokensKept DEF UnpairLooks
  <1>7. ASSUME NEW u \in Unpairings, UnpairCommits(u)
        PROVE  PairedTokensWork'
    <2>1. CASE victim[u] \in cited
      BY <1>7, <2>1, TokensKept DEF UnpairCommits
    <2>2. CASE victim[u] \notin cited
      <3>1. /\ \A h \in Hubs : token[h] # victim[u] => token'[h] = token[h]
            /\ deleted' = deleted \cup {victim[u]}
            /\ UNCHANGED <<pairing, asked>>
        BY <1>0, <1>7, <2>2 DEF UnpairCommits
      <3> QED BY <1>0, <3>1 DEF PairedTokensWork
    <2> QED BY <2>1, <2>2
  <1>8. ASSUME NEW h \in Hubs, NEW r \in Rooms, PatchRoom(h, r)
        PROVE  PairedTokensWork'
    BY <1>8, TokensKept DEF PatchRoom
  <1>9. ASSUME NEW s \in Sockets, Connection(s)
        PROVE  PairedTokensWork'
    BY <1>9, TokensKept DEF Connection, Authenticate, LookUpHub, LookUpRoom, Serve, Cite, Close
  <1>10. CASE Restart
    BY <1>0, <1>10, TokensKept DEF Restart
  <1>11. ASSUME \/ Tick
                \/ \E c \in Codes : Issue(c)
                \/ \E r \in Rooms : DeleteRoom(r)
                \/ UNCHANGED vars
         PROVE  PairedTokensWork'
    BY <1>11, TokensKept DEF Tick, Issue, DeleteRoom, vars
  <1> QED
    BY <1>1, <1>2, <1>3, <1>4, <1>5, <1>6, <1>7, <1>8, <1>9, <1>10, <1>11
       DEF Next, Pair, Unpair

\* A device token that a pairing returned is that of its hub's row until the row is
\* deleted, however many pairings of one hub id run at once and whatever is cut off.
THEOREM ReturnedTokensWork == Spec => []PairedTokensWork
  BY TypeInit, TypeStep, TokensInit, TokensStep, PTL DEF Spec

-----------------------------------------------------------------------------
(* A hub is greeted by a row it has had.                                   *)

\* A row tells what a connection is greeted with: its key, and its room if that is there.
Tells(row, s) ==
    /\ row[1] = greeted[s][1]
    /\ greeted[s][2] = row[2] \/ (greeted[s][2] = NoRoom /\ row[2] \notin rooms)

\* What a handshake may find when it looks the hub up is among what it has witnessed, and
\* so is what it has found until it has looked its room up.
LookUpsAreWitnessed ==
    /\ \A s \in Sockets :
          socket[s] = "looking" => RowOf(token[caller[s]], room[caller[s]]) \subseteq stood[s]
    /\ \A s \in Sockets : socket[s] = "placing" => greeted[s] \in stood[s]
    /\ \A s \in Sockets :
          socket[s] \in {"greeting", "serving"} => \E row \in stood[s] : Tells(row, s)

LEMMA WitnessInit == Init => LookUpsAreWitnessed
  BY DEF Init, LookUpsAreWitnessed

\* Steps that write no row and, if any, close connections only; rooms may go.
LEMMA WitnessKept ==
    ASSUME LookUpsAreWitnessed, UNCHANGED <<token, room>>, rooms' \subseteq rooms,
           \A s \in Sockets : socket'[s] # "closed" =>
              /\ socket'[s] = socket[s] /\ caller'[s] = caller[s]
              /\ greeted'[s] = greeted[s] /\ stood'[s] = stood[s]
    PROVE  LookUpsAreWitnessed'
  BY DEF LookUpsAreWitnessed, Tells

\* Steps that leave the connections, the rows and the rooms alone.
LEMMA WitnessUntouched ==
    ASSUME LookUpsAreWitnessed, UNCHANGED <<token, room, rooms, socketVars>>
    PROVE  LookUpsAreWitnessed'
  BY WitnessKept DEF socketVars

\* A step after which no more connections are greeted, and which keeps the witness.
LEMMA WitnessGrows ==
    ASSUME LookUpsAreWitnessed, Witness, UNCHANGED <<greeted, rooms>>,
           stood \in [Sockets -> SUBSET (Tokens \X RoomIds)],
           \A s \in Sockets :
              socket'[s] \in {"placing", "greeting", "serving"} => socket[s] = socket'[s]
    PROVE  LookUpsAreWitnessed'
  <1>1. \A s \in Sockets : stood[s] \subseteq stood'[s]
    BY DEF Witness
  <1>2. ASSUME NEW s \in Sockets, socket'[s] \in {"greeting", "serving"}
        PROVE  \E row \in stood'[s] : Tells(row, s)'
    BY <1>1, <1>2 DEF LookUpsAreWitnessed, Tells
  <1>3. ASSUME NEW s \in Sockets, socket'[s] = "placing"
        PROVE  greeted'[s] \in stood'[s]
    BY <1>1, <1>3 DEF LookUpsAreWitnessed
  <1>4. ASSUME NEW s \in Sockets, socket'[s] = "looking"
        PROVE  RowOf(token'[caller'[s]], room'[caller'[s]]) \subseteq stood'[s]
    BY <1>4 DEF Witness
  <1> QED BY <1>2, <1>3, <1>4 DEF LookUpsAreWitnessed, RowOf

LEMMA WitnessStep == Typed /\ LookUpsAreWitnessed /\ [Next]_vars => LookUpsAreWitnessed'
  <1> SUFFICES ASSUME Typed, LookUpsAreWitnessed, [Next]_vars PROVE LookUpsAreWitnessed'
    OBVIOUS
  <1> USE DEF rowVars, socketVars
  <1>0. /\ socket \in [Sockets -> {"unused", "looking", "placing", "greeting", "serving", "closed"}]
        /\ stood \in [Sockets -> SUBSET (Tokens \X RoomIds)]
        /\ greeted \in [Sockets -> Tokens \X RoomIds]
    BY DEF Typed, TypeOK
  <1>1. ASSUME NEW p \in Pairings, PairCommits(p)
        PROVE  LookUpsAreWitnessed'
    BY <1>0, <1>1, WitnessGrows DEF PairCommits
  <1>2. ASSUME NEW u \in Unpairings, UnpairCommits(u)
        PROVE  LookUpsAreWitnessed'
    BY <1>0, <1>2, WitnessGrows DEF UnpairCommits
  <1>3. ASSUME NEW h \in Hubs, NEW r \in Rooms, PatchRoom(h, r)
        PROVE  LookUpsAreWitnessed'
    BY <1>0, <1>3, WitnessGrows DEF PatchRoom
  <1>4. ASSUME NEW gone, Closes(gone), UNCHANGED <<token, room, rooms>>
        PROVE  LookUpsAreWitnessed'
    BY <1>4, TypeOfClosed, WitnessKept
  <1>5. ASSUME NEW s \in Sockets, NEW e \in Exchanges, Authenticate(s, e)
        PROVE  LookUpsAreWitnessed'
    <2>1. CASE exchange[e] = "minted"
      BY <1>0, <1>5, <2>1, WitnessGrows DEF Authenticate
    <2>2. CASE exchange[e] # "minted"
      BY <1>4, <1>5, <2>2 DEF Authenticate
    <2> QED BY <2>1, <2>2
  <1>6. ASSUME NEW s \in Sockets, LookUpHub(s)
        PROVE  LookUpsAreWitnessed'
    <2> DEFINE key == token[caller[s]]
               place == room[caller[s]]
    <2>1. CASE key # NoToken
      <3>1. <<key, place>> \in stood[s]
        BY <1>6, <2>1 DEF LookUpHub, LookUpsAreWitnessed, RowOf
      <3>2. /\ greeted' = [greeted EXCEPT ![s] = <<key, place>>]
            /\ socket' = [socket EXCEPT ![s] = IF place = NoRoom THEN "greeting" ELSE "placing"]
            /\ UNCHANGED <<token, room, rooms, caller, stood>>
        BY <1>6, <2>1 DEF LookUpHub
      <3> HIDE DEF key, place
      <3>3. PICK row \in stood[s] : row = <<key, place>>
        BY <3>1
      <3>4. greeted'[s] = row /\ socket'[s] \in {"placing", "greeting"} /\ row \in stood'[s]
        BY <1>0, <3>2, <3>3
      <3>5. Tells(row, s)'
        BY <3>4 DEF Tells
      <3>6. \A t \in Sockets \ {s} :
               socket'[t] = socket[t] /\ greeted'[t] = greeted[t] /\ (\A q : Tells(q, t)' <=> Tells(q, t))
        BY <1>0, <3>2 DEF Tells
      <3> QED BY <1>0, <3>2, <3>4, <3>5, <3>6 DEF LookUpsAreWitnessed
    <2>2. CASE key = NoToken
      BY <1>4, <1>6, <2>2 DEF LookUpHub
    <2> QED BY <2>1, <2>2
  <1>7. ASSUME NEW s \in Sockets, LookUpRoom(s)
        PROVE  LookUpsAreWitnessed'
    <2>1. PICK row \in stood[s] : row = greeted[s] /\ row \in Tokens \X RoomIds
      BY <1>0, <1>7 DEF LookUpRoom, LookUpsAreWitnessed
    <2> DEFINE told == IF row[2] \in rooms THEN row[2] ELSE NoRoom
    <2>2. /\ greeted' = [greeted EXCEPT ![s] = <<row[1], told>>]
          /\ socket' = [socket EXCEPT ![s] = "greeting"]
          /\ UNCHANGED <<token, room, rooms, caller, stood>>
      BY <1>0, <1>7, <2>1 DEF LookUpRoom, RoomFound
    <2>3. told = row[2] \/ (told = NoRoom /\ row[2] \notin rooms)
      OBVIOUS
    <2> HIDE DEF told
    <2>4. greeted'[s] = <<row[1], told>> /\ socket'[s] = "greeting" /\ row \in stood'[s]
      BY <1>0, <2>2
    <2>5. greeted'[s][1] = row[1] /\ greeted'[s][2] = told
      BY <2>4
    <2>6. Tells(row, s)'
      BY <2>2, <2>3, <2>5 DEF Tells
    <2>7. \A t \in Sockets \ {s} :
             socket'[t] = socket[t] /\ greeted'[t] = greeted[t] /\ (\A q : Tells(q, t)' <=> Tells(q, t))
      BY <1>0, <2>2 DEF Tells
    <2> QED BY <1>0, <2>2, <2>4, <2>6, <2>7 DEF LookUpsAreWitnessed
  <1>8. ASSUME NEW s \in Sockets, Serve(s)
        PROVE  LookUpsAreWitnessed'
    BY <1>0, <1>8 DEF Serve, LookUpsAreWitnessed, Tells
  <1>9. ASSUME NEW s \in Sockets, Cite(s)
        PROVE  LookUpsAreWitnessed'
    BY <1>9, WitnessUntouched DEF Cite
  <1>10. ASSUME NEW s \in Sockets, Close(s)
         PROVE  LookUpsAreWitnessed'
    BY <1>4, <1>10 DEF Close
  <1>11. CASE Restart
    BY <1>4, <1>11 DEF Restart
  <1>12. ASSUME NEW r \in Rooms, DeleteRoom(r)
         PROVE  LookUpsAreWitnessed'
    BY <1>12, WitnessKept DEF DeleteRoom
  <1>13. ASSUME NEW p \in Pairings,
                \/ \E c \in Codes, h \in Hubs : PairBegins(p, c, h)
                \/ PairLooks(p) \/ PairAnswers(p)
         PROVE  LookUpsAreWitnessed'
    BY <1>13, WitnessUntouched DEF PairBegins, PairLooks, PairAnswers
  <1>14. ASSUME NEW e \in Exchanges, Exchange(e)
         PROVE  LookUpsAreWitnessed'
    BY <1>14, WitnessUntouched DEF Exchange, ExchangeLooks, ExchangeCommits, JwtExpires
  <1>15. ASSUME \/ Tick
                \/ \E c \in Codes : Issue(c)
                \/ \E u \in Unpairings, h \in Hubs : UnpairLooks(u, h)
                \/ UNCHANGED vars
         PROVE  LookUpsAreWitnessed'
    BY <1>15, WitnessUntouched DEF Tick, Issue, UnpairLooks, vars
  <1> QED
    BY <1>1, <1>2, <1>3, <1>5, <1>6, <1>7, <1>8, <1>9, <1>10, <1>11, <1>12, <1>13, <1>14, <1>15
       DEF Next, Pair, Unpair, Connection

\* A connection goes on with the key of a row that its hub has had since its JWT came and
\* with the room of that row, or with none when that room was deleted, whatever happens to
\* the hub and to the rooms between the two look-ups, auth.ok and register.
THEOREM GreetingsAreWitnessed == Spec => []GreetedByARow
  <1>1. LookUpsAreWitnessed => GreetedByARow
    BY DEF LookUpsAreWitnessed, Tells, GreetedByARow
  <1> QED BY <1>1, TypeInit, TypeStep, WitnessInit, WitnessStep, PTL DEF Spec
=============================================================================
