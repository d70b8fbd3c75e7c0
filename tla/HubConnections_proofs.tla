------------------------ MODULE HubConnections_proofs ------------------------
(***************************************************************************)
(* What holds of HubConnections for any hubs, sockets, announcements and   *)
(* broadcasts: its types, that entries are served, and that the map        *)
(* implements the directory.                                               *)
(***************************************************************************)
EXTENDS HubConnections, TLAPS

-----------------------------------------------------------------------------
(* Types.                                                                  *)

LEMMA TypeInit == Init => TypeOK
  BY DEF Init, TypeOK

\* The type invariant is inductive: one step per action.
LEMMA TypeStep == TypeOK /\ [Next]_vars => TypeOK'
  <1> SUFFICES ASSUME TypeOK, [Next]_vars PROVE TypeOK'
    OBVIOUS
  <1> USE DEF socketVars, announceVars, sweepVars
  <1>1. ASSUME NEW s \in Sockets, PeerGone(s)
        PROVE  TypeOK'
    BY <1>1 DEF PeerGone, TypeOK, StillSteady
  <1>2. ASSUME NEW s \in Sockets, Accept(s)
        PROVE  TypeOK'
    BY <1>2 DEF Accept, TypeOK
  <1>3. ASSUME NEW s \in Sockets, NEW h \in Hubs, Authenticate(s, h)
        PROVE  TypeOK'
    BY <1>3 DEF Authenticate, TypeOK
  <1>4. ASSUME NEW s \in Sockets, Reject(s)
        PROVE  TypeOK'
    BY <1>4 DEF Reject, TypeOK
  <1>5. ASSUME NEW s \in Sockets, Register(s)
        PROVE  TypeOK'
    BY <1>5 DEF Register, TypeOK, StillSteady
  <1>6. ASSUME NEW s \in Sockets, LoopEnds(s)
        PROVE  TypeOK'
    BY <1>6 DEF LoopEnds, TypeOK, StillSteady, Without
  <1>7. ASSUME NEW a \in Announcements, NEW h \in Hubs, AnnounceStart(a, h)
        PROVE  TypeOK'
    BY <1>7 DEF AnnounceStart, TypeOK, Advance
  <1>8. ASSUME NEW a \in Announcements, AnnounceStream(a)
        PROVE  TypeOK'
    BY <1>8 DEF AnnounceStream, TypeOK, Advance
  <1>9. ASSUME NEW a \in Announcements, AnnounceFrame(a)
        PROVE  TypeOK'
    BY <1>9 DEF AnnounceFrame, TypeOK, Advance, MaySpeak
  <1>10. ASSUME NEW a \in Announcements, AnnounceEnd(a)
        PROVE  TypeOK'
    BY <1>10 DEF AnnounceEnd, TypeOK, Advance
  <1>11. ASSUME NEW a \in Announcements, AnnounceFails(a)
        PROVE  TypeOK'
    BY <1>11 DEF AnnounceFails, TypeOK, Advance
  <1>12. ASSUME NEW w \in Sweeps, SweepStart(w)
        PROVE  TypeOK'
    BY <1>12 DEF SweepStart, TypeOK, Connected
  <1>13. ASSUME NEW w \in Sweeps, NEW h \in Hubs, SweepVisit(w, h)
        PROVE  TypeOK'
    BY <1>13 DEF SweepVisit, TypeOK, StillToVisit
  <1>14. ASSUME NEW w \in Sweeps, SweepEnds(w)
        PROVE  TypeOK'
    BY <1>14 DEF SweepEnds, TypeOK
  <1>15. CASE UNCHANGED vars
    BY <1>15 DEF vars, TypeOK
  <1> QED
    BY <1>1, <1>2, <1>3, <1>4, <1>5, <1>6, <1>7, <1>8, <1>9, <1>10, <1>11, <1>12, <1>13,
           <1>14, <1>15 DEF Next, Socket, Announce, Sweep

\* Type correctness of the sockets, the map and the tasks that push through it.
THEOREM TypeCorrect == Spec => []TypeOK
  BY TypeInit, TypeStep, PTL DEF Spec

-----------------------------------------------------------------------------
(* Entries are served.                                                     *)

LEMMA EntriesInit == Init => EntriesAreServed
  BY DEF Init, EntriesAreServed

\* Most steps leave the map, and who is served for whom, alone.
LEMMA EntriesKept ==
    ASSUME EntriesAreServed, UNCHANGED <<connections, owner, stage>>
    PROVE  EntriesAreServed'
  BY DEF EntriesAreServed

LEMMA EntriesStep == TypeOK /\ EntriesAreServed /\ [Next]_vars => EntriesAreServed'
  <1> SUFFICES ASSUME TypeOK, EntriesAreServed, [Next]_vars PROVE EntriesAreServed'
    OBVIOUS
  <1> USE DEF socketVars, announceVars, sweepVars
  <1>1. ASSUME NEW s \in Sockets, PeerGone(s)
        PROVE  EntriesAreServed'
    BY <1>1, EntriesKept DEF PeerGone
  <1>2. ASSUME NEW s \in Sockets, Accept(s)
        PROVE  EntriesAreServed'
    BY <1>2, HubConstants DEF Accept, TypeOK, EntriesAreServed
  <1>3. ASSUME NEW s \in Sockets, NEW h \in Hubs, Authenticate(s, h)
        PROVE  EntriesAreServed'
    BY <1>3, HubConstants DEF Authenticate, TypeOK, EntriesAreServed
  <1>4. ASSUME NEW s \in Sockets, Reject(s)
        PROVE  EntriesAreServed'
    BY <1>4, HubConstants DEF Reject, TypeOK, EntriesAreServed
  <1>5. ASSUME NEW s \in Sockets, Register(s)
        PROVE  EntriesAreServed'
    BY <1>5, HubConstants DEF Register, TypeOK, EntriesAreServed
  <1>6. ASSUME NEW s \in Sockets, LoopEnds(s)
        PROVE  EntriesAreServed'
    BY <1>6, HubConstants DEF LoopEnds, TypeOK, EntriesAreServed, Without
  <1>7. ASSUME NEW a \in Announcements, NEW h \in Hubs, AnnounceStart(a, h)
        PROVE  EntriesAreServed'
    BY <1>7, EntriesKept DEF AnnounceStart
  <1>8. ASSUME NEW a \in Announcements, AnnounceStream(a)
        PROVE  EntriesAreServed'
    BY <1>8, EntriesKept DEF AnnounceStream
  <1>9. ASSUME NEW a \in Announcements, AnnounceFrame(a)
        PROVE  EntriesAreServed'
    BY <1>9, EntriesKept DEF AnnounceFrame
  <1>10. ASSUME NEW a \in Announcements, AnnounceEnd(a)
        PROVE  EntriesAreServed'
    BY <1>10, EntriesKept DEF AnnounceEnd
  <1>11. ASSUME NEW a \in Announcements, AnnounceFails(a)
        PROVE  EntriesAreServed'
    BY <1>11, EntriesKept DEF AnnounceFails
  <1>12. ASSUME NEW w \in Sweeps, SweepStart(w)
        PROVE  EntriesAreServed'
    BY <1>12, EntriesKept DEF SweepStart
  <1>13. ASSUME NEW w \in Sweeps, NEW h \in Hubs, SweepVisit(w, h)
        PROVE  EntriesAreServed'
    BY <1>13, EntriesKept DEF SweepVisit
  <1>14. ASSUME NEW w \in Sweeps, SweepEnds(w)
        PROVE  EntriesAreServed'
    BY <1>14, EntriesKept DEF SweepEnds
  <1>15. CASE UNCHANGED vars
    BY <1>15, EntriesKept DEF vars
  <1> QED
    BY <1>1, <1>2, <1>3, <1>4, <1>5, <1>6, <1>7, <1>8, <1>9, <1>10, <1>11, <1>12, <1>13,
           <1>14, <1>15 DEF Next, Socket, Announce, Sweep

\* Every entry of the map is a socket that is served, for the hub it is filed under.
THEOREM ServedEntries == Spec => []EntriesAreServed
  BY TypeInit, TypeStep, EntriesInit, EntriesStep, PTL DEF Spec

-----------------------------------------------------------------------------
(* The map implements the directory.                                       *)

Attached == {s \in Sockets : stage[s] = "serving"}
Ended == {s \in Sockets : stage[s] = "closed"}

LEMMA DirectoryInitial == Init => Directory!DirectoryInit
  BY DEF Init, Directory!DirectoryInit

\* A step that leaves the map alone, and serves and ends nobody, is invisible.
LEMMA Invisible ==
    ASSUME TypeOK, UNCHANGED connections,
           \/ UNCHANGED stage
           \/ \E s \in Sockets, next \in {"handshake", "greeting"} :
                 /\ stage[s] \in {"unused", "handshake"}
                 /\ stage' = [stage EXCEPT ![s] = next]
    PROVE  UNCHANGED Directory!directoryVars
  <1>1. Attached' = Attached /\ Ended' = Ended
    BY DEF Attached, Ended, TypeOK
  <1> QED BY <1>1 DEF Directory!directoryVars, Attached, Ended

\* A socket that got past the handshake has the hub of its token.
OwnersKnown == \A s \in Sockets : stage[s] \in {"greeting", "serving"} => owner[s] \in Hubs

LEMMA OwnersInit == Init => OwnersKnown
  BY DEF Init, OwnersKnown

LEMMA OwnersStep == TypeOK /\ OwnersKnown /\ [Next]_vars => OwnersKnown'
  <1> SUFFICES ASSUME TypeOK, OwnersKnown, [Next]_vars PROVE OwnersKnown'
    OBVIOUS
  <1> USE DEF socketVars, announceVars, sweepVars, OwnersKnown
  <1>1. ASSUME NEW s \in Sockets, PeerGone(s)
        PROVE  OwnersKnown'
    BY <1>1 DEF PeerGone
  <1>2. ASSUME NEW s \in Sockets, Accept(s)
        PROVE  OwnersKnown'
    BY <1>2 DEF Accept, TypeOK
  <1>3. ASSUME NEW s \in Sockets, NEW h \in Hubs, Authenticate(s, h)
        PROVE  OwnersKnown'
    BY <1>3 DEF Authenticate, TypeOK
  <1>4. ASSUME NEW s \in Sockets, Reject(s)
        PROVE  OwnersKnown'
    BY <1>4 DEF Reject, TypeOK
  <1>5. ASSUME NEW s \in Sockets, Register(s)
        PROVE  OwnersKnown'
    BY <1>5 DEF Register, TypeOK
  <1>6. ASSUME NEW s \in Sockets, LoopEnds(s)
        PROVE  OwnersKnown'
    BY <1>6 DEF LoopEnds, TypeOK
  <1>7. ASSUME NEW a \in Announcements, NEW h \in Hubs, AnnounceStart(a, h)
        PROVE  OwnersKnown'
    BY <1>7 DEF AnnounceStart
  <1>8. ASSUME NEW a \in Announcements, AnnounceStream(a)
        PROVE  OwnersKnown'
    BY <1>8 DEF AnnounceStream
  <1>9. ASSUME NEW a \in Announcements, AnnounceFrame(a)
        PROVE  OwnersKnown'
    BY <1>9 DEF AnnounceFrame
  <1>10. ASSUME NEW a \in Announcements, AnnounceEnd(a)
        PROVE  OwnersKnown'
    BY <1>10 DEF AnnounceEnd
  <1>11. ASSUME NEW a \in Announcements, AnnounceFails(a)
        PROVE  OwnersKnown'
    BY <1>11 DEF AnnounceFails
  <1>12. ASSUME NEW w \in Sweeps, SweepStart(w)
        PROVE  OwnersKnown'
    BY <1>12 DEF SweepStart
  <1>13. ASSUME NEW w \in Sweeps, NEW h \in Hubs, SweepVisit(w, h)
        PROVE  OwnersKnown'
    BY <1>13 DEF SweepVisit
  <1>14. ASSUME NEW w \in Sweeps, SweepEnds(w)
        PROVE  OwnersKnown'
    BY <1>14 DEF SweepEnds
  <1>15. CASE UNCHANGED vars
    BY <1>15 DEF vars
  <1> QED
    BY <1>1, <1>2, <1>3, <1>4, <1>5, <1>6, <1>7, <1>8, <1>9, <1>10, <1>11, <1>12, <1>13,
           <1>14, <1>15 DEF Next, Socket, Announce, Sweep

\* An end of a socket in the sense of the directory.
LEMMA EndStep ==
    ASSUME TypeOK, NEW s \in Sockets, stage[s] # "closed",
           stage' = [stage EXCEPT ![s] = "closed"], connections' = Without(s)
    PROVE  Directory!End(s)
  <1>1. Attached' = Attached \ {s} /\ Ended' = Ended \cup {s} /\ s \notin Ended
    BY DEF Attached, Ended, TypeOK
  <1> QED BY <1>1 DEF Directory!End, Without, Attached, Ended

\* Every step of the connections is a step of the directory or leaves it alone.
LEMMA DirectoryStep ==
    TypeOK /\ EntriesAreServed /\ OwnersKnown /\ [Next]_vars
        => [Directory!DirectoryNext]_(Directory!directoryVars)
  <1> SUFFICES ASSUME TypeOK, EntriesAreServed, OwnersKnown, [Next]_vars
               PROVE  Directory!DirectoryNext \/ UNCHANGED Directory!directoryVars
    OBVIOUS
  <1> USE DEF socketVars, announceVars, sweepVars
  <1>1. ASSUME NEW s \in Sockets, PeerGone(s)
        PROVE  Directory!DirectoryNext \/ UNCHANGED Directory!directoryVars
    BY <1>1, Invisible DEF PeerGone
  <1>2. ASSUME NEW s \in Sockets, Accept(s)
        PROVE  Directory!DirectoryNext \/ UNCHANGED Directory!directoryVars
    BY <1>2, Invisible DEF Accept
  <1>3. ASSUME NEW s \in Sockets, NEW h \in Hubs, Authenticate(s, h)
        PROVE  Directory!DirectoryNext \/ UNCHANGED Directory!directoryVars
    BY <1>3, Invisible DEF Authenticate
  <1>4. ASSUME NEW s \in Sockets, Reject(s)
        PROVE  Directory!DirectoryNext \/ UNCHANGED Directory!directoryVars
    <2>1. connections' = Without(s)
      <3>1. \A h \in Hubs : connections[h] # s
        BY <1>4, HubConstants DEF Reject, EntriesAreServed, TypeOK
      <3> QED BY <1>4, <3>1 DEF Reject, Without, TypeOK
    <2> QED BY <1>4, <2>1, EndStep DEF Reject, Directory!DirectoryNext
  <1>5. ASSUME NEW s \in Sockets, Register(s)
        PROVE  Directory!DirectoryNext \/ UNCHANGED Directory!directoryVars
    <2>1. Attached' = Attached \cup {s} /\ Ended' = Ended /\ s \notin Attached \cup Ended
      BY <1>5 DEF Register, Attached, Ended, TypeOK
    <2>2. owner[s] \in Hubs
      BY <1>5 DEF Register, OwnersKnown
    <2>3. Directory!Attach(owner[s], s)
      BY <1>5, <2>1 DEF Register, Directory!Attach, Attached, Ended
    <2> QED BY <2>2, <2>3 DEF Directory!DirectoryNext
  <1>6. ASSUME NEW s \in Sockets, LoopEnds(s)
        PROVE  Directory!DirectoryNext \/ UNCHANGED Directory!directoryVars
    BY <1>6, EndStep DEF LoopEnds, Directory!DirectoryNext
  <1>7. ASSUME NEW a \in Announcements, NEW h \in Hubs, AnnounceStart(a, h)
        PROVE  Directory!DirectoryNext \/ UNCHANGED Directory!directoryVars
    BY <1>7, Invisible DEF AnnounceStart
  <1>8. ASSUME NEW a \in Announcements, AnnounceStream(a)
        PROVE  Directory!DirectoryNext \/ UNCHANGED Directory!directoryVars
    BY <1>8, Invisible DEF AnnounceStream
  <1>9. ASSUME NEW a \in Announcements, AnnounceFrame(a)
        PROVE  Directory!DirectoryNext \/ UNCHANGED Directory!directoryVars
    BY <1>9, Invisible DEF AnnounceFrame
  <1>10. ASSUME NEW a \in Announcements, AnnounceEnd(a)
        PROVE  Directory!DirectoryNext \/ UNCHANGED Directory!directoryVars
    BY <1>10, Invisible DEF AnnounceEnd
  <1>11. ASSUME NEW a \in Announcements, AnnounceFails(a)
        PROVE  Directory!DirectoryNext \/ UNCHANGED Directory!directoryVars
    BY <1>11, Invisible DEF AnnounceFails
  <1>12. ASSUME NEW w \in Sweeps, SweepStart(w)
        PROVE  Directory!DirectoryNext \/ UNCHANGED Directory!directoryVars
    BY <1>12, Invisible DEF SweepStart
  <1>13. ASSUME NEW w \in Sweeps, NEW h \in Hubs, SweepVisit(w, h)
        PROVE  Directory!DirectoryNext \/ UNCHANGED Directory!directoryVars
    BY <1>13, Invisible DEF SweepVisit
  <1>14. ASSUME NEW w \in Sweeps, SweepEnds(w)
        PROVE  Directory!DirectoryNext \/ UNCHANGED Directory!directoryVars
    BY <1>14, Invisible DEF SweepEnds
  <1>15. CASE UNCHANGED vars
    BY <1>15, Invisible DEF vars
  <1> QED
    BY <1>1, <1>2, <1>3, <1>4, <1>5, <1>6, <1>7, <1>8, <1>9, <1>10, <1>11, <1>12, <1>13,
           <1>14, <1>15 DEF Next, Socket, Announce, Sweep

\* Whoever pushes through the map may rely on the directory: a place is kept until its
\* connection ends or a newer one takes it, and none is given twice.
THEOREM DirectoryImplemented == Spec => ImplementsDirectory
  BY TypeInit, TypeStep, EntriesInit, EntriesStep, OwnersInit, OwnersStep, DirectoryInitial,
     DirectoryStep, PTL DEF Spec, ImplementsDirectory, Directory!DirectorySpec
-----------------------------------------------------------------------------
(* Announcements.  HeardWhole is not inductive by itself: the socket of an *)
(* announcement must not come back into the map, and an announcement to    *)
(* one hub must not end the stream of another.                             *)
LinesServed ==
    /\ \A a \in Announcements : saying[a] = "ready" <=> target[a] = Nobody
    /\ \A a \in Announcements : line[a] # Nobody => stage[line[a]] \in {"serving", "closed"}

SoundInv == TypeOK /\ EntriesAreServed /\ LinesServed /\ HeardWhole

\* An announcement of which a frame may leave, and whose hub has not moved on.
Undisturbed(a) ==
    /\ saying[a] \in {"starting", "speaking"}
    /\ connections[target[a]] = line[a]
    /\ line[a] \in reachable
    /\ \A b \in Announcements \ {a} : target[b] # target[a]

LEMMA HeardIs == HeardWhole <=> \A a \in Announcements : Undisturbed(a) => line[a] \in playing
  BY DEF HeardWhole, Undisturbed

\* Most steps take nothing away from an announcement that is under way.
LEMMA HeardKept ==
    ASSUME HeardWhole, UNCHANGED <<target, line, playing>>,
           \A a \in Announcements : Undisturbed(a)' => Undisturbed(a)
    PROVE  HeardWhole'
  BY HeardIs DEF HeardWhole, Undisturbed

LEMMA LinesStep == SoundInv /\ [Next]_vars => LinesServed'
  <1> SUFFICES ASSUME SoundInv, [Next]_vars PROVE LinesServed'
    OBVIOUS
  <1> USE HubConstants DEF SoundInv, TypeOK, LinesServed, socketVars, announceVars, sweepVars
  <1>1. ASSUME NEW s \in Sockets, Socket(s) PROVE LinesServed'
    BY <1>1 DEF Socket, PeerGone, Accept, Authenticate, Reject, Register, LoopEnds
  <1>2. ASSUME NEW a \in Announcements, NEW h \in Hubs, AnnounceStart(a, h) PROVE LinesServed'
    BY <1>2 DEF AnnounceStart, Advance, EntriesAreServed
  <1>3. ASSUME NEW a \in Announcements, Announce(a) PROVE LinesServed'
    BY <1>3
       DEF Announce, AnnounceStream, AnnounceFrame, AnnounceEnd, AnnounceFails, Advance, MaySpeak
  <1>4. ASSUME NEW w \in Sweeps, SweepStart(w) \/ Sweep(w) PROVE LinesServed'
    BY <1>4 DEF SweepStart, Sweep, SweepVisit, SweepEnds
  <1>5. CASE UNCHANGED vars
    BY <1>5 DEF vars
  <1> QED BY <1>1, <1>2, <1>3, <1>4, <1>5 DEF Next

\* A socket that comes, is greeted or goes is no line that an announcement still holds.
LEMMA HeardBySockets ==
    ASSUME SoundInv, NEW s \in Sockets, Socket(s)
    PROVE  HeardWhole'
  <1> USE DEF SoundInv
  <1>1. UNCHANGED <<saying, target, line, playing>>
    BY DEF Socket, PeerGone, Accept, Authenticate, Reject, Register, LoopEnds, announceVars
  <1> SUFFICES ASSUME NEW a \in Announcements, Undisturbed(a)' PROVE Undisturbed(a)
    BY <1>1, HeardKept
  <1>2. /\ saying[a] \in {"starting", "speaking"}
        /\ connections'[target[a]] = line[a] /\ line[a] \in reachable'
        /\ \A b \in Announcements \ {a} : target[b] # target[a]
    BY <1>1 DEF Undisturbed
  <1>3. line[a] \in Sockets /\ target[a] \in Hubs
    BY <1>2, HubConstants DEF TypeOK, LinesServed,
       Socket, PeerGone, Accept, Authenticate, Reject, Register, LoopEnds
  <1>4. stage[line[a]] \in {"serving", "closed"}
    BY <1>3, HubConstants DEF LinesServed
  <1>5. CASE Accept(s)
    BY <1>2, <1>4, <1>5 DEF Accept, Undisturbed
  <1>6. CASE Register(s)
    BY <1>2, <1>3, <1>4, <1>6 DEF Register, Undisturbed, TypeOK
  <1>7. CASE LoopEnds(s)
    BY <1>2, <1>3, <1>7, HubConstants DEF LoopEnds, Without, Undisturbed
  <1>8. CASE PeerGone(s)
    BY <1>2, <1>8 DEF PeerGone, Undisturbed
  <1>9. ASSUME NEW h \in Hubs, Authenticate(s, h) PROVE Undisturbed(a)
    BY <1>2, <1>9 DEF Authenticate, Undisturbed
  <1>10. CASE Reject(s)
    BY <1>2, <1>10 DEF Reject, Undisturbed
  <1> QED BY <1>5, <1>6, <1>7, <1>8, <1>9, <1>10 DEF Socket

\* One announcement's stream is another's only if both are for the same hub.
LEMMA HeardByAnnouncements ==
    ASSUME SoundInv, NEW b \in Announcements, Announce(b) \/ \E h \in Hubs : AnnounceStart(b, h)
    PROVE  HeardWhole'
  <1> USE DEF SoundInv
  <1> SUFFICES ASSUME NEW a \in Announcements, Undisturbed(a)' PROVE line'[a] \in playing'
    BY DEF HeardWhole, Undisturbed
  <1>1. UNCHANGED <<connections, reachable>>
    BY DEF Announce, AnnounceStream, AnnounceFrame, AnnounceEnd, AnnounceFails, AnnounceStart,
           socketVars
  <1>2. ASSUME NEW h \in Hubs, AnnounceStart(b, h) PROVE line'[a] \in playing'
    <2>1. a # b
      BY <1>2 DEF AnnounceStart, Advance, Undisturbed, TypeOK
    <2>2. saying[a] = saying'[a] /\ target'[a] = target[a] /\ line'[a] = line[a]
      BY <1>2, <2>1 DEF AnnounceStart, Advance, TypeOK
    <2>3. target[a] # Nobody /\ target[b] = Nobody
      BY <1>2, <2>2 DEF AnnounceStart, LinesServed, Undisturbed
    <2>4. \A c \in Announcements \ {a} : c # b => target'[c] = target[c]
      BY <1>2 DEF AnnounceStart, TypeOK
    <2>5. Undisturbed(a)
      BY <1>1, <2>2, <2>3, <2>4 DEF Undisturbed
    <2> QED BY <1>2, <2>2, <2>5, HeardIs DEF AnnounceStart
  <1>3. CASE Announce(b)
    <2>1. UNCHANGED <<target, line>>
      BY <1>3 DEF Announce, AnnounceStream, AnnounceFrame, AnnounceEnd, AnnounceFails
    <2>2. \A c \in Announcements \ {b} : saying'[c] = saying[c]
      BY <1>3 DEF Announce, AnnounceStream, AnnounceFrame, AnnounceEnd, AnnounceFails, Advance, TypeOK
    <2>3. saying'[a] = saying[a] => Undisturbed(a)
      BY <1>1, <2>1 DEF Undisturbed
    <2>4. CASE AnnounceStream(b)
      <3>1. CASE a = b
        BY <1>1, <2>1, <2>4, <3>1 DEF AnnounceStream, Undisturbed
      <3>2. CASE a # b
        BY <2>1, <2>2, <2>3, <2>4, <3>2, HeardIs DEF AnnounceStream
      <3> QED BY <3>1, <3>2
    <2>5. CASE AnnounceFrame(b)
      <3>1. saying[a] \in {"starting", "speaking"}
        BY <2>2, <2>5 DEF AnnounceFrame, MaySpeak, Undisturbed
      <3>2. Undisturbed(a)
        BY <1>1, <2>1, <3>1 DEF Undisturbed
      <3> QED BY <2>1, <2>5, <3>2, HeardIs DEF AnnounceFrame
    <2>6. CASE AnnounceEnd(b)
      <3>1. a # b
        BY <2>6 DEF AnnounceEnd, Advance, Undisturbed, TypeOK
      <3>2. Undisturbed(a) /\ line[a] \in playing
        BY <2>2, <2>3, <3>1, HeardIs
      <3>3. target[a] \in Hubs /\ target[b] \in Hubs /\ target[b] # target[a]
        BY <2>6, <3>1, <3>2 DEF AnnounceEnd, Undisturbed, LinesServed, TypeOK
      <3>4. connections[target[a]] = line[a] /\ line[a] # Nobody
        BY <3>2, HubConstants DEF Undisturbed, TypeOK
      <3>5. connections[target[b]] # line[a]
        BY <3>3, <3>4 DEF EntriesAreServed
      <3> QED BY <2>1, <2>6, <3>2, <3>5 DEF AnnounceEnd
    <2>7. CASE AnnounceFails(b)
      <3>1. a # b
        BY <2>7 DEF AnnounceFails, Advance, Undisturbed, TypeOK
      <3> QED BY <2>1, <2>2, <2>3, <2>7, <3>1, HeardIs DEF AnnounceFails
    <2> QED BY <1>3, <2>4, <2>5, <2>6, <2>7 DEF Announce
  <1> QED BY <1>2, <1>3

LEMMA HeardStep == SoundInv /\ [Next]_vars => HeardWhole'
  <1> SUFFICES ASSUME SoundInv, [Next]_vars PROVE HeardWhole'
    OBVIOUS
  <1>1. ASSUME NEW w \in Sweeps, SweepStart(w) \/ Sweep(w) PROVE HeardWhole'
    BY <1>1 DEF SweepStart, Sweep, SweepVisit, SweepEnds, SoundInv, HeardWhole, socketVars,
                announceVars
  <1>2. CASE UNCHANGED vars
    BY <1>2 DEF vars, SoundInv, HeardWhole, socketVars, announceVars
  <1> QED BY <1>1, <1>2, HeardBySockets, HeardByAnnouncements DEF Next

(* The frames of an announcement come behind its tts.start, on the socket  *)
(* of a hub that kept its connection, whatever the other hubs are told.    *)
THEOREM AnnouncementsAreHeard == Spec => []HeardWhole
  <1>1. Init => LinesServed /\ HeardWhole
    BY DEF Init, LinesServed, HeardWhole
  <1>2. SoundInv <=> TypeOK /\ EntriesAreServed /\ LinesServed /\ HeardWhole
    BY DEF SoundInv
  <1> QED BY <1>1, <1>2, TypeInit, TypeStep, EntriesInit, EntriesStep, LinesStep, HeardStep,
             PTL DEF Spec

-----------------------------------------------------------------------------
(* Broadcasts.  While a broadcast is under way, a steady hub has it or is  *)
(* still to be visited, at the socket it has kept.                         *)
SweepInv ==
    /\ \A w \in Sweeps : sweeping[w] # "visiting" => left[w] = {}
    /\ \A w \in Sweeps : \A h \in steady[w] :
          connections[h] \in reachable /\ (h \in left[w] \/ w \in received[connections[h]])

LEMMA SweepInvStep == TypeOK /\ SweepInv /\ [Next]_vars => SweepInv'
  <1> SUFFICES ASSUME TypeOK, SweepInv, [Next]_vars PROVE SweepInv'
    OBVIOUS
  <1> USE DEF socketVars, announceVars, sweepVars
  <1>1. ASSUME NEW s \in Sockets, Socket(s) PROVE SweepInv'
    <2>1. UNCHANGED <<sweeping, left, received>>
      BY <1>1 DEF Socket, PeerGone, Accept, Authenticate, Reject, Register, LoopEnds
    <2>2. ASSUME StillSteady PROVE SweepInv'
      BY <2>1, <2>2 DEF StillSteady, SweepInv, TypeOK
    <2>3. ASSUME UNCHANGED <<connections, steady>>, reachable \subseteq reachable' PROVE SweepInv'
      BY <2>1, <2>3 DEF SweepInv
    <2> QED
      BY <1>1, <2>2, <2>3 DEF Socket, PeerGone, Accept, Authenticate, Reject, Register, LoopEnds
  <1>2. ASSUME NEW a \in Announcements, Announce(a) \/ \E h \in Hubs : AnnounceStart(a, h)
        PROVE  SweepInv'
    BY <1>2 DEF Announce, AnnounceStream, AnnounceFrame, AnnounceEnd, AnnounceFails,
                AnnounceStart, SweepInv
  <1>3. ASSUME NEW w \in Sweeps, SweepStart(w) PROVE SweepInv'
    BY <1>3 DEF SweepStart, SweepInv, TypeOK, Connected
  <1>4. ASSUME NEW w \in Sweeps, NEW h \in Hubs, SweepVisit(w, h) PROVE SweepInv'
    <2>1. UNCHANGED <<connections, reachable, sweeping, steady>> /\ sweeping[w] = "visiting"
      BY <1>4 DEF SweepVisit, SweepInv, TypeOK
    <2>2. \A v \in Sweeps : left'[v] = IF v = w THEN left[v] \ {h} ELSE left[v]
      BY <1>4 DEF SweepVisit, StillToVisit, TypeOK
    <2>3. \A s \in Sockets : received[s] \subseteq received'[s]
      BY <1>4 DEF SweepVisit
    <2>4. connections[h] \in reachable => w \in received'[connections[h]]
      BY <1>4 DEF SweepVisit, TypeOK
    <2>5. \A v \in Sweeps : sweeping'[v] # "visiting" => left'[v] = {}
      BY <2>1, <2>2 DEF SweepInv
    <2>6. ASSUME NEW v \in Sweeps, NEW g \in steady'[v]
          PROVE  /\ connections'[g] \in reachable'
                 /\ g \in left'[v] \/ v \in received'[connections'[g]]
      <3>1. g \in steady[v] /\ connections[g] \in reachable /\ connections[g] \in Sockets
        BY <2>1, <2>6 DEF SweepInv, TypeOK
      <3>2. g \in left[v] \/ v \in received[connections[g]]
        BY <3>1 DEF SweepInv
      <3>3. CASE g = h /\ v = w
        BY <2>1, <2>4, <3>1, <3>3
      <3>4. CASE ~(g = h /\ v = w)
        BY <2>1, <2>2, <2>3, <3>1, <3>2, <3>4
      <3> QED BY <3>3, <3>4
    <2> QED BY <2>5, <2>6 DEF SweepInv
  <1>5. ASSUME NEW w \in Sweeps, SweepEnds(w) PROVE SweepInv'
    BY <1>5 DEF SweepEnds, SweepInv, TypeOK
  <1>6. CASE UNCHANGED vars
    BY <1>6 DEF vars, SweepInv
  <1> QED BY <1>1, <1>2, <1>3, <1>4, <1>5, <1>6 DEF Next, Sweep

(* A broadcast passes over no hub that kept its connection, however many   *)
(* others vanish, fail or reconnect while it goes round.                   *)
THEOREM SweepsReach == Spec => []SweepReachesSteadyHubs
  <1>1. Init => SweepInv
    BY DEF Init, SweepInv
  <1>2. SweepInv => SweepReachesSteadyHubs
    BY DEF SweepInv, SweepReachesSteadyHubs
  <1> QED BY <1>1, <1>2, TypeInit, TypeStep, SweepInvStep, PTL DEF Spec
=============================================================================
