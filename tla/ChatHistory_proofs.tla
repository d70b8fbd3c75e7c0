------------------------- MODULE ChatHistory_proofs -------------------------
(***************************************************************************)
(* What holds of ChatHistory for any limits and any answers: its types,    *)
(* that sessions hold whole turns, and that forgetting is bounded.         *)
(***************************************************************************)
EXTENDS ChatHistory, TLAPS

-----------------------------------------------------------------------------
(* Types.                                                                  *)

\* A turn that has opened the session it saves to knows it, and a summary is only made of
\* a session that is long enough.
Typed ==
    /\ TypeOK
    /\ pc \in {"appending", "counting", "summarizing"} => dest \in Sessions
    /\ pc = "summarizing" => RollDue(Len(log[dest]))

LEMMA TypedInit == Init => Typed
  <1> SUFFICES ASSUME Init PROVE Typed
    OBVIOUS
  <1>1. 0 \in 0 .. MaxTime /\ 0 \in 0 .. MaxSessions /\ 0 <= Cap
    BY ChatConstants
  <1>2. <<>> \in Seq(Messages) /\ <<>> \in Seq(Nat) /\ Len(<<>>) = 0
    OBVIOUS
  <1>3. /\ lastActive \in [Sessions -> 0 .. MaxTime]
        /\ log \in [Sessions -> Seq(Messages)]
        /\ pieces \in [Sessions -> Seq(Nat)]
    BY <1>1, <1>2 DEF Init
  <1>4. \A s \in Sessions : Len(pieces[s]) <= Cap
    BY <1>1, <1>2 DEF Init
  <1>5. unrolled \in SUBSET Sessions /\ pending \in Seq(Messages)
    BY <1>2 DEF Init
  <1>6. TypeOK
    BY <1>1, <1>3, <1>4, <1>5 DEF Init, TypeOK
  <1> QED BY <1>6 DEF Init, Typed

\* A session that was got or created exists, and is the latest.
LEMMA GotIsTyped ==
    ASSUME Typed, NEW s \in Sessions, GetOrCreate(s)
    PROVE  /\ sessions' \in 0 .. MaxSessions
           /\ lastActive' \in [Sessions -> 0 .. MaxTime]
  <1>1. /\ now \in 0 .. MaxTime /\ sessions \in 0 .. MaxSessions
        /\ lastActive \in [Sessions -> 0 .. MaxTime]
    BY DEF Typed, TypeOK
  <1>2. CASE UNCHANGED <<sessions, lastActive>>
    BY <1>1, <1>2
  <1>3. CASE /\ sessions < MaxSessions /\ sessions' = sessions + 1
             /\ lastActive' = [lastActive EXCEPT ![s] = now]
    BY <1>1, <1>3, ChatConstants
  <1> QED BY <1>2, <1>3 DEF GetOrCreate

\* A turn that is over leaves the tables alone.
LEMMA OverIsTyped ==
    ASSUME Typed, NEW failed, Over(failed), pc' \in {"none", "asked"}, UNCHANGED <<now, dataVars>>
    PROVE  Typed'
  <1>1. unrolled' \in SUBSET Sessions
    BY DEF Over, Typed, TypeOK
  <1> QED BY <1>1, ChatConstants DEF Over, Typed, TypeOK, dataVars, Sessions

LEMMA TypedStep == Typed /\ [Next]_vars => Typed'
  <1> SUFFICES ASSUME Typed, [Next]_vars PROVE Typed'
    OBVIOUS
  <1>1. CASE Ask
    BY <1>1, OverIsTyped DEF Ask
  <1>2. CASE BreakOff
    BY <1>2, OverIsTyped DEF BreakOff
  <1>3. CASE OpenContext
    BY <1>3, GotIsTyped DEF OpenContext, Typed, TypeOK, Sessions
  <1>4. CASE LoadContext
    BY <1>4 DEF LoadContext, Typed, TypeOK, dataVars
  <1>5. CASE Answer
    <2>1. PICK new \in Answers : pending' = <<User>> \o new
      BY <1>5 DEF Answer
    <2>2. new \in Seq(Messages) /\ <<User>> \in Seq(Messages)
      BY ChatConstants DEF Messages, User
    <2>3. pending' \in Seq(Messages)
      BY <2>1, <2>2
    <2> QED BY <1>5, <2>3 DEF Answer, Typed, TypeOK, dataVars
  <1>6. CASE OpenSave
    BY <1>6, GotIsTyped DEF OpenSave, Typed, TypeOK, Sessions
  <1>7. CASE AppendMessages
    <2>1. log[dest] \o pending \in Seq(Messages) /\ dest \in Sessions
      BY <1>7 DEF AppendMessages, Typed, TypeOK
    <2>2. log' \in [Sessions -> Seq(Messages)]
      BY <1>7, <2>1 DEF AppendMessages, Committed, Typed, TypeOK
    <2> QED BY <1>7, <2>1, <2>2 DEF AppendMessages, Typed, TypeOK
  <1>8. CASE CountMessages
    <2>1. CASE RollDue(Len(log[dest])) /\ pc' = "summarizing" /\ UNCHANGED <<context, dest, pending, unrolled>>
      BY <1>8, <2>1 DEF CountMessages, Typed, TypeOK, dataVars
    <2>2. CASE pc' = "none" /\ Over(FALSE)
      BY <1>8, <2>2, OverIsTyped DEF CountMessages
    <2> QED BY <1>8, <2>1, <2>2 DEF CountMessages
  <1>9. CASE RollSummary
    <2>1. dest \in Sessions /\ Len(log[dest]) \in Nat /\ Len(log[dest]) > Trigger
      BY <1>9 DEF RollSummary, Typed, TypeOK, RollDue
    <2>2. Target(Len(log[dest])) \in Nat
      BY <2>1, ChatConstants DEF Target
    <2>3. ASSUME NEW n \in Nat
          PROVE  Folded(pieces[dest], n) \in Seq(Nat) /\ Len(Folded(pieces[dest], n)) <= Cap
      BY <2>1, ChatConstants DEF Folded, Typed, TypeOK
    <2>4. pieces' \in [Sessions -> Seq(Nat)] /\ \A s \in Sessions : Len(pieces'[s]) <= Cap
      BY <1>9, <2>1, <2>2, <2>3 DEF RollSummary, Typed, TypeOK
    <2> QED BY <1>9, <2>4, ChatConstants DEF RollSummary, Typed, TypeOK, Sessions
  <1>10. CASE RollFails
    BY <1>10, OverIsTyped DEF RollFails
  <1>11. CASE Tick
    BY <1>11, ChatConstants DEF Tick, Typed, TypeOK, dataVars, turnVars
  <1>12. CASE UNCHANGED vars
    BY <1>12 DEF vars, Typed, TypeOK, dataVars, turnVars
  <1> QED
    BY <1>1, <1>2, <1>3, <1>4, <1>5, <1>6, <1>7, <1>8, <1>9, <1>10, <1>11, <1>12 DEF Next

LEMMA Typing == Spec => []Typed
  BY TypedInit, TypedStep, PTL DEF Spec

\* The types of sessions, messages and summaries; no summary outgrows its column.
THEOREM TypeCorrect == Spec => []TypeOK
  <1>1. Typed => TypeOK
    BY DEF Typed
  <1> QED BY <1>1, Typing, PTL

-----------------------------------------------------------------------------
(* Whole turns.                                                            *)

\* A whole turn behind whole turns.
LEMMA WholeConcat ==
    ASSUME NEW a \in Seq(Messages), NEW b \in Seq(Messages),
           ResultsFollowCalls(a), ResultsFollowCalls(b)
    PROVE  ResultsFollowCalls(a \o b)
  <1> DEFINE c == a \o b
             m == Len(a)
  <1>1. /\ m \in Nat /\ Len(b) \in Nat /\ Len(c) = m + Len(b)
        /\ DOMAIN a = 1 .. m /\ DOMAIN b = 1 .. Len(b) /\ DOMAIN c = 1 .. m + Len(b)
        /\ \A j \in 1 .. m : c[j] = a[j]
        /\ \A j \in 1 .. Len(b) : c[m + j] = b[j]
    OBVIOUS
  <1>2. /\ \A j \in 1 .. m : a[j].calls \in Nat
        /\ \A j \in 1 .. Len(b) : b[j].calls \in Nat
    BY <1>1 DEF Messages
  <1> HIDE DEF c, m
  <1>3. ASSUME NEW i \in DOMAIN c, NEW k \in 1 .. c[i].calls
        PROVE  i + k <= Len(c) /\ c[i + k].role = "tool"
    <2>1. CASE i \in 1 .. m
      <3>1. i + k <= m /\ a[i + k].role = "tool"
        BY <1>1, <1>3, <2>1 DEF ResultsFollowCalls, m
      <3>2. i + k \in 1 .. m
        BY <1>1, <1>2, <2>1, <3>1
      <3> QED BY <1>1, <3>1, <3>2
    <2>2. CASE i \notin 1 .. m
      <3>1. PICK j \in 1 .. Len(b) : i = m + j
        <4>1. i - m \in 1 .. Len(b) /\ i = m + (i - m)
          BY <1>1, <2>2
        <4> QED BY <4>1
      <3>2. j + k <= Len(b) /\ b[j + k].role = "tool"
        BY <1>1, <1>3, <3>1 DEF ResultsFollowCalls
      <3>3. j + k \in 1 .. Len(b) /\ i + k = m + (j + k)
        BY <1>1, <1>2, <3>1, <3>2
      <3> QED BY <1>1, <3>2, <3>3
    <2> QED BY <2>1, <2>2
  <1>4. ASSUME NEW i \in DOMAIN c, c[i].role = "tool"
        PROVE  \E j \in 1 .. (i - 1) : i - j <= c[j].calls
    <2>1. CASE i \in 1 .. m
      <3>1. PICK j \in 1 .. (i - 1) : i - j <= a[j].calls
        BY <1>1, <1>4, <2>1 DEF ResultsFollowCalls
      <3>2. j \in 1 .. m
        BY <1>1, <2>1
      <3> QED BY <1>1, <3>1, <3>2
    <2>2. CASE i \notin 1 .. m
      <3>1. PICK n \in 1 .. Len(b) : i = m + n
        <4>1. i - m \in 1 .. Len(b) /\ i = m + (i - m)
          BY <1>1, <2>2
        <4> QED BY <4>1
      <3>2. PICK j \in 1 .. (n - 1) : n - j <= b[j].calls
        BY <1>1, <1>4, <3>1 DEF ResultsFollowCalls
      <3>3. m + j \in 1 .. (i - 1) /\ i - (m + j) = n - j /\ c[m + j] = b[j]
        BY <1>1, <3>1, <3>2
      <3> QED BY <3>2, <3>3
    <2> QED BY <2>1, <2>2
  <1> QED BY <1>3, <1>4 DEF ResultsFollowCalls, c

\* What is saved is whole, too.
AllWhole == WholeTurns /\ ResultsFollowCalls(pending)

LEMMA QuestionIsWhole == ResultsFollowCalls(<<>>) /\ ResultsFollowCalls(<<User>>)
  BY DEF ResultsFollowCalls, User

LEMMA WholeStep ==
    ASSUME \A new \in Answers : ResultsFollowCalls(new)
    PROVE  Typed /\ AllWhole /\ [Next]_vars => AllWhole'
  <1> SUFFICES ASSUME Typed, AllWhole, [Next]_vars PROVE AllWhole'
    OBVIOUS
  <1>1. ASSUME UNCHANGED log, pending' = <<>> \/ pending' = pending
        PROVE  AllWhole'
    BY <1>1, QuestionIsWhole DEF AllWhole, WholeTurns
  <1>2. CASE Answer
    <2>1. PICK new \in Answers : pending' = <<User>> \o new
      BY <1>2 DEF Answer
    <2>2. new \in Seq(Messages) /\ <<User>> \in Seq(Messages) /\ ResultsFollowCalls(new)
      BY ChatConstants DEF Messages, User
    <2>3. ResultsFollowCalls(pending')
      BY <2>1, <2>2, WholeConcat, QuestionIsWhole
    <2> QED BY <1>2, <2>3 DEF Answer, AllWhole, WholeTurns, dataVars
  <1>3. CASE AppendMessages
    <2>1. /\ log' = [log EXCEPT ![dest] = @ \o pending] /\ pending' = pending
          /\ dest \in Sessions /\ log \in [Sessions -> Seq(Messages)] /\ pending \in Seq(Messages)
      BY <1>3 DEF AppendMessages, Committed, Typed, TypeOK
    <2>2. ResultsFollowCalls(log[dest] \o pending)
      BY <2>1, WholeConcat DEF AllWhole, WholeTurns
    <2> QED BY <2>1, <2>2 DEF AllWhole, WholeTurns
  <1>4. CASE \/ Ask \/ BreakOff \/ OpenContext \/ LoadContext \/ OpenSave \/ CountMessages
             \/ RollSummary \/ RollFails \/ Tick \/ UNCHANGED vars
    <2>1. UNCHANGED log /\ (pending' = <<>> \/ pending' = pending)
      BY <1>4 DEF Ask, BreakOff, OpenContext, LoadContext, OpenSave, CountMessages, RollSummary,
                  RollFails, Tick, Over, vars, dataVars, turnVars
    <2> QED BY <1>1, <2>1
  <1> QED BY <1>2, <1>3, <1>4 DEF Next

\* As long as the orchestrator's answers are whole, so is every session, wherever turns
\* are broken off.
THEOREM SessionsHoldWholeTurns ==
    ASSUME \A new \in Answers : ResultsFollowCalls(new)
    PROVE  Spec => []WholeTurns
  <1>1. Init => AllWhole
    BY QuestionIsWhole DEF Init, AllWhole, WholeTurns
  <1>2. Typed /\ AllWhole /\ [Next]_vars => AllWhole'
    BY WholeStep
  <1>3. AllWhole => WholeTurns
    BY DEF AllWhole
  <1> QED BY <1>1, <1>2, <1>3, Typing, PTL DEF Spec

-----------------------------------------------------------------------------
(* Forgetting.                                                             *)

\* ForgettingIsBounded, of one session.
Bounded(s) ==
    (s \notin unrolled /\ Len(pieces[s]) < Cap /\ ~(dest = s /\ pc \in {"counting", "summarizing"}))
        => Len(log[s]) - Covered(s) <= Trigger

LEMMA CoveredIsNat == Typed => \A s \in Sessions : Covered(s) \in Nat
  BY DEF Typed, TypeOK, Covered

LEMMA BoundedStep == Typed /\ (\A s \in Sessions : Bounded(s)) /\ [Next]_vars => \A s \in Sessions : Bounded(s)'
  <1> SUFFICES ASSUME Typed, \A s \in Sessions : Bounded(s), [Next]_vars, NEW s \in Sessions
               PROVE  Bounded(s)'
    OBVIOUS
  <1>0. Covered(s) \in Nat /\ Len(log[s]) \in Nat /\ Bounded(s)
    BY CoveredIsNat DEF Typed, TypeOK
  <1>1. ASSUME UNCHANGED <<log, pieces>>, s \in unrolled => s \in unrolled',
               (dest = s /\ pc \in {"counting", "summarizing"}) =>
                   (s \in unrolled' \/ (dest' = s /\ pc' \in {"counting", "summarizing"}))
        PROVE  Bounded(s)'
    BY <1>0, <1>1 DEF Bounded, Covered
  <1>2. CASE Ask \/ BreakOff \/ RollFails
    BY <1>1, <1>2 DEF Ask, BreakOff, RollFails, Over, dataVars
  <1>3. CASE OpenContext \/ LoadContext \/ Answer \/ OpenSave \/ Tick
    BY <1>1, <1>3 DEF OpenContext, LoadContext, Answer, OpenSave, Tick, dataVars, turnVars
  <1>4. CASE AppendMessages
    <2>1. CASE s = dest
      BY <1>4, <2>1 DEF AppendMessages, Bounded
    <2>2. CASE s # dest
      <3>1. log'[s] = log[s] /\ UNCHANGED <<pieces, unrolled, dest>>
        BY <1>4, <2>2 DEF AppendMessages, Typed, TypeOK
      <3> QED BY <1>0, <2>2, <3>1 DEF Bounded, Covered
    <2> QED BY <2>1, <2>2
  <1>5. CASE CountMessages
    <2>1. CASE RollDue(Len(log[dest])) /\ pc' = "summarizing" /\ UNCHANGED <<context, dest, pending, unrolled>>
      BY <1>1, <1>5, <2>1 DEF CountMessages, dataVars
    <2>2. CASE ~RollDue(Len(log[dest])) /\ pc' = "none" /\ Over(FALSE)
      <3>1. UNCHANGED <<log, pieces, unrolled>>
        BY <1>5, <2>2 DEF CountMessages, Over, dataVars
      <3>2. CASE s = dest
        <4>1. Len(log[s]) <= Trigger
          BY <1>0, <2>2, <3>2, ChatConstants DEF RollDue
        <4> QED BY <1>0, <3>1, <4>1, ChatConstants DEF Bounded, Covered
      <3>3. CASE s # dest
        BY <1>0, <3>1, <3>3 DEF Bounded, Covered
      <3> QED BY <3>2, <3>3
    <2> QED BY <1>5, <2>1, <2>2 DEF CountMessages
  <1>6. CASE RollSummary
    <2>1. CASE s = dest
      <3>1. UNCHANGED log /\ pieces'[s] = Folded(pieces[s], Target(Len(log[s])))
        BY <1>6, <2>1 DEF RollSummary, Typed, TypeOK
      <3>2. CASE Len(pieces[s]) < Cap
        <4>1. pieces[s] \in Seq(Nat) /\ Len(log[s]) > Trigger
          BY <1>6, <2>1 DEF RollSummary, Typed, TypeOK, RollDue
        <4>2. Target(Len(log[s])) \in Nat /\ Len(log[s]) - Target(Len(log[s])) = Window
          BY <1>0, <4>1, ChatConstants DEF Target
        <4>3. pieces'[s] = Append(pieces[s], Target(Len(log[s])))
          BY <3>1, <3>2 DEF Folded
        <4>4. Covered(s)' = Target(Len(log[s]))
          <5> DEFINE n == Target(Len(log[s]))
                     list == Append(pieces[s], n)
          <5>1. Len(list) = Len(pieces[s]) + 1 /\ Len(pieces[s]) \in Nat
            BY <4>1, <4>2
          <5>2. list[Len(list)] = n /\ list # <<>>
            BY <4>1, <4>2, <5>1
          <5> QED BY <4>3, <5>2 DEF Covered
        <4>5. Len(log[s]) - Target(Len(log[s])) <= Trigger
          BY <4>2, ChatConstants
        <4>6. Len(log'[s]) - Covered(s)' <= Trigger
          BY <3>1, <4>4, <4>5
        <4> QED BY <4>6 DEF Bounded
      <3>3. CASE ~(Len(pieces[s]) < Cap)
        BY <3>1, <3>3 DEF Bounded, Folded
      <3> QED BY <3>2, <3>3
    <2>2. CASE s # dest
      <3>1. UNCHANGED log /\ pieces'[s] = pieces[s] /\ (s \in unrolled' <=> s \in unrolled)
        BY <1>6, <2>2 DEF RollSummary, Typed, TypeOK
      <3> QED BY <1>0, <2>2, <3>1 DEF Bounded, Covered
    <2> QED BY <2>1, <2>2
  <1>7. CASE UNCHANGED vars
    BY <1>1, <1>7 DEF vars, dataVars, turnVars
  <1> QED BY <1>2, <1>3, <1>4, <1>5, <1>6, <1>7 DEF Next

\* While rolls succeed and the summary has room, no more than Trigger messages of a session
\* are out of the LLM's reach, for any limits.
THEOREM BoundedForgetting == Spec => []ForgettingIsBounded
  <1> DEFINE Inv == \A s \in Sessions : Bounded(s)
  <1>1. Init => Inv
    BY ChatConstants DEF Init, Bounded, Covered
  <1>2. Typed /\ Inv /\ [Next]_vars => Inv'
    BY BoundedStep
  <1>3. Inv => ForgettingIsBounded
    BY DEF Bounded, ForgettingIsBounded
  <1> HIDE DEF Inv
  <1> QED BY <1>1, <1>2, <1>3, Typing, PTL DEF Spec
=============================================================================
