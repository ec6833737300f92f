----------------------------- MODULE SessionsProofs -----------------------------
(***************************************************************************)
(* Proofs about Sessions for any number of overlapping calls and sessions.  *)
(*                                                                         *)
(* A rotation owns the session it claimed (Owned): nobody else changes its  *)
(* row, and no other rotation has it, until the successor is committed.     *)
(* So a family passes from one ACTIVE session to the next.                  *)
(***************************************************************************)
EXTENDS Sessions, TLAPS

Presenting == {"claim", "look", "rotate", "expire", "logout", "reuse"}

\* What a call works on is there: the session it presents and the rows that its
\* UPDATE found, which for a family are sessions of that family.
GroundedCall(c) ==
    /\ calls[c].phase \in Presenting =>
         calls[c].session \in Sessions /\ Exists(calls[c].session)
    /\ \A s \in calls[c].targets : s \in Sessions /\ Exists(s)
    /\ calls[c].phase = "reuse" =>
         /\ calls[c].targets = calls[c].known
         /\ calls[c].targets \subseteq Family(sessions[calls[c].session].family)
Grounded == \A c \in Calls : GroundedCall(c)

Owned ==
    /\ \A c \in Calls : calls[c].phase = "rotate" => Active(calls[c].session)
    /\ \A c, d \in Calls :
         /\ calls[c].phase = "rotate" /\ calls[d].phase = "rotate"
         /\ calls[c].session = calls[d].session
         => c = d

\* A family is named for its first session.
Rooted ==
    /\ \A s \in Sessions : Exists(s) => /\ sessions[s].family \in Sessions
                                        /\ Exists(sessions[s].family)
    /\ \A f \in reuses : Exists(f)

SessionsInv == SessionsTypeOK /\ Grounded /\ Owned /\ Rooted

-------------------------------------------------------------------------------
LEMMA SessionsInitInv ==
    SessionsInit => SessionsInv /\ OneActivePerFamily /\ ReusedFamilyDead
BY SessionsAssumption
DEF SessionsInit, SessionsInv, SessionsTypeOK, Grounded, GroundedCall, Owned, Rooted, NoSession,
    NoCall, SessionStatuses, Reasons, CallPhases, Presenting, Exists, Active,
    OneActivePerFamily, ReusedFamilyDead

SessionRows == [family : Sessions \cup {0}, status : SessionStatuses, reason : Reasons]
CallRows == [phase : CallPhases, session : Sessions \cup {0}, late : BOOLEAN,
             targets : SUBSET Sessions, known : SUBSET Sessions]

\* What the steps write has the type of a row.
LEMMA RowsWritten ==
    ASSUME SessionsInv
    PROVE  /\ NoCall \in CallRows
           /\ \A s \in Sessions : Issued(s) \in SessionRows
           /\ \A s \in Sessions, reason \in Reasons : Revoked(s, reason) \in SessionRows
           /\ \A s \in Sessions, phase \in CallPhases :
                [NoCall EXCEPT !.phase = phase, !.session = s, !.late = s \in expired]
                  \in CallRows
           /\ \A f : Family(f) \subseteq Sessions
<1>1. NoCall \in CallRows
  BY DEF NoCall, CallRows, CallPhases
<1>2. \A s \in Sessions : Issued(s) \in SessionRows
  BY DEF Issued, SessionRows, SessionStatuses, Reasons
<1>3. ASSUME NEW s \in Sessions, NEW reason \in Reasons
      PROVE  Revoked(s, reason) \in SessionRows
  <2>1. sessions[s] \in SessionRows
    BY DEF SessionsInv, SessionsTypeOK, SessionRows
  <2>2. "REVOKED" \in SessionStatuses BY DEF SessionStatuses
  <2> QED BY <2>1, <2>2 DEF Revoked, SessionRows
<1>4. ASSUME NEW s \in Sessions, NEW phase \in CallPhases
      PROVE  [NoCall EXCEPT !.phase = phase, !.session = s, !.late = s \in expired]
               \in CallRows
  <2>1. (s \in expired) \in BOOLEAN OBVIOUS
  <2> QED BY <1>1, <2>1 DEF CallRows
<1>5. \A f : Family(f) \subseteq Sessions
  BY DEF Family
<1> QED BY <1>1, <1>2, <1>3, <1>4, <1>5

LEMMA CallMoves ==
    ASSUME NEW row \in CallRows, NEW phase \in CallPhases,
           NEW targets \in SUBSET Sessions, NEW known \in SUBSET Sessions
    PROVE  /\ [row EXCEPT !.phase = phase] \in CallRows
           /\ [row EXCEPT !.phase = phase, !.targets = targets] \in CallRows
           /\ [row EXCEPT !.phase = phase, !.targets = targets, !.known = known]
                \in CallRows
BY DEF CallRows

LEMMA SessionsTypeKept == SessionsInv /\ [SessionsNext]_sessionVars => SessionsTypeOK'
<1> SUFFICES ASSUME SessionsInv, [SessionsNext]_sessionVars PROVE SessionsTypeOK'
  OBVIOUS
<1> DEFINE Typed == /\ sessions \in [Sessions -> SessionRows]
                    /\ calls \in [Calls -> CallRows]
                    /\ called \in 0..MaxCalls
<1>0. /\ Typed
      /\ expired \subseteq Sessions /\ reuses \subseteq Sessions /\ outrun \subseteq Sessions
  BY DEF SessionsInv, SessionsTypeOK, SessionRows, CallRows
<1>a. SUFFICES /\ Typed'
               /\ expired' \subseteq Sessions /\ reuses' \subseteq Sessions
               /\ outrun' \subseteq Sessions
  BY DEF SessionsTypeOK, SessionRows, CallRows
<1>b. Called => called' \in 0..MaxCalls
  BY <1>0, SessionsAssumption DEF Called
<1>1. ASSUME NEW c \in Calls, Login(c) PROVE Typed'
  BY <1>0, <1>1, <1>b, RowsWritten DEF Login
<1>2. ASSUME NEW c \in Calls, NEW s \in Sessions, NEW phase \in CallPhases,
             Begin(c, s, phase)
      PROVE  Typed'
  BY <1>0, <1>2, <1>b, RowsWritten DEF Begin
<1>3. ASSUME NEW c \in Calls, Claim(c) PROVE Typed'
  BY <1>0, <1>3 DEF Claim, ClaimIf, Goes, CallRows, CallPhases
<1>4. ASSUME NEW c \in Calls, Rotate(c) PROVE Typed'
  <2>1. /\ calls[c].session \in Sessions
        /\ sessions[calls[c].session].family \in Sessions
    BY <1>4 DEF Rotate, SessionsInv, Grounded, GroundedCall, Rooted, Presenting
  <2>2. "ROTATED" \in Reasons BY DEF Reasons
  <2> QED BY <1>0, <1>4, <2>1, <2>2, RowsWritten DEF Rotate, Returns
<1>5. ASSUME NEW c \in Calls, Look(c) PROVE Typed'
  <2> DEFINE family == Family(sessions[calls[c].session].family)
  <2>1. /\ [calls[c] EXCEPT !.phase = "expire"] \in CallRows
        /\ [calls[c] EXCEPT !.phase = "reuse", !.targets = family, !.known = family]
             \in CallRows
    <3>1. {"expire", "reuse"} \subseteq CallPhases BY DEF CallPhases
    <3>2. family \in SUBSET Sessions BY RowsWritten
    <3> HIDE DEF family
    <3> QED BY <1>0, <3>1, <3>2, CallMoves
  <2> QED BY <1>0, <1>5, <2>1, RowsWritten DEF Look, LookRevoking
<1>6. ASSUME NEW c \in Calls, RevokeFamily(c) PROVE Typed' /\ reuses' \subseteq Sessions
                                                    /\ outrun' \subseteq Sessions
  <2>1. /\ calls[c].session \in Sessions
        /\ sessions[calls[c].session].family \in Sessions
    BY <1>6 DEF RevokeFamily, SessionsInv, Grounded, GroundedCall, Rooted, Presenting
  <2>2. "TOKEN_REUSE" \in Reasons BY DEF Reasons
  <2> QED BY <1>0, <1>6, <2>1, <2>2, RowsWritten DEF RevokeFamily, Returns
<1>7. ASSUME NEW c \in Calls, WriteGuarded(c) PROVE Typed'
  <2>1. calls[c].session \in Sessions
    BY <1>7 DEF WriteGuarded, WriteIf, SessionsInv, Grounded, GroundedCall, Presenting
  <2>2. "LOGOUT" \in Reasons BY DEF Reasons
  <2>3. [sessions[calls[c].session] EXCEPT !.status = "EXPIRED"] \in SessionRows
    BY <1>0, <2>1 DEF SessionRows, SessionStatuses
  <2> QED BY <1>0, <1>7, <2>1, <2>2, <2>3, RowsWritten DEF WriteGuarded, WriteIf, Returns
<1>8. ASSUME NEW c \in Calls, LogoutAll(c) PROVE Typed'
  <2>1. [NoCall EXCEPT !.phase = "all", !.targets = {s \in Sessions : Active(s)}]
          \in CallRows
    <3>1. "all" \in CallPhases BY DEF CallPhases
    <3> DEFINE live == {s \in Sessions : Active(s)}
    <3>2. live \in SUBSET Sessions OBVIOUS
    <3> HIDE DEF live
    <3> QED BY <3>1, <3>2, RowsWritten, CallMoves
  <2> QED BY <1>0, <1>8, <1>b, <2>1 DEF LogoutAll
<1>9. ASSUME NEW c \in Calls, RevokeAll(c) PROVE Typed'
  <2>1. "LOGOUT_ALL" \in Reasons BY DEF Reasons
  <2> QED BY <1>0, <1>9, <2>1, RowsWritten DEF RevokeAll, Returns
<1>10. ASSUME NEW c \in Calls, RollBack(c) PROVE Typed'
  BY <1>0, <1>10, RowsWritten DEF RollBack, Returns
<1>11. ASSUME NEW s \in Sessions, TimePasses(s) PROVE Typed' /\ expired' \subseteq Sessions
  BY <1>0, <1>11 DEF TimePasses
<1>12. CASE UNCHANGED sessionVars
  BY <1>0, <1>12 DEF sessionVars
<1>13. \A c \in Calls, s \in Sessions :
         Refresh(c, s) \/ LogoutByToken(c, s) \/ LogoutByAccess(c, s)
           => \E phase \in CallPhases : Begin(c, s, phase)
  <2>1. {"claim", "expire", "logout"} \subseteq CallPhases BY DEF CallPhases
  <2> QED BY <2>1 DEF Refresh, LogoutByToken, LogoutByAccess
<1>14. Typed'
  BY <1>1, <1>2, <1>3, <1>4, <1>5, <1>6, <1>7, <1>8, <1>9, <1>10, <1>11, <1>12, <1>13
  DEF SessionsNext
<1>15. \/ UNCHANGED <<expired, reuses, outrun>>
       \/ \E c \in Calls : RevokeFamily(c)
       \/ \E s \in Sessions : TimePasses(s)
  BY DEF SessionsNext, sessionVars, Refresh, LogoutByToken, LogoutByAccess, Login, Begin,
         Claim, ClaimIf, Rotate, Look, LookRevoking, WriteGuarded, WriteIf, LogoutAll,
         RevokeAll, RollBack
<1>16. ASSUME NEW c \in Calls, RevokeFamily(c) PROVE UNCHANGED expired
  BY <1>16 DEF RevokeFamily
<1>17. ASSUME NEW s \in Sessions, TimePasses(s) PROVE UNCHANGED <<reuses, outrun>>
  BY <1>17 DEF TimePasses
<1> QED
  BY <1>0, <1>6, <1>11, <1>14, <1>15, <1>16, <1>17

\* A row stays, in its family, and the one a rotation owns stays as it is until
\* the rotation ends.
LEMMA RowsKept ==
    ASSUME SessionsInv, [SessionsNext]_sessionVars
    PROVE  /\ \A s \in Sessions :
                Exists(s) => Exists(s)' /\ sessions'[s].family = sessions[s].family
           /\ \A c \in Calls :
                calls[c].phase = "rotate" /\ calls'[c] = calls[c]
                  => sessions'[calls[c].session] = sessions[calls[c].session]
<1> DEFINE Kept ==
      /\ \A s \in Sessions :
           Exists(s) => Exists(s)' /\ sessions'[s].family = sessions[s].family
      /\ \A c \in Calls : calls[c].phase = "rotate" /\ calls'[c] = calls[c]
           => sessions'[calls[c].session] = sessions[calls[c].session]
<1>0. /\ sessions \in [Sessions -> [family : Sessions \cup {0}, status : SessionStatuses,
                                    reason : Reasons]]
      /\ calls \in [Calls -> [phase : CallPhases, session : Sessions \cup {0},
                              late : BOOLEAN, targets : SUBSET Sessions,
                              known : SUBSET Sessions]]
  BY DEF SessionsInv, SessionsTypeOK
<1>1. \A c \in Calls : calls[c].phase = "rotate" =>
        /\ calls[c].session \in Sessions /\ Exists(calls[c].session)
        /\ \A s \in Sessions : Fresh(s) => s # calls[c].session
  BY DEF SessionsInv, Grounded, GroundedCall, Presenting, Fresh
<1>2. ASSUME NEW c \in Calls, Login(c) PROVE Kept
  BY <1>0, <1>1, <1>2 DEF Login, Fresh, Exists
<1>3. ASSUME NEW c \in Calls, Rotate(c) PROVE Kept
  <2>1. /\ calls[c].session \in Sessions
        /\ \A d \in Calls : calls[d].phase = "rotate" /\ calls'[d] = calls[d]
             => calls[d].session # calls[c].session
    BY <1>0, <1>1, <1>3 DEF Rotate, Returns, NoCall, SessionsInv, Owned
  <2>2. PICK next \in Sessions :
          /\ Fresh(next)
          /\ sessions' = [sessions EXCEPT
               ![calls[c].session] = Revoked(calls[c].session, "ROTATED"),
               ![next] = Issued(sessions[calls[c].session].family)]
    BY <1>3 DEF Rotate
  <2>3. \A s \in Sessions : s \notin {calls[c].session, next} => sessions'[s] = sessions[s]
    BY <1>0, <2>1, <2>2
  <2>4. next # calls[c].session /\ ~Exists(next)
    BY <1>1, <1>3, <2>2 DEF Rotate, Fresh
  <2>5. sessions'[calls[c].session] = Revoked(calls[c].session, "ROTATED")
    BY <1>0, <2>1, <2>2, <2>4
  <2>6. /\ sessions'[calls[c].session].status # "NONE"
        /\ sessions'[calls[c].session].family = sessions[calls[c].session].family
    BY <1>0, <2>1, <2>5 DEF Revoked
  <2>7. \A s \in Sessions :
          Exists(s) => Exists(s)' /\ sessions'[s].family = sessions[s].family
    BY <2>3, <2>4, <2>6 DEF Exists
  <2>8. \A d \in Calls : calls[d].phase = "rotate" /\ calls'[d] = calls[d]
          => sessions'[calls[d].session] = sessions[calls[d].session]
    BY <1>1, <2>1, <2>2, <2>3
  <2> QED BY <2>7, <2>8
<1>4. ASSUME NEW c \in Calls, RevokeFamily(c) PROVE Kept
  BY <1>0, <1>1, <1>4 DEF RevokeFamily, Rotating, Exists, Revoked
<1>5. ASSUME NEW c \in Calls, WriteGuarded(c) PROVE Kept
  BY <1>0, <1>1, <1>5 DEF WriteGuarded, WriteIf, Rotating, Exists, Revoked
<1>6. ASSUME NEW c \in Calls, RevokeAll(c) PROVE Kept
  BY <1>0, <1>1, <1>6 DEF RevokeAll, Rotating, Exists, Revoked, Active
<1>7. CASE UNCHANGED sessions
  BY <1>7 DEF Exists
<1> QED
  BY <1>2, <1>3, <1>4, <1>5, <1>6, <1>7
  DEF SessionsNext, sessionVars, TimePasses, Refresh, LogoutByToken, LogoutByAccess,
      Begin, Claim, ClaimIf, Look, LookRevoking, LogoutAll, RollBack

\* A call is where it was, has ended, or has taken a step of its own.
LEMMA CallsKept ==
    ASSUME SessionsInv, [SessionsNext]_sessionVars, NEW c \in Calls
    PROVE  \/ calls'[c] = calls[c]
           \/ calls'[c] = NoCall
           \/ /\ UNCHANGED sessions
              /\ \E s \in Sessions, phase \in CallPhases :
                   Begin(c, s, phase) /\ phase \in {"claim", "expire", "logout"}
           \/ UNCHANGED sessions /\ (Claim(c) \/ Look(c) \/ LogoutAll(c))
<1>1. calls \in [Calls -> [phase : CallPhases, session : Sessions \cup {0},
                           late : BOOLEAN, targets : SUBSET Sessions,
                           known : SUBSET Sessions]]
  BY DEF SessionsInv, SessionsTypeOK
<1>2. \A d \in Calls, s \in Sessions :
        Refresh(d, s) \/ LogoutByToken(d, s) \/ LogoutByAccess(d, s)
          => \E phase \in CallPhases : /\ Begin(d, s, phase)
                                       /\ phase \in {"claim", "expire", "logout"}
  <2>1. {"claim", "expire", "logout"} \subseteq CallPhases BY DEF CallPhases
  <2> QED BY <2>1 DEF Refresh, LogoutByToken, LogoutByAccess
<1>3. ASSUME NEW d \in Calls, NEW s \in Sessions, NEW phase \in CallPhases,
             Begin(d, s, phase), d # c
      PROVE  calls'[c] = calls[c]
  BY <1>1, <1>3 DEF Begin
<1>4. ASSUME NEW d \in Calls, Claim(d) \/ Look(d) \/ LogoutAll(d), d # c
      PROVE  calls'[c] = calls[c]
  BY <1>1, <1>4 DEF Claim, ClaimIf, Goes, Look, LookRevoking, LogoutAll
<1>5. ASSUME NEW d \in Calls, \/ Rotate(d) \/ RevokeFamily(d) \/ WriteGuarded(d)
                              \/ RevokeAll(d) \/ RollBack(d)
      PROVE  calls'[c] \in {calls[c], NoCall}
  BY <1>1, <1>5 DEF Rotate, RevokeFamily, WriteGuarded, WriteIf, RevokeAll, RollBack,
                    Returns
<1>6. ASSUME NEW d \in Calls, NEW s \in Sessions, NEW phase \in CallPhases,
             Begin(d, s, phase)
      PROVE  UNCHANGED sessions
  BY <1>6 DEF Begin
<1>7. ASSUME NEW d \in Calls, Claim(d) \/ Look(d) \/ LogoutAll(d)
      PROVE  UNCHANGED sessions
  BY <1>7 DEF Claim, ClaimIf, Look, LookRevoking, LogoutAll
<1>8. ASSUME \/ UNCHANGED sessionVars
             \/ \E d \in Calls : Login(d)
             \/ \E s \in Sessions : TimePasses(s)
      PROVE  calls'[c] = calls[c]
  BY <1>8 DEF sessionVars, Login, TimePasses
<1> QED
  BY <1>2, <1>3, <1>4, <1>5, <1>6, <1>7, <1>8 DEF SessionsNext

LEMMA GroundedKept == SessionsInv /\ [SessionsNext]_sessionVars => Grounded'
<1> SUFFICES ASSUME SessionsInv, [SessionsNext]_sessionVars, NEW c \in Calls
             PROVE  GroundedCall(c)'
  BY DEF Grounded
<1>0. /\ GroundedCall(c)
      /\ \A s \in Sessions : Exists(s) => Exists(s)' /\ sessions'[s].family = sessions[s].family
      /\ calls \in [Calls -> [phase : CallPhases, session : Sessions \cup {0},
                              late : BOOLEAN, targets : SUBSET Sessions,
                              known : SUBSET Sessions]]
  BY RowsKept DEF SessionsInv, SessionsTypeOK, Grounded
<1>1. CASE calls'[c] = calls[c]
  BY <1>0, <1>1 DEF GroundedCall, Family, Presenting
<1>2. CASE calls'[c] = NoCall
  BY <1>2 DEF GroundedCall, NoCall, Presenting
<1>3. ASSUME UNCHANGED sessions, NEW s \in Sessions, NEW phase \in CallPhases,
             Begin(c, s, phase), phase \in {"claim", "expire", "logout"}
      PROVE  GroundedCall(c)'
  BY <1>0, <1>3 DEF Begin, GroundedCall, Exists, NoCall
<1>4. CASE UNCHANGED sessions /\ Claim(c)
  BY <1>0, <1>4 DEF Claim, ClaimIf, Goes, GroundedCall, Exists, Presenting
<1>5. CASE UNCHANGED sessions /\ Look(c)
  <2>1. PICK s \in Sessions : s = calls[c].session /\ Exists(s)
    BY <1>0, <1>5 DEF Look, LookRevoking, GroundedCall, Presenting
  <2>2. PICK family \in SUBSET Sessions : family = Family(sessions[s].family)
    BY DEF Family
  <2>3. \A t \in family : Exists(t)' /\ sessions'[t].family = sessions'[s].family
    BY <1>5, <2>1, <2>2 DEF Family, Exists
  <2>4. CASE calls'[c] = [calls[c] EXCEPT !.phase = "expire"]
    BY <1>0, <1>5, <2>1, <2>4 DEF GroundedCall, Exists
  <2>5. CASE calls'[c] = [calls[c] EXCEPT !.phase = "reuse", !.targets = family,
                                          !.known = family]
    <3>1. calls'[c].session = s /\ calls'[c].targets = family /\ calls'[c].known = family
      BY <1>0, <2>1, <2>5
    <3>2. family \subseteq Family(sessions[calls[c].session].family)'
      BY <2>2, <2>3, <3>1 DEF Family
    <3> QED BY <1>5, <2>1, <2>3, <3>1, <3>2 DEF GroundedCall, Exists
  <2>6. CASE calls'[c] = NoCall
    BY <1>2, <2>6
  <2> QED BY <1>0, <1>5, <2>1, <2>2, <2>4, <2>5, <2>6 DEF Look, LookRevoking
<1>6. CASE UNCHANGED sessions /\ LogoutAll(c)
  BY <1>0, <1>6 DEF LogoutAll, GroundedCall, NoCall, Presenting, Active, Exists
<1> QED
  BY <1>1, <1>2, <1>3, <1>4, <1>5, <1>6, CallsKept

LEMMA OwnedKept == SessionsInv /\ [SessionsNext]_sessionVars => Owned'
<1> SUFFICES ASSUME SessionsInv, [SessionsNext]_sessionVars PROVE Owned'
  OBVIOUS
<1>0. calls \in [Calls -> [phase : CallPhases, session : Sessions \cup {0},
                           late : BOOLEAN, targets : SUBSET Sessions,
                           known : SUBSET Sessions]]
  BY DEF SessionsInv, SessionsTypeOK
\* A rotation was one before, or has just claimed an ACTIVE session nobody had.
<1>1. ASSUME NEW c \in Calls, calls'[c].phase = "rotate"
      PROVE  \/ calls'[c] = calls[c]
             \/ /\ UNCHANGED sessions /\ Claim(c)
                /\ calls'[c].session = calls[c].session
                /\ Active(calls[c].session) /\ ~Rotating(calls[c].session)
                /\ \A d \in Calls \ {c} : calls'[d] = calls[d]
  <2>1. calls'[c] # NoCall
    BY <1>1 DEF NoCall
  <2>2. ~\E s \in Sessions, phase \in CallPhases :
           Begin(c, s, phase) /\ phase \in {"claim", "expire", "logout"}
    BY <1>0, <1>1 DEF Begin, NoCall
  <2>3. ~LogoutAll(c)
    BY <1>0, <1>1 DEF LogoutAll, NoCall
  <2>4. ~Look(c)
    <3>1. ASSUME Look(c)
          PROVE  calls'[c].phase \in {"expire", "reuse", "idle"}
      <4>1. \A f : /\ [calls[c] EXCEPT !.phase = "expire"].phase = "expire"
                   /\ [calls[c] EXCEPT !.phase = "reuse", !.targets = f,
                                       !.known = f].phase = "reuse"
        BY <1>0
      <4> QED BY <1>0, <3>1, <4>1 DEF Look, LookRevoking, NoCall
    <3> QED BY <1>1, <3>1
  <2>5. CASE UNCHANGED sessions /\ Claim(c)
    BY <1>0, <1>1, <2>5 DEF Claim, ClaimIf, Goes
  <2> QED BY <1>1, <2>1, <2>2, <2>3, <2>4, <2>5, CallsKept
<1>2. ASSUME NEW c \in Calls, calls'[c].phase = "rotate"
      PROVE  Active(calls[c].session)' /\ calls'[c].session = calls[c].session
  BY <1>1, <1>2, RowsKept DEF SessionsInv, Owned, Active
<1>3. ASSUME NEW c \in Calls, NEW d \in Calls,
             calls'[c].phase = "rotate", calls'[d].phase = "rotate",
             calls'[c].session = calls'[d].session, c # d
      PROVE  FALSE
  <2>1. CASE calls'[c] = calls[c] /\ calls'[d] = calls[d]
    BY <1>3, <2>1 DEF SessionsInv, Owned
  <2>2. CASE ~Rotating(calls[c].session) /\ calls'[d] = calls[d]
    BY <1>2, <1>3, <2>2 DEF Rotating
  <2>3. CASE ~Rotating(calls[d].session) /\ calls'[c] = calls[c]
    BY <1>2, <1>3, <2>3 DEF Rotating
  <2> QED BY <1>1, <1>3, <2>1, <2>2, <2>3
<1> QED BY <1>2, <1>3 DEF Owned, Active

\* How a session comes to be ACTIVE: it was, a login opened its family with it,
\* or a rotation passed the family on to it.
LEMMA BecomesActive ==
    ASSUME SessionsInv, [SessionsNext]_sessionVars, NEW s \in Sessions,
           sessions'[s].status = "ACTIVE"
    PROVE  \/ sessions'[s] = sessions[s]
           \/ /\ ~Exists(s) /\ sessions'[s].family = s
              /\ \A t \in Sessions \ {s} : sessions'[t] = sessions[t]
              /\ UNCHANGED <<reuses, outrun>>
           \/ \E r \in Sessions :
                /\ Active(r) /\ sessions'[r].status = "REVOKED"
                /\ ~Exists(s) /\ sessions'[s].family = sessions[r].family
                /\ \A t \in Sessions \ {r, s} : sessions'[t] = sessions[t]
                /\ UNCHANGED <<reuses, outrun>>
<1>0. sessions \in [Sessions -> [family : Sessions \cup {0}, status : SessionStatuses,
                                 reason : Reasons]]
  BY DEF SessionsInv, SessionsTypeOK
<1>1. ASSUME NEW c \in Calls, Login(c)
      PROVE  \/ sessions'[s] = sessions[s]
             \/ /\ ~Exists(s) /\ sessions'[s].family = s
                /\ \A t \in Sessions \ {s} : sessions'[t] = sessions[t]
                /\ UNCHANGED <<reuses, outrun>>
  BY <1>0, <1>1 DEF Login, Fresh, Issued
<1>2. ASSUME NEW c \in Calls, Rotate(c), sessions'[s] # sessions[s]
      PROVE  \E r \in Sessions :
               /\ Active(r) /\ sessions'[r].status = "REVOKED"
               /\ ~Exists(s) /\ sessions'[s].family = sessions[r].family
               /\ \A t \in Sessions \ {r, s} : sessions'[t] = sessions[t]
               /\ UNCHANGED <<reuses, outrun>>
  <2>1. PICK r \in Sessions : r = calls[c].session /\ Active(r) /\ Exists(r)
    BY <1>2 DEF Rotate, SessionsInv, Owned, Grounded, GroundedCall, Presenting
  <2>2. PICK next \in Sessions :
          /\ Fresh(next)
          /\ sessions' = [sessions EXCEPT ![r] = Revoked(r, "ROTATED"),
                                          ![next] = Issued(sessions[r].family)]
    BY <1>2, <2>1 DEF Rotate
  <2>3. next # r /\ ~Exists(next)
    BY <2>1, <2>2 DEF Fresh
  <2>4. /\ sessions'[r] = Revoked(r, "ROTATED")
        /\ sessions'[next] = Issued(sessions[r].family)
        /\ \A t \in Sessions \ {r, next} : sessions'[t] = sessions[t]
    BY <1>0, <2>2, <2>3
  <2>5. sessions'[r].status = "REVOKED"
    BY <1>0, <2>4 DEF Revoked
  <2>6. s = next
    BY <1>2, <2>4, <2>5
  <2>7. UNCHANGED <<reuses, outrun>>
    BY <1>2 DEF Rotate
  <2> QED BY <2>1, <2>3, <2>4, <2>5, <2>6, <2>7 DEF Issued
<1>3. ASSUME NEW c \in Calls, RevokeFamily(c) \/ WriteGuarded(c) \/ RevokeAll(c)
      PROVE  sessions'[s] = sessions[s]
  <2>1. \A reason : Revoked(s, reason).status = "REVOKED"
    BY <1>0 DEF Revoked
  <2>2. CASE RevokeFamily(c)
    BY <1>0, <2>1, <2>2 DEF RevokeFamily
  <2>3. CASE RevokeAll(c)
    BY <1>0, <2>1, <2>3 DEF RevokeAll
  <2>4. CASE WriteGuarded(c)
    <3>1. [sessions[s] EXCEPT !.status = "EXPIRED"].status = "EXPIRED"
      BY <1>0
    <3> QED BY <1>0, <2>1, <2>4, <3>1 DEF WriteGuarded, WriteIf
  <2> QED BY <1>3, <2>2, <2>3, <2>4
<1>4. CASE UNCHANGED sessions
  BY <1>4
<1> QED
  BY <1>1, <1>2, <1>3, <1>4
  DEF SessionsNext, sessionVars, TimePasses, Refresh, LogoutByToken, LogoutByAccess,
      Begin, Claim, ClaimIf, Look, LookRevoking, LogoutAll, RollBack

LEMMA NewRows ==
    ASSUME SessionsInv, [SessionsNext]_sessionVars, NEW s \in Sessions,
           ~Exists(s), sessions'[s].status # "NONE"
    PROVE  sessions'[s].status = "ACTIVE"
<1>0. /\ sessions \in [Sessions -> [family : Sessions \cup {0}, status : SessionStatuses,
                                    reason : Reasons]]
      /\ \A c \in Calls : \A t \in calls[c].targets : Exists(t)
      /\ \A c \in Calls : calls[c].phase \in Presenting => Exists(calls[c].session)
  BY DEF SessionsInv, SessionsTypeOK, Grounded, GroundedCall
<1>1. ASSUME NEW c \in Calls, Login(c) PROVE sessions'[s].status = "ACTIVE"
  BY <1>0, <1>1 DEF Login, Issued, Exists
<1>2. ASSUME NEW c \in Calls, Rotate(c) PROVE sessions'[s].status = "ACTIVE"
  <2>1. s # calls[c].session
    BY <1>0, <1>2 DEF Rotate, Presenting
  <2> QED BY <1>0, <1>2, <2>1 DEF Rotate, Issued, Exists
<1>3. ASSUME NEW c \in Calls, RevokeFamily(c) \/ RevokeAll(c) \/ WriteGuarded(c)
      PROVE  sessions'[s] = sessions[s]
  <2>1. CASE RevokeFamily(c) BY <1>0, <2>1 DEF RevokeFamily
  <2>2. CASE RevokeAll(c) BY <1>0, <2>2 DEF RevokeAll
  <2>3. CASE WriteGuarded(c)
    <3>1. s # calls[c].session
      BY <1>0, <2>3 DEF WriteGuarded, WriteIf, Presenting
    <3> QED BY <1>0, <2>3, <3>1 DEF WriteGuarded, WriteIf
  <2> QED BY <1>3, <2>1, <2>2, <2>3
<1>4. CASE UNCHANGED sessions
  BY <1>4 DEF Exists
<1> QED
  BY <1>1, <1>2, <1>3, <1>4
  DEF SessionsNext, sessionVars, TimePasses, Refresh, LogoutByToken, LogoutByAccess,
      Begin, Claim, ClaimIf, Look, LookRevoking, LogoutAll, RollBack, Exists

\* The events of reuse: none is added but by the call that revoked the family it
\* names, and the one that finds the family changed says so.
LEMMA ReuseRecorded ==
    ASSUME SessionsInv, [SessionsNext]_sessionVars
    PROVE  \/ UNCHANGED <<reuses, outrun>>
           \/ \E f \in Sessions :
                /\ Exists(f) /\ reuses' = reuses \cup {f} /\ outrun \subseteq outrun'
                /\ f \in outrun' \/ \A s \in Family(f) : sessions'[s].status = "REVOKED"
                /\ \A s \in Sessions : Exists(s) \/ sessions'[s] = sessions[s]
<1>1. ASSUME NEW c \in Calls, RevokeFamily(c)
      PROVE  \E f \in Sessions :
                /\ Exists(f) /\ reuses' = reuses \cup {f} /\ outrun \subseteq outrun'
                /\ f \in outrun' \/ \A s \in Family(f) : sessions'[s].status = "REVOKED"
                /\ \A s \in Sessions : Exists(s) \/ sessions'[s] = sessions[s]
  <2>1. PICK f \in Sessions : f = sessions[calls[c].session].family /\ Exists(f)
    BY <1>1 DEF RevokeFamily, SessionsInv, Grounded, GroundedCall, Presenting, Rooted
  <2>2. /\ calls[c].targets = calls[c].known
        /\ \A s \in calls[c].targets : s \in Sessions /\ Exists(s)
    BY <1>1 DEF RevokeFamily, SessionsInv, Grounded, GroundedCall
  <2>3. \A s \in Sessions : Revoked(s, "TOKEN_REUSE").status = "REVOKED"
    BY DEF SessionsInv, SessionsTypeOK, Revoked
  <2>4. CASE Family(f) = calls[c].known
    BY <1>1, <2>1, <2>2, <2>3, <2>4 DEF RevokeFamily
  <2>5. CASE Family(f) # calls[c].known
    BY <1>1, <2>1, <2>2, <2>5 DEF RevokeFamily
  <2> QED BY <2>4, <2>5
<1> QED
  BY <1>1
  DEF SessionsNext, sessionVars, TimePasses, Refresh, LogoutByToken, LogoutByAccess,
      Login, Begin, Claim, ClaimIf, Rotate, Look, LookRevoking, WriteGuarded, WriteIf,
      LogoutAll, RevokeAll, RollBack

LEMMA RootedKept == SessionsInv /\ [SessionsNext]_sessionVars => Rooted'
<1> SUFFICES ASSUME SessionsInv, [SessionsNext]_sessionVars PROVE Rooted'
  OBVIOUS
<1>1. \A s \in Sessions :
        Exists(s) => Exists(s)' /\ sessions'[s].family = sessions[s].family
  BY RowsKept
<1>2. ASSUME NEW s \in Sessions, sessions'[s].status # "NONE"
      PROVE  sessions'[s].family \in Sessions /\ Exists(sessions[s].family)'
  <2>1. CASE Exists(s)
    BY <1>1, <2>1 DEF SessionsInv, Rooted
  <2>2. CASE ~Exists(s)
    <3>1. sessions'[s].status = "ACTIVE" /\ sessions'[s] # sessions[s]
      BY <1>2, <2>2, NewRows DEF Exists
    <3>2. CASE sessions'[s].family = s
      BY <1>2, <3>2 DEF Exists
    <3>3. ASSUME NEW r \in Sessions, Active(r), sessions'[s].family = sessions[r].family
          PROVE  sessions'[s].family \in Sessions /\ Exists(sessions[s].family)'
      BY <1>1, <3>3 DEF SessionsInv, Rooted, Active, Exists
    <3> QED BY <3>1, <3>2, <3>3, BecomesActive
  <2> QED BY <2>1, <2>2
<1>3. \A f \in reuses' : Exists(f)'
  BY <1>1, ReuseRecorded DEF SessionsInv, SessionsTypeOK, Rooted
<1> QED BY <1>2, <1>3 DEF Rooted, Exists

LEMMA SessionsNextInv == SessionsInv /\ [SessionsNext]_sessionVars => SessionsInv'
BY SessionsTypeKept, GroundedKept, OwnedKept, RootedKept DEF SessionsInv

-------------------------------------------------------------------------------
(* Theorems.                                                               *)

\* The rows and the calls keep their types.
THEOREM SessionsTyped == SessionsSpec => []SessionsTypeOK
<1>1. SessionsInv => SessionsTypeOK BY DEF SessionsInv
<1> QED BY SessionsInitInv, SessionsNextInv, <1>1, PTL DEF SessionsSpec

LEMMA OneActiveKept ==
    SessionsInv /\ OneActivePerFamily /\ [SessionsNext]_sessionVars => OneActivePerFamily'
<1> SUFFICES ASSUME SessionsInv, OneActivePerFamily, [SessionsNext]_sessionVars,
                    NEW s \in Sessions, NEW t \in Sessions, s # t,
                    sessions'[s].status = "ACTIVE", sessions'[t].status = "ACTIVE",
                    sessions'[s].family = sessions'[t].family
             PROVE  FALSE
  BY DEF OneActivePerFamily, Active, Family
<1> DEFINE Gained(u, v) ==
      \/ /\ ~Exists(u) /\ sessions'[u].family = u /\ sessions'[v] = sessions[v]
      \/ \E r \in Sessions :
           /\ Active(r) /\ r # v /\ sessions'[u].family = sessions[r].family
           /\ ~Exists(u) /\ sessions'[v] = sessions[v]
<1>1. ASSUME NEW u \in Sessions, NEW v \in Sessions, u # v,
             sessions'[u].status = "ACTIVE", sessions'[v].status = "ACTIVE"
      PROVE  sessions'[u] = sessions[u] \/ Gained(u, v)
  BY <1>1, BecomesActive
<1>2. ASSUME NEW u \in Sessions, NEW v \in Sessions, Gained(u, v),
             sessions'[v].status = "ACTIVE", sessions'[u].family = sessions'[v].family
      PROVE  FALSE
  <2>1. CASE /\ ~Exists(u) /\ sessions'[u].family = u /\ sessions'[v] = sessions[v]
    <3>1. sessions[v].status = "ACTIVE" /\ sessions[v].family = u
      BY <1>2, <2>1
    <3>2. Exists(v)
      BY <3>1 DEF Exists
    <3> QED BY <2>1, <3>1, <3>2 DEF SessionsInv, Rooted
  <2>2. ASSUME NEW r \in Sessions, Active(r), r # v,
               sessions'[u].family = sessions[r].family, sessions'[v] = sessions[v]
        PROVE  FALSE
    <3>1. Active(v) /\ v \in Family(sessions[r].family)
      BY <1>2, <2>2 DEF Active, Family, Exists
    <3> QED BY <2>2, <3>1 DEF OneActivePerFamily
  <2> QED BY <1>2, <2>1, <2>2
<1>3. CASE sessions'[s] = sessions[s] /\ sessions'[t] = sessions[t]
  BY <1>3 DEF OneActivePerFamily, Active, Family, Exists
<1> HIDE DEF Gained
<1> QED BY <1>1, <1>2, <1>3

\* A family never has two live tokens.
THEOREM OneLiveToken == SessionsSpec => []OneActivePerFamily
<1>1. SessionsInv /\ OneActivePerFamily /\ [SessionsNext]_sessionVars
        => (SessionsInv /\ OneActivePerFamily)'
  BY SessionsNextInv, OneActiveKept
<1> QED BY SessionsInitInv, <1>1, PTL DEF SessionsSpec

LEMMA ReusedFamilyKept ==
    SessionsInv /\ ReusedFamilyDead /\ [SessionsNext]_sessionVars => ReusedFamilyDead'
<1> SUFFICES ASSUME SessionsInv, ReusedFamilyDead, [SessionsNext]_sessionVars,
                    NEW s \in Sessions, sessions'[s].status = "ACTIVE",
                    sessions'[s].family \in reuses'
             PROVE  sessions'[s].family \in outrun'
  BY DEF ReusedFamilyDead, Active
<1>1. CASE UNCHANGED <<reuses, outrun>>
  <2>1. CASE sessions'[s] = sessions[s]
    BY <1>1, <2>1 DEF ReusedFamilyDead, Active
  <2>2. CASE ~Exists(s) /\ sessions'[s].family = s
    BY <1>1, <2>2 DEF SessionsInv, Rooted
  <2>3. ASSUME NEW r \in Sessions, Active(r), sessions'[s].family = sessions[r].family
        PROVE  sessions'[s].family \in outrun'
    BY <1>1, <2>3 DEF ReusedFamilyDead
  <2> QED BY <2>1, <2>2, <2>3, BecomesActive
<1>2. ASSUME NEW f \in Sessions,
             reuses' = reuses \cup {f}, outrun \subseteq outrun',
             f \in outrun' \/ \A t \in Family(f) : sessions'[t].status = "REVOKED",
             \A t \in Sessions : Exists(t) \/ sessions'[t] = sessions[t]
      PROVE  sessions'[s].family \in outrun'
  <2>1. Exists(s)
    BY <1>2 DEF Exists
  <2>2. sessions'[s] = sessions[s]
    <3>1. CASE ~Exists(s)
      BY <2>1, <3>1
    <3> QED BY <2>1, <3>1, BecomesActive
  <2>3. CASE sessions[s].family = f
    BY <1>2, <2>1, <2>2, <2>3 DEF Family
  <2>4. CASE sessions[s].family # f
    BY <1>2, <2>2, <2>4 DEF ReusedFamilyDead, Active
  <2> QED BY <2>3, <2>4
<1> QED BY <1>1, <1>2, ReuseRecorded

\* No session of a family whose reuse was recorded is live, but after a rotation
\* that outran the revocation.
THEOREM ReusedFamilyStaysDead == SessionsSpec => []ReusedFamilyDead
<1>1. SessionsInv /\ ReusedFamilyDead /\ [SessionsNext]_sessionVars
        => (SessionsInv /\ ReusedFamilyDead)'
  BY SessionsNextInv, ReusedFamilyKept
<1> QED BY SessionsInitInv, <1>1, PTL DEF SessionsSpec

\* A session that ended is rewritten only to record reuse in its family.
THEOREM EndsForGood == SessionsSpec => EndsOnce
<1> DEFINE Ends ==
      \A s \in Sessions :
         Exists(s) /\ ~Active(s) /\ sessions'[s] # sessions[s]
           => /\ sessions'[s].reason = "TOKEN_REUSE"
              /\ sessions[s].family \in reuses'
<1>1. ASSUME SessionsInv, [SessionsNext]_sessionVars PROVE Ends
  <2>0. sessions \in [Sessions -> [family : Sessions \cup {0}, status : SessionStatuses,
                                   reason : Reasons]]
    BY <1>1 DEF SessionsInv, SessionsTypeOK
  <2> SUFFICES ASSUME NEW s \in Sessions, Exists(s), ~Active(s),
                      sessions'[s] # sessions[s]
               PROVE  sessions'[s].reason = "TOKEN_REUSE" /\ sessions[s].family \in reuses'
    OBVIOUS
  <2>1. ASSUME NEW c \in Calls, RevokeFamily(c)
        PROVE  sessions'[s].reason = "TOKEN_REUSE" /\ sessions[s].family \in reuses'
    <3>1. s \in calls[c].targets
      BY <2>0, <2>1 DEF RevokeFamily
    <3>2. sessions[s].family = sessions[calls[c].session].family
      BY <1>1, <2>1, <3>1 DEF RevokeFamily, SessionsInv, Grounded, GroundedCall, Family
    <3> QED BY <2>0, <2>1, <3>1, <3>2 DEF RevokeFamily, Revoked
  <2>2. ASSUME NEW c \in Calls, Rotate(c) PROVE FALSE
    <3>1. Active(calls[c].session)
      BY <1>1, <2>2 DEF Rotate, SessionsInv, Owned
    <3> QED BY <2>0, <2>2, <3>1 DEF Rotate, Fresh
  <2>3. ASSUME NEW c \in Calls, Login(c) \/ WriteGuarded(c) \/ RevokeAll(c) PROVE FALSE
    BY <2>0, <2>3 DEF Login, Fresh, WriteGuarded, WriteIf, RevokeAll
  <2> QED
    BY <1>1, <2>1, <2>2, <2>3
    DEF SessionsNext, sessionVars, TimePasses, Refresh, LogoutByToken, LogoutByAccess,
        Begin, Claim, ClaimIf, Look, LookRevoking, LogoutAll, RollBack
<1>2. SessionsInv /\ [SessionsNext]_sessionVars => [Ends]_sessionVars
  BY <1>1
<1> QED BY SessionsInitInv, SessionsNextInv, <1>2, PTL DEF SessionsSpec, EndsOnce
=============================================================================
