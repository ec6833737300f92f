-------------------------------- MODULE Sessions --------------------------------
(***************************************************************************)
(* The refresh sessions of one user: login and registration, refresh with   *)
(* the rotation of tokens and the detection of reuse, logout and logout     *)
(* from all devices (AuthService).  The sessions of different users share   *)
(* no row.  Access tokens are stateless and left out.                       *)
(*                                                                         *)
(* Calls overlap.  A guarded UPDATE waits for the transaction that holds    *)
(* its row and judges the row it finds then; an UPDATE of many rows visits  *)
(* those that were committed when it began.                                 *)
(***************************************************************************)
EXTENDS Naturals

CONSTANTS
    Calls,       \* calls that may overlap
    MaxSessions, \* bound on sessions
    MaxCalls     \* bound on calls

ASSUME SessionsAssumption == MaxSessions \in Nat /\ MaxCalls \in Nat

Sessions == 1..MaxSessions

VARIABLES
    sessions, \* the refresh_sessions rows, numbered as they are inserted
    expired,  \* sessions whose expires_at has passed
    reuses,   \* families with a REFRESH_TOKEN_REUSE_DETECTED event
    outrun,   \* families that gained a session while they were revoked
    calls,    \* what each call is doing
    called    \* calls so far

sessionVars == <<sessions, expired, reuses, outrun, calls, called>>

-------------------------------------------------------------------------------
SessionStatuses == {"NONE", "ACTIVE", "REVOKED", "EXPIRED"}
Reasons == {"NONE", "ROTATED", "LOGOUT", "LOGOUT_ALL", "TOKEN_REUSE"}
NoSession == [family |-> 0, status |-> "NONE", reason |-> "NONE"]
CallPhases == {"idle", "claim", "look", "rotate", "expire", "logout", "reuse", "all"}
\* targets is what an UPDATE of many rows found, known the family at that time.
NoCall == [phase |-> "idle", session |-> 0, late |-> FALSE, targets |-> {},
           known |-> {}]

SessionsTypeOK ==
    /\ sessions \in [Sessions -> [family : Sessions \cup {0},
                                  status : SessionStatuses, reason : Reasons]]
    /\ expired \subseteq Sessions /\ reuses \subseteq Sessions
    /\ outrun \subseteq Sessions
    /\ calls \in [Calls -> [phase : CallPhases, session : Sessions \cup {0},
                            late : BOOLEAN, targets : SUBSET Sessions,
                            known : SUBSET Sessions]]
    /\ called \in 0..MaxCalls

SessionsInit ==
    /\ sessions = [s \in Sessions |-> NoSession]
    /\ expired = {} /\ reuses = {} /\ outrun = {}
    /\ calls = [c \in Calls |-> NoCall]
    /\ called = 0

Exists(s) == sessions[s].status # "NONE"
Active(s) == sessions[s].status = "ACTIVE"
Family(f) == {s \in Sessions : Exists(s) /\ sessions[s].family = f}

\* A rotation holds the row of the session it claimed until it commits.
Rotating(s) == \E c \in Calls : calls[c].phase = "rotate" /\ calls[c].session = s

Fresh(s) == ~Exists(s) /\ \A p \in 1..(s - 1) : Exists(p)
Issued(family) == [family |-> family, status |-> "ACTIVE", reason |-> "NONE"]
Revoked(s, reason) == [sessions[s] EXCEPT !.status = "REVOKED", !.reason = reason]

Called == called < MaxCalls /\ called' = called + 1
Goes(c, phase) == calls' = [calls EXCEPT ![c].phase = phase]
Returns(c) == calls' = [calls EXCEPT ![c] = NoCall]

-------------------------------------------------------------------------------
\* login and register open a family of their own.
Login(c) ==
    /\ calls[c].phase = "idle" /\ Called
    /\ \E s \in Sessions :
         Fresh(s) /\ sessions' = [sessions EXCEPT ![s] = Issued(s)]
    /\ UNCHANGED <<expired, reuses, outrun, calls>>

TimePasses(s) ==
    /\ Exists(s)
    /\ expired' = expired \cup {s}
    /\ UNCHANGED <<sessions, reuses, outrun, calls, called>>

\* refresh and logout take the time before their first statement.
Begin(c, s, phase) ==
    /\ calls[c].phase = "idle" /\ Called
    /\ Exists(s)
    /\ calls' = [calls EXCEPT ![c] =
         [NoCall EXCEPT !.phase = phase, !.session = s, !.late = s \in expired]]
    /\ UNCHANGED <<sessions, expired, reuses, outrun>>

Refresh(c, s) == Begin(c, s, "claim")

ClaimIf(c, claimable) ==
    /\ calls[c].phase = "claim"
    /\ ~Rotating(calls[c].session)
    /\ Goes(c, IF claimable THEN "rotate" ELSE "look")
    /\ UNCHANGED <<sessions, expired, reuses, outrun, called>>

\* Slip: the claim looks at the expiry only.
ClaimAnyStatus(c) ==
    ClaimIf(c, sessions[calls[c].session].status # "EXPIRED" /\ ~calls[c].late)

\* The UPDATE claims an ACTIVE session that had not expired.
Claim(c) == ClaimIf(c, Active(calls[c].session) /\ ~calls[c].late)

\* The commit: the claimed session is ROTATED and its successor inserted.
Rotate(c) ==
    LET s == calls[c].session IN
    /\ calls[c].phase = "rotate"
    /\ \E next \in Sessions :
         /\ Fresh(next)
         /\ sessions' = [sessions EXCEPT ![s] = Revoked(s, "ROTATED"),
                                         ![next] = Issued(sessions[s].family)]
    /\ Returns(c)
    /\ UNCHANGED <<expired, reuses, outrun, called>>

\* The claim failed: the presented session is read.
LookRevoking(c, targets) ==
    LET s == calls[c].session
        reuse == sessions[s].status = "REVOKED" /\ sessions[s].reason = "ROTATED"
    IN
    /\ calls[c].phase = "look"
    /\ calls' = [calls EXCEPT ![c] =
         IF Active(s) THEN [@ EXCEPT !.phase = "expire"]
         ELSE IF reuse THEN [@ EXCEPT !.phase = "reuse", !.targets = targets,
                                       !.known = Family(sessions[s].family)]
         ELSE NoCall]
    /\ UNCHANGED <<sessions, expired, reuses, outrun, called>>

\* Slip: only the session that was presented is revoked.
LookAtOne(c) == LookRevoking(c, {calls[c].session})

\* The UPDATE of the whole family finds the sessions committed by now.
Look(c) == LookRevoking(c, Family(sessions[calls[c].session].family))

\* It waits for rotations of them, revokes them all whatever their status, and
\* commits with the event.
RevokeFamily(c) ==
    LET family == sessions[calls[c].session].family IN
    /\ calls[c].phase = "reuse"
    /\ \A s \in calls[c].targets : ~Rotating(s)
    /\ sessions' = [s \in Sessions |-> IF s \in calls[c].targets
                                       THEN Revoked(s, "TOKEN_REUSE") ELSE sessions[s]]
    /\ reuses' = reuses \cup {family}
    /\ outrun' = IF Family(family) = calls[c].known THEN outrun
                 ELSE outrun \cup {family}
    /\ Returns(c)
    /\ UNCHANGED <<expired, called>>

-------------------------------------------------------------------------------
\* logout with a refresh token reads the session; with an access token it goes
\* straight to the UPDATE.
LogoutByToken(c, s) ==
    /\ Active(s)
    /\ Begin(c, s, IF s \in expired THEN "expire" ELSE "logout")

LogoutByAccess(c, s) == Begin(c, s, "logout")

WriteIf(c, guard) ==
    LET s == calls[c].session IN
    /\ calls[c].phase \in {"expire", "logout"}
    /\ ~Rotating(s)
    /\ sessions' = [sessions EXCEPT ![s] =
         IF ~guard THEN @
         ELSE IF calls[c].phase = "logout" THEN Revoked(s, "LOGOUT")
         ELSE [@ EXCEPT !.status = "EXPIRED"]]
    /\ Returns(c)
    /\ UNCHANGED <<expired, reuses, outrun, called>>

\* Slip: the UPDATE relies on the status that was read.
WriteUnguarded(c) == WriteIf(c, TRUE)

\* Both UPDATEs, and the one of a refresh that came late, ask for ACTIVE again.
WriteGuarded(c) == WriteIf(c, Active(calls[c].session))

\* logoutAll: the sessions that are ACTIVE when the UPDATE begins ...
LogoutAll(c) ==
    /\ calls[c].phase = "idle" /\ Called
    /\ calls' = [calls EXCEPT ![c] = [NoCall EXCEPT !.phase = "all",
                                        !.targets = {s \in Sessions : Active(s)}]]
    /\ UNCHANGED <<sessions, expired, reuses, outrun>>

\* ... and still are when their rows are free.
RevokeAll(c) ==
    /\ calls[c].phase = "all"
    /\ \A s \in calls[c].targets : ~Rotating(s)
    /\ sessions' = [s \in Sessions |->
                      IF s \in calls[c].targets /\ Active(s)
                      THEN Revoked(s, "LOGOUT_ALL") ELSE sessions[s]]
    /\ Returns(c)
    /\ UNCHANGED <<expired, reuses, outrun, called>>

\* The transaction is rolled back, or its process dies.
RollBack(c) ==
    /\ calls[c].phase # "idle"
    /\ Returns(c)
    /\ UNCHANGED <<sessions, expired, reuses, outrun, called>>

SessionsNext ==
    \/ \E c \in Calls :
         \/ Login(c)
         \/ \E s \in Sessions :
                Refresh(c, s) \/ LogoutByToken(c, s) \/ LogoutByAccess(c, s)
         \/ Claim(c) \/ Rotate(c) \/ Look(c) \/ RevokeFamily(c)
         \/ WriteGuarded(c) \/ LogoutAll(c) \/ RevokeAll(c) \/ RollBack(c)
    \/ \E s \in Sessions : TimePasses(s)

SessionsSpec == SessionsInit /\ [][SessionsNext]_sessionVars

-------------------------------------------------------------------------------
(* Properties.                                                             *)

\* A family has one live token: overlapping refreshes of it, logouts and
\* rollbacks never leave two ACTIVE sessions (the claim of refresh).
OneActivePerFamily ==
    \A s \in Sessions :
        Active(s) => \A t \in Family(sessions[s].family) : Active(t) => s = t

\* How a session ended is not forgotten: once it is not ACTIVE it changes only
\* when reuse in its family is recorded, so a rotated token that is presented
\* again is always recognised (the guards of the UPDATEs of logout, logoutAll
\* and of a late refresh).
EndsOnce ==
    [][\A s \in Sessions :
         Exists(s) /\ ~Active(s) /\ sessions'[s] # sessions[s]
           => /\ sessions'[s].reason = "TOKEN_REUSE"
              /\ sessions[s].family \in reuses']_sessionVars

\* Once reuse was recorded in a family none of its sessions is ACTIVE, now or
\* ever after, unless a rotation outran the UPDATE that revoked the family.
ReusedFamilyDead ==
    \A s \in Sessions :
        Active(s) /\ sessions[s].family \in reuses => sessions[s].family \in outrun
=============================================================================
