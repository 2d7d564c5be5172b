------------------------------- MODULE SignIn -------------------------------
(***************************************************************************)
(* One person's account and sessions: refresh tokens and their rotation    *)
(* (prisma-refresh-token.repository.ts), sign-in and enrollment of the     *)
(* desktop agent, password and status changes, deletion, and the keys an   *)
(* agent signs out with (signout-keys.service.ts).                         *)
(*                                                                         *)
(* Nothing here takes a lock.  A request is a sequence of single           *)
(* statements, each atomic, any other request's statements in between; the *)
(* conditions in the statements (a claim is an updateMany ... WHERE        *)
(* revoked_at IS NULL) are all that orders them.  The users row is read    *)
(* whole and written back whole, but for the columns updated in place      *)
(* (enrollVersion, deletedAt, agentActivatedAt).                           *)
(***************************************************************************)
EXTENDS Naturals, FiniteSets

CONSTANTS
    Requests,      \* requests being served
    Tokens,        \* refresh tokens
    Keys,          \* sign-out keys
    Grace,         \* REFRESH_REUSE_GRACE_MS
    Ttl,           \* the life of a refresh token
    KeyTtl,        \* KEY_TTL_MS
    Retention,     \* how long a dead token is kept
    MaxTime,       \* bound: the last moment
    MaxRequests,   \* bound: requests made
    MaxFaults,     \* bound: failed writes, lost cache entries, cut-off requests
    Moves,         \* Moves[a]: what a asks for
    Purged,        \* what is left of a token that was swept away
    None

Times == 0 .. MaxTime

SignInAssumption ==
    /\ Grace \in Nat /\ Ttl \in Nat \ {0} /\ KeyTtl \in Nat \ {0} /\ Retention \in Nat
    /\ MaxTime \in Nat /\ MaxRequests \in Nat /\ MaxFaults \in Nat
    /\ Tokens \subseteq Nat /\ IsFiniteSet(Tokens) /\ IsFiniteSet(Requests)
    /\ None \notin Nat /\ None \notin Keys /\ Purged # None
ASSUME SignInAssumption

\* A token: the sign-in its chain began with, whether the agent holds it, when it
\* expires, when and by what it was revoked, and the token that replaced it.
Token == [root : Tokens, agent : BOOLEAN, expires : Nat, revoked : Nat \cup {None},
          by : {"nobody", "rotation", "signOut"}, next : Tokens \cup {None}]
HeldToken == [token : Tokens, until : Nat]
KeyRow == [expires : Nat, revoked : BOOLEAN, uses : Nat]

ASSUME NothingIsNoRow == {None, Purged} \cap (Token \cup HeldToken \cup KeyRow) = {}

VARIABLES
    clock,
    active,     \* users.status; it stands for the columns that are written back whole
    deleted,    \* users.deletedAt is set
    enroll,     \* users.enrollVersion
    activated,  \* users.agentActivatedAt is set
    tokens,     \* tokens[t]: a Token, or None
    held,       \* the cache: held[t] is the token that replaced t, and until when
    keys,       \* keys[k]: expiry, revoked, uses; or None
    act,        \* act[a]: where a's request stands
    asked, faults,
    spare,      \* ghost: sessions a fault or a missed replay added to a chain
    announced   \* ghost: how often the first activation was announced

account == <<active, deleted, enroll, activated>>
ghosts == <<spare, announced>>
vars == <<clock, account, tokens, held, keys, act, asked, faults, ghosts>>

-----------------------------------------------------------------------------
(* Requests *)

Idle == [step |-> "idle", move |-> None, at |-> 0, old |-> None, new |-> None,
         copy |-> FALSE, then |-> None]
At(a, step) == act[a].step = step
Goto(a, step) == act' = [act EXCEPT ![a].step = step]
Done(a) == act' = [act EXCEPT ![a] = Idle]
Serves(a, move) == At(a, "idle") /\ move \in Moves[a]
Begin(a, move, step, copy, then) ==
    act' = [act EXCEPT ![a] = [Idle EXCEPT !.step = step, !.move = move, !.at = clock,
                                           !.copy = copy, !.then = then]]
\* A write fails, or its answer is lost, within the bound.
Fault == faults < MaxFaults /\ faults' = faults + 1
NoFault == UNCHANGED faults

Issued == {t \in Tokens : tokens[t] \notin {None, Purged}}
\* Ids are random and never compared: the lowest one left stands for any.
Fresh == {t \in Tokens : tokens[t] = None /\ \A u \in Tokens : u < t => tokens[u] # None}
Live(t) == t \in Issued /\ tokens[t].revoked = None /\ tokens[t].expires > clock
Chain(r) == {t \in Issued : tokens[t].root = r}

NewToken(root, agent, at) ==
    [root |-> root, agent |-> agent, expires |-> at + Ttl, revoked |-> None,
     by |-> "nobody", next |-> None]
\* The tokens in s that are not revoked yet are.
Revoke(s, by, t) ==
    [x \in Tokens |-> IF x \in s \cap Issued /\ tokens[x].revoked = None
                      THEN [tokens[x] EXCEPT !.revoked = t, !.by = by] ELSE tokens[x]]

-----------------------------------------------------------------------------
(* Refresh: rotate *)

\* mutant: the old read-then-write, which lets everyone pass.
MayClaim_Read(t, at) == tokens[t].expires > at
\* updateMany ... WHERE revokedAt IS NULL AND expiresAt > now.
MayClaim(t, at) == tokens[t].revoked = None /\ tokens[t].expires > at

\* The claim, a compare-and-set: the one whose update counts goes on to mint.
Claim(a) ==
    \E t \in Issued :
        /\ Serves(a, "refresh")
        /\ act' = [act EXCEPT ![a] =
                     [Idle EXCEPT !.move = "refresh", !.at = clock, !.old = t,
                                  !.step = IF MayClaim(t, clock) THEN "mint" ELSE "tolerate"]]
        /\ tokens' = IF MayClaim(t, clock)
                     THEN [tokens EXCEPT ![t].revoked = clock, ![t].by = "rotation"]
                     ELSE tokens
        /\ UNCHANGED <<clock, account, held, keys, faults, ghosts>>

\* The successor is created, or the write fails; its answer may be lost too.
Mint(a) ==
    /\ At(a, "mint")
    /\ \E n \in Fresh :
         LET old == tokens[act[a].old]
             minted == [tokens EXCEPT ![n] = NewToken(old.root, old.agent, act[a].at)]
         IN \/ /\ tokens' = minted
               /\ act' = [act EXCEPT ![a].step = "link", ![a].new = n]
               /\ NoFault /\ UNCHANGED spare
            \/ /\ Fault /\ Goto(a, "giveBack")
               /\ \/ UNCHANGED <<tokens, spare>>
                  \/ tokens' = minted /\ spare' = [spare EXCEPT ![old.root] = @ + 1]
    /\ UNCHANGED <<clock, account, held, keys, announced>>

\* replacedById is written; the write may fail, or its answer be lost.
Link(a) ==
    /\ At(a, "link")
    /\ LET t == act[a].old
           root == tokens[act[a].new].root
       IN \/ /\ tokens' = [tokens EXCEPT ![t].next = act[a].new]
             /\ Goto(a, "hold") /\ NoFault /\ UNCHANGED spare
          \/ /\ Fault /\ Goto(a, "giveBack")
             /\ spare' = [spare EXCEPT ![root] = @ + 1]
             /\ tokens' \in {tokens, [tokens EXCEPT ![t].next = act[a].new]}
    /\ UNCHANGED <<clock, account, held, keys, announced>>

\* The new token waits in the cache for the losers of its race, if the cache works.
Hold(a) ==
    /\ At(a, "hold")
    /\ \/ /\ held' = [held EXCEPT ![act[a].old] = [token |-> act[a].new, until |-> clock + Grace]]
          /\ NoFault
       \/ Fault /\ UNCHANGED held
    /\ Done(a)
    /\ UNCHANGED <<clock, account, tokens, keys, ghosts>>

\* The failed winner hands the old token back, so that a retry works.
GivenBack(t) ==
    [x \in Tokens |-> IF x = t /\ x \in Issued
                      THEN [tokens[x] EXCEPT !.revoked = None, !.by = "nobody"] ELSE tokens[x]]
GiveBack(a) ==
    /\ At(a, "giveBack")
    /\ \/ tokens' = GivenBack(act[a].old) /\ NoFault
       \/ Fault /\ UNCHANGED tokens
    /\ Done(a)
    /\ UNCHANGED <<clock, account, held, keys, ghosts>>

\* tolerateRace: refused, unless the token was rotated and linked moments ago.
Tolerate(a) ==
    /\ At(a, "tolerate")
    /\ LET t == act[a].old
       IN IF /\ t \in Issued
             /\ tokens[t].revoked # None /\ tokens[t].next # None
             /\ act[a].at <= tokens[t].revoked + Grace
          THEN Goto(a, "replay") ELSE Done(a)
    /\ UNCHANGED <<clock, account, tokens, held, keys, faults, ghosts>>

\* The loser gets the winner's token, or one more when it is held no longer.
Holds(t) == held[t] # None /\ clock < held[t].until
Replay(a) ==
    /\ At(a, "replay")
    /\ LET t == act[a].old IN
       IF Holds(t) \/ t \notin Issued
       THEN Done(a) /\ UNCHANGED <<tokens, spare>>
       ELSE \E n \in Fresh :
              /\ tokens' = [tokens EXCEPT ![n] =
                              NewToken(tokens[t].root, tokens[t].agent, clock)]
              /\ spare' = [spare EXCEPT ![tokens[t].root] = @ + 1]
              /\ Done(a)
    /\ UNCHANGED <<clock, account, held, keys, faults, announced>>

\* RefreshTokenCleanupJob: what died long ago (a week; no request lasts so long) is
\* swept away.
Purge ==
    /\ \A a \in Requests : At(a, "idle") \/ act[a].at + Retention > clock
    /\ tokens' = [t \in Tokens |->
                    IF /\ t \in Issued
                       /\ \/ tokens[t].expires + Retention < clock
                          \/ tokens[t].revoked # None /\ tokens[t].revoked + Retention < clock
                    THEN Purged ELSE tokens[t]]
    /\ UNCHANGED <<clock, account, held, keys, act, faults, ghosts>>

-----------------------------------------------------------------------------
(* Signing in *)

\* LoginUserUseCase: the row is read, the password compared, then a token issued.
JudgeLogin(a) ==
    /\ ~deleted
    /\ \E move \in {"login", "agentLogin"} :
         Serves(a, move) /\ Begin(a, move, "issue", active, None)
    /\ UNCHANGED <<clock, account, tokens, held, keys, faults, ghosts>>
\* EnrollAgentUseCase: a code of the version the row was read with.
JudgeEnroll(a) ==
    /\ Serves(a, "enroll") /\ ~deleted
    /\ \E version \in 1 .. enroll :
         version = enroll /\ Begin(a, "enroll", "issue", active, None)
    /\ UNCHANGED <<clock, account, tokens, held, keys, faults, ghosts>>
\* Refused when the row that was read says so.
IssueToken(a) ==
    /\ At(a, "issue")
    /\ LET agent == act[a].move \in {"agentLogin", "enroll"} IN
       IF ~act[a].copy THEN Done(a) /\ UNCHANGED tokens
       ELSE \E n \in Fresh :
              /\ tokens' = [tokens EXCEPT ![n] = NewToken(n, agent, clock)]
              /\ IF agent THEN Goto(a, "activate") ELSE Done(a)
    /\ UNCHANGED <<clock, account, held, keys, faults, ghosts>>

\* markAgentActivatedIfFirst: only a row still null is touched, and counts.
IsFirst == ~activated
Activate(a) ==
    /\ At(a, "activate")
    /\ activated' = TRUE
    /\ announced' = IF IsFirst THEN announced + 1 ELSE announced
    /\ Done(a)
    /\ UNCHANGED <<clock, active, deleted, enroll, tokens, held, keys, faults, spare>>

\* LogoutUserUseCase.
Logout(a) ==
    /\ Serves(a, "logout")
    /\ \E t \in Issued : tokens' = Revoke({t}, "signOut", clock)
    /\ UNCHANGED <<clock, account, held, keys, act, faults, ghosts>>

-----------------------------------------------------------------------------
(* The account: the row is read whole and later saved whole *)

\* UpdateUserUseCase and the other edits of a person: the status is not theirs.
ReadForEdit(a) ==
    /\ Serves(a, "edit") /\ ~deleted
    /\ Begin(a, "edit", "save", active, None)
    /\ UNCHANGED <<clock, account, tokens, held, keys, faults, ghosts>>
\* SetUserStatusUseCase: only a change is published.
ReadForStatus(a) ==
    /\ Serves(a, "status") /\ ~deleted
    /\ \E to \in BOOLEAN :
         Begin(a, "status", "save", to, IF active /\ ~to THEN "revokeAll" ELSE None)
    /\ UNCHANGED <<clock, account, tokens, held, keys, faults, ghosts>>
\* SetUserPasswordUseCase, with "sign out everywhere" or not.
ReadForPassword(a) ==
    /\ Serves(a, "setPassword") /\ ~deleted
    /\ \E everywhere \in BOOLEAN :
         Begin(a, "setPassword", "save", active, IF everywhere THEN "bump" ELSE None)
    /\ UNCHANGED <<clock, account, tokens, held, keys, faults, ghosts>>
\* ChangePasswordUseCase: this device gets a session, the others keep theirs or not.
ReadForChange(a) ==
    /\ Serves(a, "changePassword") /\ ~deleted /\ active
    /\ \E others \in BOOLEAN :
         Begin(a, "changePassword", "save", active, IF others THEN "revokeAll" ELSE "issue")
    /\ UNCHANGED <<clock, account, tokens, held, keys, faults, ghosts>>

\* PostgresUserRepository.save.
Save(a) ==
    /\ At(a, "save")
    /\ active' = act[a].copy
    /\ IF act[a].then = None THEN Done(a) ELSE Goto(a, act[a].then)
    /\ UNCHANGED <<clock, deleted, enroll, activated, tokens, held, keys, faults, ghosts>>

\* bumpEnrollVersion, incremented in place.
Bump(a) ==
    /\ At(a, "bump")
    /\ enroll' = enroll + 1
    /\ IF act[a].move = "setPassword" THEN Goto(a, "revokeAll") ELSE Done(a)
    /\ UNCHANGED <<clock, active, deleted, activated, tokens, held, keys, faults, ghosts>>

\* DeleteUserUseCase.
Delete(a) ==
    /\ Serves(a, "delete") /\ ~deleted
    /\ deleted' = TRUE
    /\ Begin(a, "delete", "revokeAll", FALSE, None)
    /\ UNCHANGED <<clock, active, enroll, activated, tokens, held, keys, faults, ghosts>>

\* mutant: what was revoked already is revoked again.
RevokedAll_Again(t) ==
    [x \in Tokens |-> IF x \in Issued THEN [tokens[x] EXCEPT !.revoked = t, !.by = "signOut"]
                      ELSE tokens[x]]
RevokedAll(t) == Revoke(Tokens, "signOut", t)
\* SignOutOnAccessChangeSubscriber, or a password change.
RevokeAll(a) ==
    /\ At(a, "revokeAll")
    /\ tokens' = RevokedAll(clock)
    /\ IF act[a].move = "changePassword" THEN Goto(a, "issue") ELSE Done(a)
    /\ UNCHANGED <<clock, account, held, keys, faults, ghosts>>

-----------------------------------------------------------------------------
(* Sign-out keys *)

KeyActive(k, at) == keys[k] # None /\ ~keys[k].revoked /\ keys[k].expires > at
CreateKey(a) ==
    /\ Serves(a, "keys")
    /\ \E k \in Keys :
         /\ keys[k] = None
         /\ keys' = [keys EXCEPT ![k] = [expires |-> clock + KeyTtl, revoked |-> FALSE, uses |-> 0]]
    /\ UNCHANGED <<clock, account, tokens, held, act, faults, ghosts>>
RevokeKey(a) ==
    /\ Serves(a, "keys")
    /\ \E k \in Keys :
         keys[k] # None /\ ~keys[k].revoked /\ keys' = [keys EXCEPT ![k].revoked = TRUE]
    /\ UNCHANGED <<clock, account, tokens, held, act, faults, ghosts>>

\* useKey: a key that covers the person and matches is found ...
FindKey(a) ==
    /\ \E move \in {"signOut", "quit"}, k \in Keys :
         /\ Serves(a, move) /\ KeyActive(k, clock)
         /\ act' = [act EXCEPT ![a] = [Idle EXCEPT !.move = move, !.step = "useKey",
                                                    !.at = clock, !.old = k]]
    /\ UNCHANGED <<clock, account, tokens, held, keys, faults, ghosts>>
\* ... and claimed, unless it was revoked meanwhile.
MayUse(k, at) == KeyActive(k, at)
UseKey(a) ==
    /\ At(a, "useKey")
    /\ LET k == act[a].old IN
       IF MayUse(k, act[a].at)
       THEN /\ keys' = [keys EXCEPT ![k].uses = @ + 1]
            /\ IF act[a].move = "signOut" THEN Goto(a, "revokeAgent") ELSE Done(a)
       ELSE Done(a) /\ UNCHANGED keys
    /\ UNCHANGED <<clock, account, tokens, held, faults, ghosts>>
\* revokeAgentSessions, then the version moves on: the portal session is left alone.
RevokeAgent(a) ==
    /\ At(a, "revokeAgent")
    /\ tokens' = Revoke({t \in Issued : tokens[t].agent}, "signOut", clock)
    /\ Goto(a, "bump")
    /\ UNCHANGED <<clock, account, held, keys, faults, ghosts>>

-----------------------------------------------------------------------------
\* The process is cut off: a request stops where it is.
CutOff(a) ==
    /\ ~At(a, "idle") /\ Fault /\ Done(a)
    /\ UNCHANGED <<clock, account, tokens, held, keys, ghosts>>
\* The cache lives in the process's memory.
Restart ==
    /\ Fault /\ held' = [t \in Tokens |-> None]
    /\ act' = [a \in Requests |-> Idle]
    /\ UNCHANGED <<clock, account, tokens, keys, ghosts>>
Tick ==
    /\ clock < MaxTime /\ clock' = clock + 1
    /\ UNCHANGED <<account, tokens, held, keys, act, faults, ghosts>>

Init ==
    /\ clock = 0 /\ active = TRUE /\ deleted = FALSE /\ enroll = 1 /\ activated = FALSE
    /\ tokens = [t \in Tokens |-> None] /\ held = [t \in Tokens |-> None]
    /\ keys = [k \in Keys |-> None]
    /\ act = [a \in Requests |-> Idle]
    /\ asked = 0 /\ faults = 0
    /\ spare = [t \in Tokens |-> 0] /\ announced = 0

Begins(a) ==
    \/ Claim(a) \/ JudgeLogin(a) \/ JudgeEnroll(a) \/ Logout(a) \/ ReadForEdit(a)
    \/ ReadForStatus(a) \/ ReadForPassword(a) \/ ReadForChange(a) \/ Delete(a)
    \/ CreateKey(a) \/ RevokeKey(a) \/ FindKey(a)
Goes(a) ==
    \/ Mint(a) \/ Link(a) \/ Hold(a) \/ GiveBack(a) \/ Tolerate(a) \/ Replay(a)
    \/ IssueToken(a) \/ Activate(a) \/ Save(a) \/ Bump(a) \/ RevokeAll(a)
    \/ UseKey(a) \/ RevokeAgent(a) \/ CutOff(a)
Next ==
    \/ \E a \in Requests : Begins(a) /\ asked < MaxRequests /\ asked' = asked + 1
    \/ ((\E a \in Requests : Goes(a)) \/ Purge \/ Restart \/ Tick) /\ UNCHANGED asked

Spec == Init /\ [][Next]_vars

-----------------------------------------------------------------------------
(* Properties *)

TypeOK ==
    /\ clock \in Times /\ {active, deleted, activated} \subseteq BOOLEAN
    /\ enroll \in Nat /\ asked \in 0 .. MaxRequests /\ faults \in 0 .. MaxFaults
    /\ tokens \in [Tokens -> Token \cup {None, Purged}]
    /\ held \in [Tokens -> HeldToken \cup {None}]
    /\ keys \in [Keys -> KeyRow \cup {None}]

\* However many refreshes of one session race, whatever is cut off and whichever
\* moment each is served at, one session stays one: the live tokens of a sign-in
\* are one, and those that a failed write or a replay that was no longer held
\* added.
RaceKeepsOneSession ==
    \A r \in Tokens : Cardinality({t \in Chain(r) : Live(t)}) <= 1 + spare[r]

\* A token that a sign-out revoked stays revoked: no claim, no token given back
\* after a failed rotation, and no later sign-out writes it again (rotate, giveBack,
\* revokeAllForUser).  A rotation under way is not ended by it: its old token was
\* revoked already, and its successor is minted after the sign-out.
SignOutIsFinal ==
    [][\A t \in Issued : tokens[t].by = "signOut" => tokens'[t] \in {tokens[t], Purged}]_vars

\* Of all sign-ins and enrollments of a person's agents, in any order, one is
\* announced as the first.
ActivatedOnce == announced <= 1

\* Whichever of them wins, a race has one winner: one live token of a session
\* (rotate, tolerateRace), one announced activation (markAgentActivatedIfFirst).
RacesHaveOneWinner == TypeOK /\ RaceKeepsOneSession /\ ActivatedOnce

\* A key is not used once it is revoked, however the use and the revocation cross.
RevokedKeyIsUnused ==
    [][\A k \in Keys : keys[k] # None /\ keys[k].revoked => keys'[k] = keys[k]]_vars

\* What was taken away is not used again by a request that read it before:
\* revoked sessions (rotate, revokeAllForUser) and revoked keys (useKey).
RevocationIsFinal == SignOutIsFinal /\ RevokedKeyIsUnused
=============================================================================
