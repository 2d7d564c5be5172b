---------------------------- MODULE PeopleProofs ----------------------------
(***************************************************************************)
(* What SignIn and Organisation promise.  They share no state: one account *)
(* that signs in and out, and the people of the organisations.             *)
(***************************************************************************)
EXTENDS SignIn, Organisation, FiniteSetTheorems, TLAPS

-----------------------------------------------------------------------------
(***************************************************************************)
(* What sign-in promises of one account, for every set of requests, tokens *)
(* and keys, every lifetime and every number of faults: however refreshes  *)
(* race, a session stays one; what a sign-out or a revocation ended is not *)
(* used again; the first activation is announced once.                     *)
(*                                                                         *)
(* No request holds a lock, so the invariant says what a request that won  *)
(* the claim of a token may rely on until it is done: the token is still   *)
(* the one it revoked, and nobody else has claimed it (ClaimsHold).        *)
(* ChainsHold counts a session: its tokens that are not revoked, and the   *)
(* one that a claim in flight will still bring, the new or the old.        *)
(***************************************************************************)

-----------------------------------------------------------------------------
(* The inductive invariant *)

Steps == {"idle", "mint", "link", "hold", "giveBack", "tolerate", "replay", "issue", "activate",
          "save", "bump", "revokeAll", "useKey", "revokeAgent"}
Asked == {"refresh", "login", "agentLogin", "enroll", "edit", "status", "setPassword",
          "changePassword", "delete", "signOut", "quit"}
Request == [step : Steps, move : Asked \cup {None}, at : Nat,
            old : Tokens \cup Keys \cup {None}, new : Tokens \cup {None},
            copy : BOOLEAN, then : {None, "revokeAll", "bump", "issue"}]

TypesHold ==
    /\ TypeOK
    /\ act \in [Requests -> Request]
    /\ spare \in [Tokens -> Nat] /\ announced \in Nat
    /\ \A a \in Requests : At(a, "useKey") => act[a].old \in Keys

\* A token is revoked by something, and its chain began with a token there was.
Ordered ==
    \A t \in Issued : /\ tokens[t].by = "nobody" <=> tokens[t].revoked = None
                      /\ tokens[tokens[t].root] # None

\* A request that won the claim of a token: it revoked it, and nobody touched it since.
Claims(a) == act[a].step \in {"mint", "link", "hold", "giveBack"}
OldHolds(a) ==
    /\ act[a].old \in Issued
    /\ tokens[act[a].old].by = "rotation" /\ tokens[act[a].old].revoked = act[a].at
    /\ tokens[act[a].old].expires > act[a].at
NewHolds(a) ==
    /\ act[a].new \in Issued
    /\ tokens[act[a].new].root = tokens[act[a].old].root
    /\ tokens[act[a].new].expires > act[a].at
    /\ tokens[act[a].new].revoked # None => tokens[act[a].new].revoked >= act[a].at
ClaimHolds(a) ==
    /\ act[a].at <= clock
    /\ OldHolds(a)
    /\ act[a].step \in {"link", "hold"} => NewHolds(a)
ClaimsHold ==
    /\ \A a \in Requests : Claims(a) => ClaimHolds(a)
    /\ \A a, b \in Requests : Claims(a) /\ Claims(b) /\ act[a].old = act[b].old => a = b

\* The tokens of a session, and the claims that will bring one more.
Unrevoked(r) == {t \in Chain(r) : tokens[t].revoked = None}
Coming(r) == {a \in Requests : /\ act[a].step \in {"mint", "giveBack"}
                               /\ tokens[act[a].old].root = r}
ChainHolds(r) == Cardinality(Unrevoked(r)) + Cardinality(Coming(r)) <= 1 + spare[r]
ChainsHold == \A r \in Tokens : ChainHolds(r)

FirstHolds == announced <= 1 /\ (announced = 1 => activated)

SignInInv == TypesHold /\ Ordered /\ ClaimsHold /\ ChainsHold /\ FirstHolds

-----------------------------------------------------------------------------
(* Rows and requests *)

\* None and Purged are no rows, and no instants.
LEMMA Nothing ==
    /\ None \notin Token /\ Purged \notin Token /\ None \notin KeyRow /\ None \notin HeldToken
    /\ None \notin Nat /\ None # Purged /\ Tokens \subseteq Nat /\ None \notin Tokens
    /\ Ttl \in Nat \ {0} /\ KeyTtl \in Nat \ {0} /\ Retention \in Nat /\ MaxTime \in Nat
    /\ MaxRequests \in Nat /\ MaxFaults \in Nat /\ Grace \in Nat
    /\ IsFiniteSet(Tokens) /\ IsFiniteSet(Requests)
  BY SignInAssumption, NothingIsNoRow DEF SignInAssumption

LEMMA IssuedAreTokens ==
  ASSUME TypeOK
  PROVE  \A t \in Tokens : /\ t \in Issued <=> tokens[t] \in Token
                           /\ t \in Issued <=> tokens[t] \notin {None, Purged}
  BY Nothing DEF TypeOK, Issued

LEMMA NewTokenTyped ==
  ASSUME NEW root \in Tokens, NEW agent \in BOOLEAN, NEW at \in Nat
  PROVE  /\ NewToken(root, agent, at) \in Token
         /\ NewToken(root, agent, at).root = root
         /\ NewToken(root, agent, at).revoked = None /\ NewToken(root, agent, at).by = "nobody"
         /\ NewToken(root, agent, at).expires \in Nat /\ NewToken(root, agent, at).expires > at
  BY Nothing DEF NewToken, Token

\* Request a moves to q, the others stay where they are.
Turns(a, q) ==
    /\ act' \in [Requests -> Request]
    /\ act'[a] = q
    /\ \A b \in Requests \ {a} : act'[b] = act[b]

LEMMA Turning ==
  ASSUME act \in [Requests -> Request], NEW a \in Requests, NEW q \in Request,
         act' = [act EXCEPT ![a] = q]
  PROVE  Turns(a, q)
  BY DEF Turns

LEMMA Going ==
  ASSUME act \in [Requests -> Request], NEW a \in Requests, NEW step \in Steps, Goto(a, step)
  PROVE  \E q \in Request :
           /\ Turns(a, q) /\ q.step = step
           /\ q.move = act[a].move /\ q.at = act[a].at /\ q.old = act[a].old
           /\ q.new = act[a].new /\ q.copy = act[a].copy /\ q.then = act[a].then
<1> DEFINE q == [act[a] EXCEPT !.step = step]
<1>1. /\ q \in Request /\ q.step = step
      /\ q.move = act[a].move /\ q.at = act[a].at /\ q.old = act[a].old
      /\ q.new = act[a].new /\ q.copy = act[a].copy /\ q.then = act[a].then
  BY DEF Request
<1>2. act' = [act EXCEPT ![a] = q]
  BY DEF Goto
<1> HIDE DEF q
<1> QED
  BY <1>1, <1>2, Turning

LEMMA IdleIsRequest == Idle \in Request /\ Idle.step = "idle"
  BY Nothing DEF Idle, Request, Steps

LEMMA Finishing ==
  ASSUME act \in [Requests -> Request], NEW a \in Requests, Done(a)
  PROVE  Turns(a, Idle)
  BY IdleIsRequest, Turning DEF Done

LEMMA Beginning ==
  ASSUME act \in [Requests -> Request], NEW a \in Requests, clock \in Nat,
         NEW move \in Asked, NEW step \in Steps, NEW copy \in BOOLEAN,
         NEW then \in {None, "revokeAll", "bump", "issue"},
         Begin(a, move, step, copy, then)
  PROVE  \E q \in Request :
           /\ Turns(a, q) /\ q.step = step /\ q.move = move /\ q.at = clock
           /\ q.copy = copy /\ q.then = then
<1> DEFINE q == [Idle EXCEPT !.step = step, !.move = move, !.at = clock,
                             !.copy = copy, !.then = then]
<1>1. /\ q \in Request /\ q.step = step /\ q.move = move /\ q.at = clock
      /\ q.copy = copy /\ q.then = then
  BY IdleIsRequest DEF Request
<1>2. act' = [act EXCEPT ![a] = q]
  BY DEF Begin
<1> HIDE DEF q
<1> QED
  BY <1>1, <1>2, Turning

-----------------------------------------------------------------------------
(* How a step changes the tokens *)

\* The table is one of tokens, and no id is forgotten.
Orderly ==
    /\ tokens' \in [Tokens -> Token \cup {None, Purged}]
    /\ \A t \in Tokens : tokens[t] # None => tokens'[t] # None
\* A row keeps what it was made with.
Keeps(t) ==
    /\ t \in Issued /\ t \in Issued'
    /\ tokens'[t].root = tokens[t].root /\ tokens'[t].expires = tokens[t].expires
    /\ tokens'[t].agent = tokens[t].agent
Untouched(t) ==
    Keeps(t) /\ tokens'[t].by = tokens[t].by /\ tokens'[t].revoked = tokens[t].revoked
\* What became of it since can only be a revocation now, or that it was given back.
Follows(t) == Keeps(t) /\ tokens'[t].revoked \in {tokens[t].revoked, None, clock}

\* A token is made.
Adds(n, row) == n \in Fresh /\ tokens' = [tokens EXCEPT ![n] = row]
\* A token is changed in place.
Changes(t, row) == t \in Issued /\ tokens' = [tokens EXCEPT ![t] = row]

LEMMA Adding ==
  ASSUME TypeOK, NEW n, NEW row \in Token, Adds(n, row)
  PROVE  /\ Orderly /\ n \in Tokens /\ n \notin Issued /\ tokens[n] = None
         /\ Issued' = Issued \cup {n} /\ tokens'[n] = row
         /\ \A t \in Issued : tokens'[t] = tokens[t] /\ Untouched(t)
<1>1. n \in Tokens /\ tokens[n] = None /\ n \notin Issued
  BY DEF Adds, Fresh, Issued
<1>2. /\ tokens' \in [Tokens -> Token \cup {None, Purged}] /\ tokens'[n] = row
      /\ \A t \in Tokens \ {n} : tokens'[t] = tokens[t]
  BY <1>1 DEF Adds, TypeOK
<1>3. row \notin {None, Purged}
  BY Nothing
<1>4. Issued' = Issued \cup {n}
  BY <1>1, <1>2, <1>3 DEF Issued
<1> QED
  BY <1>1, <1>2, <1>3, <1>4 DEF Orderly, Untouched, Keeps, Issued

LEMMA Changing ==
  ASSUME TypeOK, NEW t, NEW row \in Token, Changes(t, row)
  PROVE  /\ Orderly /\ t \in Tokens /\ Issued' = Issued /\ tokens'[t] = row
         /\ \A u \in Tokens \ {t} : tokens'[u] = tokens[u]
         /\ \A u \in Issued \ {t} : tokens'[u] = tokens[u] /\ Untouched(u)
<1>1. t \in Tokens /\ tokens[t] \notin {None, Purged}
  BY DEF Changes, Issued
<1>2. /\ tokens' \in [Tokens -> Token \cup {None, Purged}] /\ tokens'[t] = row
      /\ \A u \in Tokens \ {t} : tokens'[u] = tokens[u]
  BY <1>1 DEF Changes, TypeOK
<1>3. row \notin {None, Purged}
  BY Nothing
<1>4. Issued' = Issued
  BY <1>1, <1>2, <1>3 DEF Issued
<1> QED
  BY <1>1, <1>2, <1>3, <1>4 DEF Orderly, Untouched, Keeps, Issued

\* A sign-out revokes what was not revoked yet, and nothing else.
LEMMA Revoking ==
  ASSUME TypeOK, NEW s, tokens' = Revoke(s, "signOut", clock)
  PROVE  /\ Orderly /\ Issued' = Issued
         /\ \A t \in Issued :
              \/ tokens'[t] = tokens[t] /\ Untouched(t)
              \/ /\ tokens[t].revoked = None /\ Keeps(t)
                 /\ tokens'[t].revoked = clock /\ tokens'[t].by = "signOut"
<1> DEFINE gone(x) == [tokens[x] EXCEPT !.revoked = clock, !.by = "signOut"]
<1>0. clock \in Nat
  BY Nothing DEF TypeOK, Times
<1>1. \A x \in Issued : /\ gone(x) \in Token /\ gone(x).revoked = clock /\ gone(x).by = "signOut"
                         /\ gone(x).root = tokens[x].root /\ gone(x).agent = tokens[x].agent
                         /\ gone(x).expires = tokens[x].expires
  <2> SUFFICES ASSUME NEW row \in Token,
                      NEW end, end = [row EXCEPT !.revoked = clock, !.by = "signOut"]
               PROVE  /\ end \in Token /\ end.revoked = clock /\ end.by = "signOut"
                      /\ end.root = row.root /\ end.agent = row.agent
                      /\ end.expires = row.expires
    BY IssuedAreTokens DEF Issued
  <2> QED
    BY <1>0 DEF Token
<1>2. \A x \in Tokens : tokens'[x] = IF x \in s \cap Issued /\ tokens[x].revoked = None
                                     THEN gone(x) ELSE tokens[x]
  BY DEF Revoke
<1>3. tokens' = [x \in Tokens |-> tokens'[x]]
  BY <1>2 DEF Revoke
<1> HIDE DEF gone
<1>4. tokens' \in [Tokens -> Token \cup {None, Purged}]
  BY <1>1, <1>2, <1>3 DEF TypeOK
<1>5. Issued' = Issued
  <2>1. ASSUME NEW x \in Tokens
        PROVE  tokens'[x] \notin {None, Purged} <=> tokens[x] \notin {None, Purged}
    <3>1. CASE x \in s \cap Issued /\ tokens[x].revoked = None
      <4>1. tokens'[x] \in Token
        BY <1>1, <1>2, <3>1
      <4>2. tokens'[x] \notin {None, Purged}
        BY <4>1, Nothing
      <4>3. tokens[x] \notin {None, Purged}
        BY <3>1 DEF Issued
      <4> QED
        BY <4>2, <4>3
    <3>2. CASE ~(x \in s \cap Issued /\ tokens[x].revoked = None)
      BY <1>2, <3>2
    <3> QED
      BY <3>1, <3>2
  <2> QED
    BY <2>1 DEF Issued
<1>6. \A t \in Issued : \/ tokens'[t] = tokens[t] /\ Untouched(t)
                        \/ /\ tokens[t].revoked = None /\ Keeps(t)
                           /\ tokens'[t].revoked = clock /\ tokens'[t].by = "signOut"
  BY <1>1, <1>2, <1>5 DEF Untouched, Keeps, Issued
<1>7. \A t \in Tokens : tokens[t] # None => tokens'[t] # None
  BY <1>1, <1>2, Nothing
<1> QED
  BY <1>4, <1>5, <1>6, <1>7 DEF Orderly

-----------------------------------------------------------------------------
(* How a step changes the count of a session *)

LEMMA Sizes ==
  ASSUME NEW S, IsFiniteSet(S), NEW x, NEW T
  PROVE  /\ Cardinality(S) \in Nat
         /\ T \subseteq S => Cardinality(T) \in Nat /\ Cardinality(T) <= Cardinality(S)
         /\ T \subseteq S \cup {x} => Cardinality(T) \in Nat /\ Cardinality(T) <= Cardinality(S) + 1
         /\ T \subseteq S \ {x} /\ x \in S =>
              Cardinality(T) \in Nat /\ Cardinality(T) <= Cardinality(S) - 1
<1>1. Cardinality(S) \in Nat
  BY FS_CardinalityType
<1>2. ASSUME T \subseteq S
      PROVE  Cardinality(T) \in Nat /\ Cardinality(T) <= Cardinality(S)
  BY <1>2, FS_Subset, FS_CardinalityType
<1>3. ASSUME T \subseteq S \cup {x}
      PROVE  Cardinality(T) \in Nat /\ Cardinality(T) <= Cardinality(S) + 1
  <2>1. IsFiniteSet(S \cup {x}) /\ Cardinality(S \cup {x}) <= Cardinality(S) + 1
    BY <1>1, FS_AddElement
  <2>2. Cardinality(T) \in Nat /\ Cardinality(T) <= Cardinality(S \cup {x})
    BY <1>3, <2>1, FS_Subset, FS_CardinalityType
  <2>3. Cardinality(S \cup {x}) \in Nat
    BY <2>1, FS_CardinalityType
  <2> QED
    BY <1>1, <2>1, <2>2, <2>3
<1>4. ASSUME T \subseteq S \ {x}, x \in S
      PROVE  Cardinality(T) \in Nat /\ Cardinality(T) <= Cardinality(S) - 1
  <2>1. IsFiniteSet(S \ {x}) /\ Cardinality(S \ {x}) = Cardinality(S) - 1
    BY <1>4, FS_RemoveElement
  <2>2. Cardinality(T) \in Nat /\ Cardinality(T) <= Cardinality(S \ {x})
    BY <1>4, <2>1, FS_Subset, FS_CardinalityType
  <2> QED
    BY <2>1, <2>2
<1> QED
  BY <1>1, <1>2, <1>3, <1>4

LEMMA ChainsAreFinite ==
  ASSUME NEW r
  PROVE  IsFiniteSet(Unrevoked(r)) /\ IsFiniteSet(Coming(r))
<1>1. Unrevoked(r) \subseteq Tokens /\ Coming(r) \subseteq Requests
  BY DEF Unrevoked, Chain, Issued, Coming
<1> QED
  BY <1>1, Nothing, FS_Subset

\* The ways a step may change a session without making it two: one more token for
\* one less to come, or the other way round, or one more that is counted as spare.
LEMMA ChainStays ==
  ASSUME NEW r \in Tokens, ChainHolds(r), spare[r] \in Nat, spare'[r] \in Nat, NEW t, NEW a,
         \/ /\ Unrevoked(r)' \subseteq Unrevoked(r) /\ Coming(r)' \subseteq Coming(r)
            /\ spare'[r] >= spare[r]
         \/ /\ Unrevoked(r)' \subseteq Unrevoked(r) \ {t} /\ t \in Unrevoked(r)
            /\ Coming(r)' \subseteq Coming(r) \cup {a} /\ spare'[r] >= spare[r]
         \/ /\ Unrevoked(r)' \subseteq Unrevoked(r) \cup {t} /\ a \in Coming(r)
            /\ Coming(r)' \subseteq Coming(r) \ {a} /\ spare'[r] >= spare[r]
         \/ /\ Unrevoked(r)' \subseteq Unrevoked(r) \cup {t}
            /\ Coming(r)' \subseteq Coming(r) /\ spare'[r] = spare[r] + 1
         \/ /\ Unrevoked(r)' \subseteq Unrevoked(r)
            /\ Coming(r)' \subseteq Coming(r) \cup {a} /\ spare'[r] = spare[r] + 1
         \/ Unrevoked(r)' \subseteq {t} /\ Coming(r)' = {}
  PROVE  ChainHolds(r)'
<1> DEFINE U == Cardinality(Unrevoked(r))
           C == Cardinality(Coming(r))
<1>1. IsFiniteSet(Unrevoked(r)) /\ IsFiniteSet(Coming(r))
  BY ChainsAreFinite
<1>2. U \in Nat /\ C \in Nat /\ U + C <= 1 + spare[r]
  BY <1>1, Sizes DEF ChainHolds
<1>3. PICK U2, C2 : U2 = Cardinality(Unrevoked(r)') /\ C2 = Cardinality(Coming(r)')
  OBVIOUS
<1>4. SUFFICES U2 \in Nat /\ C2 \in Nat /\ U2 + C2 <= 1 + spare'[r]
  BY <1>3 DEF ChainHolds
<1>5. /\ Unrevoked(r)' \subseteq Unrevoked(r) => U2 \in Nat /\ U2 <= U
      /\ Unrevoked(r)' \subseteq Unrevoked(r) \cup {t} => U2 \in Nat /\ U2 <= U + 1
      /\ Unrevoked(r)' \subseteq Unrevoked(r) \ {t} /\ t \in Unrevoked(r) =>
           U2 \in Nat /\ U2 <= U - 1
  BY <1>1, <1>3, Sizes
<1>6. /\ Coming(r)' \subseteq Coming(r) => C2 \in Nat /\ C2 <= C
      /\ Coming(r)' \subseteq Coming(r) \cup {a} => C2 \in Nat /\ C2 <= C + 1
      /\ Coming(r)' \subseteq Coming(r) \ {a} /\ a \in Coming(r) => C2 \in Nat /\ C2 <= C - 1
  BY <1>1, <1>3, Sizes
<1>7. /\ Unrevoked(r)' \subseteq {t} => U2 \in Nat /\ U2 <= 1
      /\ Coming(r)' = {} => C2 = 0
  <2>1. IsFiniteSet({}) /\ Cardinality({}) = 0
    BY FS_EmptySet
  <2>2. Unrevoked(r)' \subseteq {t} => U2 \in Nat /\ U2 <= 0 + 1
    <3>1. {} \cup {t} = {t}
      OBVIOUS
    <3> QED
      BY <1>3, <2>1, <3>1, Sizes
  <2> QED
    BY <1>3, <2>1, <2>2
<1> HIDE DEF U, C
<1> QED
  BY <1>2, <1>5, <1>6, <1>7

-----------------------------------------------------------------------------
(* What a claim relies on is not disturbed *)

\* A request that won a claim and does not move keeps it, if its old token is not
\* touched and its new one only revoked.
LEMMA ClaimStays ==
  ASSUME TypesHold, ClaimsHold, clock' \in Nat, clock' >= clock, NEW b \in Requests,
         act'[b] = act[b], Claims(b), Untouched(act[b].old),
         act[b].step \in {"link", "hold"} => Follows(act[b].new)
  PROVE  ClaimHolds(b)'
<1>1. ClaimHolds(b) /\ act[b].at \in Nat /\ clock \in Nat
  BY Nothing DEF ClaimsHold, TypesHold, TypeOK, Request, Times
<1>2. act[b].at <= clock'
  BY <1>1 DEF ClaimHolds
<1>3. OldHolds(b)'
  BY <1>1 DEF ClaimHolds, OldHolds, Untouched, Keeps
<1>4. ASSUME act[b].step \in {"link", "hold"}
      PROVE  NewHolds(b)'
  <2>1. NewHolds(b) /\ Follows(act[b].new)
    BY <1>1, <1>4 DEF ClaimHolds
  <2>2. tokens'[act[b].new].revoked # None => tokens'[act[b].new].revoked >= act[b].at
    BY <1>1, <2>1, <1>4 DEF ClaimHolds, NewHolds, Follows
  <2> QED
    BY <2>1, <2>2 DEF NewHolds, Follows, Untouched, Keeps
<1> QED
  BY <1>2, <1>3, <1>4 DEF ClaimHolds

-----------------------------------------------------------------------------
(* Steps that leave the tokens alone *)

\* What is typed beside the tokens and the requests.
RestTyped ==
    /\ {active, deleted, activated} \subseteq BOOLEAN /\ enroll \in Nat
    /\ asked \in 0 .. MaxRequests /\ faults \in 0 .. MaxFaults
    /\ held \in [Tokens -> HeldToken \cup {None}]
    /\ keys \in [Keys -> KeyRow \cup {None}] /\ announced \in Nat
Faulty == faults' \in 0 .. MaxFaults
RevokedKeysStay == \A k \in Keys : keys[k] # None /\ keys[k].revoked => keys'[k] = keys[k]
\* No claim is won and none moves on, but those that are over.
Quiet ==
    /\ UNCHANGED <<tokens, spare>> /\ clock' \in Times /\ clock' >= clock
    /\ act' \in [Requests -> Request]
    /\ \A b \in Requests : /\ Claims(b)' => act'[b] = act[b]
                           /\ At(b, "useKey")' => act'[b].old \in Keys

LEMMA TurnsQuietly ==
  ASSUME TypesHold, NEW a \in Requests, NEW q \in Request, Turns(a, q),
         q.step \notin {"mint", "link", "hold", "giveBack"},
         q.step = "useKey" => q.old \in Keys,
         UNCHANGED <<tokens, spare, clock>>
  PROVE  Quiet
<1>1. clock \in Times /\ clock \in Nat
  BY Nothing DEF TypesHold, TypeOK, Times
<1>2. ASSUME NEW b \in Requests
      PROVE  /\ Claims(b)' => act'[b] = act[b]
             /\ At(b, "useKey")' => act'[b].old \in Keys
  BY <1>2 DEF Turns, Claims, At, TypesHold
<1> QED
  BY <1>1, <1>2 DEF Quiet, Turns

LEMMA Faults ==
  ASSUME TypesHold
  PROVE  (Fault \/ NoFault \/ UNCHANGED faults) => Faulty
  BY Nothing DEF TypesHold, TypeOK, Fault, NoFault, Faulty

\* A request begins: what it read waits in it.
LEMMA BeginsQuietly ==
  ASSUME TypesHold, NEW a \in Requests,
         JudgeLogin(a) \/ JudgeEnroll(a) \/ ReadForEdit(a) \/ ReadForStatus(a)
           \/ ReadForPassword(a) \/ ReadForChange(a) \/ Delete(a),
         asked' \in 0 .. MaxRequests
  PROVE  Quiet /\ RestTyped' /\ UNCHANGED <<keys, announced, activated>>
<1>1. clock \in Nat /\ active \in BOOLEAN /\ act \in [Requests -> Request]
  BY Nothing DEF TypesHold, TypeOK, Times
<1>2. \E move \in Asked, step \in {"issue", "save", "revokeAll"}, copy \in BOOLEAN,
         then \in {None, "revokeAll", "bump", "issue"} : Begin(a, move, step, copy, then)
  BY <1>1 DEF Asked, JudgeLogin, JudgeEnroll, ReadForEdit, ReadForStatus, ReadForPassword,
              ReadForChange, Delete
<1>3. PICK q \in Request : Turns(a, q) /\ q.step \in {"issue", "save", "revokeAll"}
  <2>1. PICK move \in Asked, step \in {"issue", "save", "revokeAll"}, copy \in BOOLEAN,
             then \in {None, "revokeAll", "bump", "issue"} : Begin(a, move, step, copy, then)
    BY <1>2
  <2>2. step \in Steps
    BY DEF Steps
  <2> QED
    BY <1>1, <2>1, <2>2, Beginning
<1>4. /\ UNCHANGED <<tokens, spare, clock, keys, announced, activated, active, enroll, faults, held>>
      /\ deleted' \in BOOLEAN
  BY DEF JudgeLogin, JudgeEnroll, ReadForEdit, ReadForStatus, ReadForPassword,
         ReadForChange, Delete, account, ghosts, TypesHold, TypeOK
<1>5. Quiet
  BY <1>3, <1>4, TurnsQuietly
<1>6. RestTyped'
  BY <1>4 DEF RestTyped, TypesHold, TypeOK
<1> QED
  BY <1>4, <1>5, <1>6

\* A request goes on, or ends.
LEMMA GoesQuietly ==
  ASSUME TypesHold, NEW a \in Requests, Tolerate(a) \/ Save(a) \/ Bump(a) \/ Hold(a) \/ CutOff(a),
         asked' \in 0 .. MaxRequests, At(a, "hold") => act[a].old \in Tokens /\ act[a].new \in Tokens
  PROVE  Quiet /\ RestTyped' /\ UNCHANGED <<keys, announced, activated>>
<1>1. clock \in Nat /\ active \in BOOLEAN /\ enroll \in Nat /\ act \in [Requests -> Request]
  BY Nothing DEF TypesHold, TypeOK, Times
<1>2. act[a].copy \in BOOLEAN /\ act[a].then \in {None, "revokeAll", "bump", "issue"}
  BY <1>1 DEF Request
<1>3. Done(a) \/ \E step \in {"replay", "revokeAll", "bump", "issue"} : Goto(a, step)
  BY <1>2 DEF Tolerate, Save, Bump, Hold, CutOff
<1>4. PICK q \in Request : Turns(a, q) /\ q.step \in {"idle", "replay", "revokeAll", "bump", "issue"}
  <2>1. CASE Done(a)
    BY <1>1, <2>1, Finishing, IdleIsRequest
  <2>2. ASSUME NEW step \in {"replay", "revokeAll", "bump", "issue"}, Goto(a, step)
        PROVE  \E q \in Request : Turns(a, q) /\ q.step = step
    <3>1. step \in Steps
      BY DEF Steps
    <3> QED
      BY <1>1, <2>2, <3>1, Going
  <2> QED
    BY <1>3, <2>1, <2>2
<1>5. UNCHANGED <<tokens, spare, clock, keys, announced, activated, deleted>>
  BY DEF Tolerate, Save, Bump, Hold, CutOff, account, ghosts
<1>6. active' \in BOOLEAN /\ enroll' \in Nat
  BY <1>1, <1>2 DEF Tolerate, Save, Bump, Hold, CutOff, account
<1>7. faults' \in 0 .. MaxFaults
  BY Faults DEF Tolerate, Save, Bump, Hold, CutOff, Faulty
<1>8. held' \in [Tokens -> HeldToken \cup {None}]
  <2>1. CASE Hold(a)
    <3>1. [token |-> act[a].new, until |-> clock + Grace] \in HeldToken
      BY <1>1, <2>1, Nothing DEF Hold, HeldToken
    <3> QED
      BY <2>1, <3>1 DEF Hold, TypesHold, TypeOK
  <2>2. CASE ~Hold(a)
    BY <2>2 DEF Tolerate, Save, Bump, CutOff, TypesHold, TypeOK
  <2> QED
    BY <2>1, <2>2
<1>9. Quiet
  BY <1>4, <1>5, TurnsQuietly
<1>10. RestTyped'
  BY <1>5, <1>6, <1>7, <1>8 DEF RestTyped, TypesHold, TypeOK
<1> QED
  BY <1>5, <1>9, <1>10

LEMMA ActivatesQuietly ==
  ASSUME TypesHold, FirstHolds, NEW a \in Requests, Activate(a), asked' \in 0 .. MaxRequests
  PROVE  Quiet /\ RestTyped' /\ FirstHolds' /\ UNCHANGED keys
<1>1. /\ Turns(a, Idle) /\ Idle \in Request /\ Idle.step = "idle"
      /\ UNCHANGED <<tokens, spare, clock>>
  BY Finishing, IdleIsRequest DEF Activate, TypesHold
<1>2. announced' \in Nat /\ FirstHolds'
  BY DEF Activate, IsFirst, TypesHold, TypeOK, FirstHolds
<1>3. RestTyped'
  BY <1>2 DEF Activate, RestTyped, TypesHold, TypeOK
<1> QED
  BY <1>1, <1>2, <1>3, TurnsQuietly DEF Activate

\* No step touches a key that was revoked.
LEMMA KeysQuietly ==
  ASSUME TypesHold, NEW a \in Requests, CreateKey(a) \/ RevokeKey(a) \/ FindKey(a) \/ UseKey(a),
         asked' \in 0 .. MaxRequests
  PROVE  Quiet /\ RestTyped' /\ RevokedKeysStay /\ UNCHANGED <<announced, activated>>
<1>1. /\ clock \in Nat /\ clock \in Times /\ act \in [Requests -> Request]
      /\ keys \in [Keys -> KeyRow \cup {None}]
  BY Nothing DEF TypesHold, TypeOK, Times
<1>2. /\ UNCHANGED <<tokens, spare, clock, announced, activated, active, deleted, enroll>>
      /\ UNCHANGED <<faults, held>>
  BY DEF CreateKey, RevokeKey, FindKey, UseKey, account, ghosts
<1>3. Quiet
  <2>1. CASE CreateKey(a) \/ RevokeKey(a)
    <3>1. act' = act
      BY <2>1 DEF CreateKey, RevokeKey
    <3> QED
      BY <1>1, <1>2, <3>1 DEF Quiet, At, TypesHold
  <2>2. CASE FindKey(a)
    <3>1. PICK move \in {"signOut", "quit"}, k \in Keys :
            act' = [act EXCEPT ![a] = [Idle EXCEPT !.move = move, !.step = "useKey",
                                                    !.at = clock, !.old = k]]
      BY <2>2 DEF FindKey
    <3> DEFINE q == [Idle EXCEPT !.move = move, !.step = "useKey", !.at = clock, !.old = k]
    <3>2. "useKey" \in Steps /\ move \in Asked
      BY DEF Steps, Asked
    <3>3. q \in Request /\ q.step = "useKey" /\ q.old \in Keys
      BY <1>1, <3>2, IdleIsRequest DEF Request
    <3>4. act' = [act EXCEPT ![a] = q]
      BY <3>1
    <3> HIDE DEF q
    <3>5. Turns(a, q)
      BY <1>1, <3>3, <3>4, Turning
    <3> QED
      BY <1>2, <3>3, <3>5, TurnsQuietly
  <2>3. CASE UseKey(a)
    <3>1. Done(a) \/ Goto(a, "revokeAgent")
      BY <2>3 DEF UseKey
    <3>2. CASE Done(a)
      BY <1>1, <1>2, <3>2, Finishing, IdleIsRequest, TurnsQuietly
    <3>3. CASE Goto(a, "revokeAgent")
      <4>1. "revokeAgent" \in Steps
        BY DEF Steps
      <4>2. PICK q \in Request : Turns(a, q) /\ q.step = "revokeAgent"
        BY <1>1, <3>3, <4>1, Going
      <4> QED
        BY <1>2, <4>2, TurnsQuietly
    <3> QED
      BY <3>1, <3>2, <3>3
  <2> QED
    BY <2>1, <2>2, <2>3
<1>4. keys' \in [Keys -> KeyRow \cup {None}] /\ RevokedKeysStay
  <2>1. CASE CreateKey(a)
    <3>1. [expires |-> clock + KeyTtl, revoked |-> FALSE, uses |-> 0] \in KeyRow
      BY <1>1, Nothing DEF KeyRow
    <3> QED
      BY <1>1, <2>1, <3>1 DEF CreateKey, RevokedKeysStay
  <2>2. CASE RevokeKey(a)
    <3>1. PICK k \in Keys :
            keys[k] # None /\ ~keys[k].revoked /\ keys' = [keys EXCEPT ![k].revoked = TRUE]
      BY <2>2 DEF RevokeKey
    <3>2. [keys[k] EXCEPT !.revoked = TRUE] \in KeyRow
      BY <1>1, <3>1 DEF KeyRow
    <3> QED
      BY <1>1, <3>1, <3>2 DEF RevokedKeysStay
  <2>3. CASE FindKey(a)
    BY <1>1, <2>3 DEF FindKey, RevokedKeysStay
  <2>4. CASE UseKey(a)
    <3> DEFINE k == act[a].old
    <3>1. k \in Keys
      BY <2>4 DEF UseKey, TypesHold
    <3>2. CASE MayUse(k, act[a].at)
      <4>1. keys[k] \in KeyRow /\ ~keys[k].revoked
        BY <1>1, <3>1, <3>2 DEF MayUse, KeyActive
      <4>2. [keys[k] EXCEPT !.uses = @ + 1] \in KeyRow
        BY <4>1 DEF KeyRow
      <4>3. keys' = [keys EXCEPT ![k] = [keys[k] EXCEPT !.uses = @ + 1]]
        BY <2>4, <3>2 DEF UseKey
      <4> QED
        BY <1>1, <3>1, <4>1, <4>2, <4>3 DEF RevokedKeysStay
    <3>3. CASE ~MayUse(k, act[a].at)
      BY <1>1, <2>4, <3>3 DEF UseKey, RevokedKeysStay
    <3> QED
      BY <3>2, <3>3
  <2> QED
    BY <2>1, <2>2, <2>3, <2>4
<1>5. RestTyped'
  BY <1>2, <1>4 DEF RestTyped, TypesHold, TypeOK
<1> QED
  BY <1>2, <1>3, <1>4, <1>5

\* The process starts again, or time passes.
LEMMA ProcessQuietly ==
  ASSUME TypesHold, Restart \/ Tick, UNCHANGED asked
  PROVE  Quiet /\ RestTyped' /\ UNCHANGED <<keys, announced, activated>>
<1>1. clock \in Times /\ clock \in Nat /\ act \in [Requests -> Request]
  BY Nothing DEF TypesHold, TypeOK, Times
<1>2. UNCHANGED <<tokens, spare, keys, announced, activated, active, deleted, enroll>>
  BY DEF Restart, Tick, account, ghosts
<1>3. /\ faults' \in 0 .. MaxFaults
      /\ held' \in [Tokens -> HeldToken \cup {None}]
  BY Faults DEF Restart, Tick, Faulty, TypesHold, TypeOK
<1>4. RestTyped'
  BY <1>2, <1>3 DEF RestTyped, TypesHold, TypeOK
<1>5. CASE Restart
  <2>1. act' \in [Requests -> Request] /\ \A b \in Requests : act'[b].step = "idle"
    BY <1>5, IdleIsRequest DEF Restart
  <2> QED
    BY <1>1, <1>2, <1>4, <1>5, <2>1 DEF Restart, Quiet, Claims, At
<1>6. CASE Tick
  <2>1. clock' \in Times /\ clock' >= clock /\ act' = act
    BY <1>1, <1>6, Nothing DEF Tick, Times
  <2> QED
    BY <1>1, <1>2, <1>4, <2>1 DEF Quiet, At, TypesHold
<1> QED
  BY <1>5, <1>6

\* A quiet step keeps the invariant: the claims that remain are those there were.
LEMMA QuietKeepsInv ==
  ASSUME SignInInv, Quiet, RestTyped', FirstHolds'
  PROVE  SignInInv'
<1>1. clock \in Nat /\ clock' \in Nat
  BY Nothing DEF SignInInv, TypesHold, TypeOK, Quiet, Times
<1>2. TypesHold'
  BY DEF SignInInv, TypesHold, TypeOK, RestTyped, Quiet, Issued
<1>3. Ordered'
  BY DEF SignInInv, Ordered, Quiet, Issued
<1>4. ClaimsHold'
  <2>1. ASSUME NEW b \in Requests, Claims(b)'
        PROVE  act'[b] = act[b] /\ Claims(b) /\ ClaimHolds(b)'
    <3>1. act'[b] = act[b] /\ Claims(b) /\ ClaimHolds(b)
      BY <2>1 DEF Quiet, Claims, SignInInv, ClaimsHold
    <3>2. tokens' = tokens /\ Issued' = Issued
      BY DEF Quiet, Issued
    <3>3. act[b].at \in Nat
      BY DEF SignInInv, TypesHold, Request
    <3>4. act'[b].at <= clock'
      BY <1>1, <3>1, <3>3 DEF ClaimHolds, Quiet
    <3> QED
      BY <3>1, <3>2, <3>4 DEF ClaimHolds, OldHolds, NewHolds
  <2> QED
    BY <2>1 DEF ClaimsHold, SignInInv
<1>5. ChainsHold'
  <2>1. ASSUME NEW r \in Tokens
        PROVE  ChainHolds(r)'
    <3>1. Unrevoked(r)' \subseteq Unrevoked(r) /\ Coming(r)' \subseteq Coming(r)
      BY DEF Quiet, Unrevoked, Chain, Issued, Coming, Claims
    <3>2. spare[r] \in Nat /\ spare'[r] = spare[r] /\ ChainHolds(r)
      BY DEF Quiet, SignInInv, TypesHold, ChainsHold
    <3> QED
      BY <3>1, <3>2, ChainStays
  <2> QED
    BY <2>1 DEF ChainsHold
<1> QED
  BY <1>2, <1>3, <1>4, <1>5 DEF SignInInv

-----------------------------------------------------------------------------
(* Steps that change the tokens *)

\* A token a sign-out ended is left as it is, or swept away.
SignedOutStays ==
    \A t \in Issued : tokens[t].by = "signOut" => tokens'[t] \in {tokens[t], Purged}
\* Request a moves; everything but tokens, requests and counts stays.
Moved(a) ==
    /\ UNCHANGED <<clock, account, keys, announced>>
    /\ held' = held /\ Faulty /\ asked' \in 0 .. MaxRequests
    /\ act' \in [Requests -> Request]
    /\ \A b \in Requests \ {a} : act'[b] = act[b]
    /\ At(a, "useKey")' => act'[a].old \in Keys

LEMMA MovedTyped ==
  ASSUME SignInInv, NEW a \in Requests, Moved(a), Orderly, spare' \in [Tokens -> Nat]
  PROVE  TypesHold' /\ FirstHolds'
<1>1. TypeOK' /\ announced' \in Nat
  BY DEF SignInInv, TypesHold, TypeOK, Moved, Orderly, account, Faulty
<1>2. \A b \in Requests : At(b, "useKey")' => act'[b].old \in Keys
  BY DEF Moved, At, SignInInv, TypesHold
<1>3. FirstHolds'
  BY DEF SignInInv, FirstHolds, Moved, account
<1> QED
  BY <1>1, <1>2, <1>3 DEF TypesHold, Moved

LEMMA MovedClaims ==
  ASSUME SignInInv, NEW a \in Requests, Moved(a),
         \A b \in Requests \ {a} : Claims(b) =>
            Untouched(act[b].old) /\ (act[b].step \in {"link", "hold"} => Follows(act[b].new)),
         Claims(a)' =>
            /\ ClaimHolds(a)'
            /\ \A b \in Requests \ {a} : Claims(b) => act[b].old # act'[a].old
  PROVE  ClaimsHold'
<1>1. clock \in Nat /\ clock' \in Nat /\ clock' >= clock
  BY Nothing DEF SignInInv, TypesHold, TypeOK, Moved, Times
<1>2. \A b \in Requests \ {a} : Claims(b)' => Claims(b) /\ act'[b] = act[b]
  BY DEF Claims, Moved
<1>3. ASSUME NEW b \in Requests, Claims(b)'
      PROVE  ClaimHolds(b)'
  <2>1. CASE b = a
    BY <1>3, <2>1
  <2>2. CASE b # a
    BY <1>1, <1>2, <1>3, <2>2, ClaimStays DEF SignInInv
  <2> QED
    BY <2>1, <2>2
<1>4. ASSUME NEW b \in Requests, NEW c \in Requests, Claims(b)', Claims(c)', act'[b].old = act'[c].old
      PROVE  b = c
  <2>1. CASE b # a /\ c # a
    BY <1>2, <1>4, <2>1 DEF SignInInv, ClaimsHold
  <2>2. CASE b = a \/ c = a
    BY <1>2, <1>4, <2>2
  <2> QED
    BY <2>1, <2>2
<1> QED
  BY <1>3, <1>4 DEF ClaimsHold

\* Two requests never hold a claim of the same token, and no claim is of a token that
\* can be claimed.
LEMMA ClaimsAreOfRevoked ==
  ASSUME SignInInv, NEW b \in Requests, Claims(b)
  PROVE  /\ act[b].old \in Issued /\ tokens[act[b].old] \in Token
         /\ tokens[act[b].old].by = "rotation" /\ tokens[act[b].old].revoked # None
         /\ act[b].step \in {"link", "hold"} =>
              /\ act[b].new \in Issued /\ tokens[act[b].new] \in Token
              /\ tokens[act[b].new].root = tokens[act[b].old].root
         /\ act[b].at \in Nat
  BY IssuedAreTokens, Nothing
     DEF SignInInv, ClaimsHold, ClaimHolds, OldHolds, NewHolds, TypesHold, Request, Issued

\* What leaves every other token untouched leaves the others' claims.
LEMMA UntouchedFollows ==
  ASSUME NEW t, Untouched(t)
  PROVE  Follows(t)
  BY DEF Untouched, Follows

LEMMA OrderKept ==
  ASSUME SignInInv, Orderly,
         \A u \in Issued' :
            \/ Untouched(u)
            \/ /\ tokens'[u].by = "nobody" <=> tokens'[u].revoked = None
               /\ Keeps(u) \/ tokens'[tokens'[u].root] # None
  PROVE  Ordered'
<1>1. \A u \in Issued : tokens[u].root \in Tokens
  BY IssuedAreTokens DEF Issued, Token, SignInInv, TypesHold
<1>2. ASSUME NEW u \in Issued', Keeps(u)
      PROVE  tokens'[tokens'[u].root] # None
  BY <1>1, <1>2 DEF SignInInv, Ordered, Orderly, Keeps
<1>3. ASSUME NEW u \in Issued'
      PROVE  /\ tokens'[u].by = "nobody" <=> tokens'[u].revoked = None
             /\ tokens'[tokens'[u].root] # None
  <2>1. CASE Untouched(u)
    <3>1. u \in Issued /\ Keeps(u)
      BY <2>1 DEF Untouched, Keeps
    <3>2. tokens[u].by = "nobody" <=> tokens[u].revoked = None
      BY <3>1 DEF SignInInv, Ordered
    <3>3. tokens'[u].by = tokens[u].by /\ tokens'[u].revoked = tokens[u].revoked
      BY <2>1 DEF Untouched
    <3> QED
      BY <1>2, <3>1, <3>2, <3>3
  <2>2. CASE ~Untouched(u)
    BY <1>2, <1>3, <2>2
  <2> QED
    BY <2>1, <2>2
<1> QED
  BY <1>3 DEF Ordered

LEMMA ClaimKeepsInv ==
  ASSUME SignInInv, NEW a \in Requests, Claim(a), asked' \in 0 .. MaxRequests
  PROVE  SignInInv' /\ SignedOutStays
<1>1. PICK t \in Issued :
        /\ Serves(a, "refresh")
        /\ act' = [act EXCEPT ![a] =
                     [Idle EXCEPT !.move = "refresh", !.at = clock, !.old = t,
                                  !.step = IF MayClaim(t, clock) THEN "mint" ELSE "tolerate"]]
        /\ tokens' = IF MayClaim(t, clock)
                     THEN [tokens EXCEPT ![t].revoked = clock, ![t].by = "rotation"]
                     ELSE tokens
  BY DEF Claim
<1>2. /\ clock \in Nat /\ TypeOK /\ act \in [Requests -> Request] /\ t \in Tokens
      /\ tokens[t] \in Token
  BY IssuedAreTokens, Nothing DEF SignInInv, TypesHold, TypeOK, Times, Issued
<1> DEFINE q == [Idle EXCEPT !.move = "refresh", !.at = clock, !.old = t,
                             !.step = IF MayClaim(t, clock) THEN "mint" ELSE "tolerate"]
<1>3. /\ q \in Request /\ q.step = (IF MayClaim(t, clock) THEN "mint" ELSE "tolerate")
      /\ q.at = clock /\ q.old = t
  <2>1. "mint" \in Steps /\ "tolerate" \in Steps /\ "refresh" \in Asked
    BY DEF Steps, Asked
  <2> QED
    BY <1>2, <2>1, IdleIsRequest DEF Request
<1>4. act' = [act EXCEPT ![a] = q]
  BY <1>1
<1> HIDE DEF q
<1>5. Turns(a, q)
  BY <1>2, <1>3, <1>4, Turning
<1>6. CASE ~MayClaim(t, clock)
  <2>1. Quiet
    BY <1>1, <1>3, <1>5, <1>6, TurnsQuietly DEF Claim, ghosts, SignInInv
  <2>2. RestTyped' /\ FirstHolds'
    BY DEF Claim, ghosts, account, SignInInv, RestTyped, TypesHold, TypeOK, FirstHolds
  <2>3. tokens' = tokens
    BY <1>1, <1>6
  <2> QED
    BY <2>1, <2>2, <2>3, QuietKeepsInv DEF SignedOutStays
<1>7. CASE MayClaim(t, clock)
  <2> DEFINE row == [tokens[t] EXCEPT !.revoked = clock, !.by = "rotation"]
  <2>1. /\ row \in Token /\ row.revoked = clock /\ row.by = "rotation"
        /\ row.root = tokens[t].root /\ row.expires = tokens[t].expires
        /\ row.agent = tokens[t].agent
    BY <1>2 DEF Token
  <2>2. tokens' = [tokens EXCEPT ![t] = row]
    BY <1>1, <1>7
  <2> HIDE DEF row
  <2>3. /\ Orderly /\ Issued' = Issued /\ tokens'[t] = row
        /\ \A u \in Issued \ {t} : tokens'[u] = tokens[u] /\ Untouched(u)
    BY <1>2, <2>1, <2>2, Changing DEF Changes
  <2>4. tokens[t].revoked = None /\ tokens[t].by = "nobody" /\ tokens[t].expires > clock
    BY <1>7 DEF MayClaim, SignInInv, Ordered
  <2>5. Moved(a) /\ spare' = spare
    BY <1>3, <1>5, <1>7, Faults DEF Claim, Moved, Turns, At, ghosts, SignInInv
  <2>6. TypesHold' /\ FirstHolds'
    BY <2>3, <2>5, MovedTyped DEF SignInInv, TypesHold
  <2>7. Ordered'
    <3>1. Keeps(t) /\ tokens'[t].by # "nobody" /\ tokens'[t].revoked # None
      BY <1>2, <2>1, <2>3, Nothing DEF Keeps
    <3> QED
      BY <2>3, <3>1, OrderKept
  <2>8. ClaimsHold'
    <3>1. ASSUME NEW b \in Requests \ {a}, Claims(b)
          PROVE  /\ act[b].old # t /\ Untouched(act[b].old)
                 /\ act[b].step \in {"link", "hold"} => Follows(act[b].new)
      <4>1. act[b].old # t /\ Untouched(act[b].old)
        BY <2>3, <2>4, <3>1, ClaimsAreOfRevoked
      <4>2. Follows(t)
        BY <1>2, <2>1, <2>3 DEF Follows, Keeps
      <4> QED
        BY <2>3, <3>1, <4>1, <4>2, ClaimsAreOfRevoked, UntouchedFollows
    <3>2. ClaimHolds(a)'
      BY <1>2, <1>3, <1>5, <1>7, <2>1, <2>3, <2>4, <2>5
      DEF ClaimHolds, OldHolds, Turns, Moved
    <3> QED
      BY <1>3, <1>5, <2>5, <3>1, <3>2, MovedClaims DEF Turns
  <2>9. ChainsHold'
    <3>1. ASSUME NEW r \in Tokens
          PROVE  ChainHolds(r)'
      <4>1. ChainHolds(r) /\ spare[r] \in Nat /\ spare'[r] = spare[r]
        BY <2>5 DEF SignInInv, ChainsHold, TypesHold
      <4>2. Unrevoked(r)' = Unrevoked(r) \ {t}
        BY <1>2, <2>1, <2>3, Nothing DEF Unrevoked, Chain
      <4>3. Coming(r)' \subseteq (IF tokens[t].root = r THEN Coming(r) \cup {a} ELSE Coming(r))
        <5>1. ASSUME NEW b \in Coming(r)', b # a
              PROVE  b \in Coming(r)
          <6>1. b \in Requests /\ Claims(b) /\ act'[b] = act[b]
            BY <2>5, <5>1 DEF Coming, Moved, Claims
          <6>2. tokens'[act[b].old] = tokens[act[b].old]
            BY <2>3, <2>4, <6>1, ClaimsAreOfRevoked
          <6> QED
            BY <5>1, <6>1, <6>2 DEF Coming
        <5>2. a \in Coming(r)' => tokens[t].root = r
          BY <1>3, <1>5, <2>1, <2>3 DEF Coming, Turns
        <5> QED
          BY <5>1, <5>2
      <4>4. CASE tokens[t].root = r
        <5>1. t \in Unrevoked(r)
          BY <2>4, <4>4 DEF Unrevoked, Chain
        <5> QED
          BY <4>1, <4>2, <4>3, <4>4, <5>1, ChainStays DEF SignInInv, TypesHold
      <4>5. CASE tokens[t].root # r
        BY <4>1, <4>2, <4>3, <4>5, ChainStays
      <4> QED
        BY <4>4, <4>5
    <3> QED
      BY <3>1 DEF ChainsHold
  <2>10. SignedOutStays
    BY <2>3, <2>4 DEF SignedOutStays
  <2> QED
    BY <2>6, <2>7, <2>8, <2>9, <2>10 DEF SignInInv
<1> QED
  BY <1>6, <1>7

\* What every step that leaves the others' old tokens untouched does to their claims.
LEMMA OthersStay ==
  ASSUME SignInInv, NEW a \in Requests, Moved(a),
         \A b \in Requests \ {a} : Claims(b) => Untouched(act[b].old)
  PROVE  \A r : Coming(r)' \subseteq Coming(r) \cup {a}
<1> SUFFICES ASSUME NEW r, NEW b \in Coming(r)', b # a
             PROVE  b \in Coming(r)
  OBVIOUS
<1>1. b \in Requests /\ Claims(b) /\ act'[b] = act[b]
  BY DEF Coming, Moved, Claims
<1>2. tokens'[act[b].old].root = tokens[act[b].old].root
  BY <1>1 DEF Untouched, Keeps
<1> QED
  BY <1>1, <1>2 DEF Coming

\* Tokens stay as they are.
LEMMA Standing ==
  ASSUME SignInInv, tokens' = tokens
  PROVE  /\ Orderly /\ Ordered' /\ SignedOutStays /\ \A u \in Issued : Untouched(u)
         /\ \A r : Unrevoked(r)' = Unrevoked(r)
<1>1. Issued' = Issued
  BY DEF Issued
<1>2. Orderly /\ \A u \in Issued : Untouched(u)
  BY <1>1 DEF Orderly, Untouched, Keeps, SignInInv, TypesHold, TypeOK
<1>3. Ordered'
  BY <1>1, <1>2, OrderKept
<1>4. \A r : Unrevoked(r)' = Unrevoked(r)
  BY <1>1 DEF Unrevoked, Chain
<1> QED
  BY <1>2, <1>3, <1>4 DEF SignedOutStays

\* A live token is made.
LEMMA Making ==
  ASSUME SignInInv, NEW n, NEW row \in Token, Adds(n, row), row.revoked = None,
         row.by = "nobody", row.root = n \/ tokens[row.root] # None
  PROVE  /\ Orderly /\ Ordered' /\ SignedOutStays /\ \A u \in Issued : Untouched(u)
         /\ \A r : Unrevoked(r)' \subseteq Unrevoked(r) \cup {n}
         /\ \A r : r # row.root => Unrevoked(r)' \subseteq Unrevoked(r)
         /\ n \in Tokens /\ n \in Issued' /\ n \notin Issued /\ tokens'[n] = row
         /\ \A u \in Issued : tokens'[u] = tokens[u]
<1>1. /\ Orderly /\ n \in Tokens /\ n \notin Issued /\ tokens[n] = None
      /\ Issued' = Issued \cup {n} /\ tokens'[n] = row
      /\ \A t \in Issued : tokens'[t] = tokens[t] /\ Untouched(t)
  BY Adding DEF SignInInv, TypesHold
<1>2. tokens'[row.root] # None
  <2>1. row.root \in Tokens
    BY DEF Token
  <2>2. row # None
    BY Nothing
  <2> QED
    BY <1>1, <2>1, <2>2 DEF Orderly
<1>3. Ordered'
  BY <1>1, <1>2, OrderKept
<1>4. \A r : Unrevoked(r)' \subseteq Unrevoked(r) \cup {n}
  BY <1>1 DEF Unrevoked, Chain
<1>5. \A r : r # row.root => Unrevoked(r)' \subseteq Unrevoked(r)
  BY <1>1 DEF Unrevoked, Chain
<1>6. SignedOutStays
  BY <1>1 DEF SignedOutStays
<1> QED
  BY <1>1, <1>3, <1>4, <1>5, <1>6

\* A request that goes on with its claim: the old token is still the one it revoked.
LEMMA ClaimMovesOn ==
  ASSUME SignInInv, NEW a \in Requests, Claims(a), Moved(a), Orderly, spare' \in [Tokens -> Nat],
         \A u \in Issued : Untouched(u),
         act'[a].old = act[a].old, act'[a].at = act[a].at,
         act'[a].step \in {"link", "hold", "giveBack"},
         act'[a].step \in {"link", "hold"} => NewHolds(a)'
  PROVE  /\ TypesHold' /\ FirstHolds' /\ ClaimsHold'
         /\ \A r : /\ Coming(r)' \subseteq Coming(r) \cup {a}
                   /\ r # tokens[act[a].old].root => Coming(r)' \subseteq Coming(r)
<1> DEFINE t == act[a].old
<1>1. t \in Issued /\ Untouched(t) /\ ClaimHolds(a)
  BY ClaimsAreOfRevoked DEF SignInInv, ClaimsHold
<1>2. Claims(a)' /\ ClaimHolds(a)'
  <2>1. OldHolds(a)'
    BY <1>1 DEF ClaimHolds, OldHolds, Untouched, Keeps
  <2> QED
    BY <1>1, <2>1 DEF ClaimHolds, Claims, Moved
<1>3. \A b \in Requests \ {a} : Claims(b) =>
         /\ Untouched(act[b].old) /\ (act[b].step \in {"link", "hold"} => Follows(act[b].new))
         /\ act[b].old # act'[a].old
  BY ClaimsAreOfRevoked, UntouchedFollows DEF SignInInv, ClaimsHold
<1>4. ClaimsHold'
  BY <1>2, <1>3, MovedClaims
<1>5. \A r : Coming(r)' \subseteq Coming(r) \cup {a}
  BY <1>3, OthersStay
<1>6. \A r : r # tokens[t].root => a \notin Coming(r)'
  BY <1>1 DEF Coming, Untouched, Keeps
<1> QED
  BY <1>4, <1>5, <1>6, MovedTyped

LEMMA MintKeepsInv ==
  ASSUME SignInInv, NEW a \in Requests, Mint(a), asked' \in 0 .. MaxRequests
  PROVE  SignInInv' /\ SignedOutStays
<1> DEFINE t == act[a].old
<1> DEFINE R == tokens[t].root
<1>1. Claims(a) /\ At(a, "mint") /\ ClaimHolds(a)
  BY DEF Mint, At, Claims, SignInInv, ClaimsHold
<1>2. /\ t \in Issued /\ tokens[t] \in Token /\ R \in Tokens /\ tokens[t].agent \in BOOLEAN
      /\ act[a].at \in Nat /\ tokens[R] # None /\ act \in [Requests -> Request]
      /\ spare \in [Tokens -> Nat] /\ act[a].at <= clock
  BY <1>1, ClaimsAreOfRevoked DEF Token, SignInInv, Ordered, TypesHold, ClaimHolds
<1>3. PICK n \in Fresh :
        \/ /\ tokens' = [tokens EXCEPT ![n] = NewToken(R, tokens[t].agent, act[a].at)]
           /\ act' = [act EXCEPT ![a].step = "link", ![a].new = n]
           /\ NoFault /\ UNCHANGED spare
        \/ /\ Fault /\ Goto(a, "giveBack")
           /\ \/ UNCHANGED <<tokens, spare>>
              \/ /\ tokens' = [tokens EXCEPT ![n] = NewToken(R, tokens[t].agent, act[a].at)]
                 /\ spare' = [spare EXCEPT ![R] = @ + 1]
  BY DEF Mint
<1> DEFINE row == NewToken(R, tokens[t].agent, act[a].at)
<1>4. /\ row \in Token /\ row.root = R /\ row.revoked = None /\ row.by = "nobody"
      /\ row.expires > act[a].at
  BY <1>2, NewTokenTyped
<1>5. n \in Tokens /\ n \notin Issued
  BY DEF Fresh, Issued
<1>6. UNCHANGED <<clock, account, held, keys, announced>>
  BY DEF Mint
<1>7. a \in Coming(R)
  BY <1>1 DEF Coming, At
<1> HIDE DEF row
<1>8. ASSUME tokens' = [tokens EXCEPT ![n] = row]
      PROVE  /\ Orderly /\ Ordered' /\ SignedOutStays /\ \A u \in Issued : Untouched(u)
             /\ \A r : Unrevoked(r)' \subseteq Unrevoked(r) \cup {n}
             /\ \A r : r # R => Unrevoked(r)' \subseteq Unrevoked(r)
             /\ n \in Issued' /\ tokens'[n] = row
             /\ \A u \in Issued : tokens'[u] = tokens[u]
  <2>1. Adds(n, row)
    BY <1>8 DEF Adds
  <2>2. tokens[row.root] # None
    BY <1>2, <1>4
  <2> QED
    BY <1>4, <2>1, <2>2, Making
<1>9. ASSUME NEW q \in Request, Turns(a, q), q.old = t, q.at = act[a].at,
             q.step = "giveBack" \/ (q.step = "link" /\ q.new = n /\ n \in Issued' /\ tokens'[n] = row),
             Orderly, \A u \in Issued : Untouched(u), Faulty, spare' \in [Tokens -> Nat]
      PROVE  /\ TypesHold' /\ FirstHolds' /\ ClaimsHold'
             /\ \A r : /\ Coming(r)' \subseteq Coming(r) \cup {a}
                       /\ r # R => Coming(r)' \subseteq Coming(r)
  <2>1. Moved(a) /\ act'[a] = q
    BY <1>6, <1>9 DEF Moved, Turns, At
  <2>2. act'[a].step \in {"link", "hold"} => NewHolds(a)'
    <3>1. tokens'[t].root = R
      BY <1>2, <1>9 DEF Untouched, Keeps
    <3> QED
      BY <1>4, <1>9, <2>1, <3>1 DEF NewHolds
  <2> QED
    BY <1>1, <1>9, <2>1, <2>2, ClaimMovesOn
<1>11. CASE /\ tokens' = [tokens EXCEPT ![n] = row]
            /\ act' = [act EXCEPT ![a].step = "link", ![a].new = n]
            /\ NoFault /\ UNCHANGED spare
  <2> DEFINE q == [act[a] EXCEPT !.step = "link", !.new = n]
  <2>1. "link" \in Steps
    BY DEF Steps
  <2>2. q \in Request /\ q.step = "link" /\ q.new = n /\ q.old = t /\ q.at = act[a].at
    BY <1>2, <1>5, <2>1 DEF Request
  <2>3. act' = [act EXCEPT ![a] = q]
    BY <1>11
  <2> HIDE DEF q
  <2>4. Turns(a, q) /\ Faulty
    BY <1>2, <1>11, <2>2, <2>3, Turning, Faults DEF SignInInv
  <2>5. /\ TypesHold' /\ FirstHolds' /\ ClaimsHold'
        /\ \A r : Coming(r)' \subseteq Coming(r) \cup {a}
    BY <1>2, <1>8, <1>9, <1>11, <2>2, <2>4
  <2>6. ASSUME NEW r \in Tokens
        PROVE  ChainHolds(r)'
    <3>1. a \notin Coming(r)'
      BY <2>2, <2>4 DEF Coming, Turns
    <3>2. Coming(r)' \subseteq Coming(r) \ {a}
      BY <2>5, <3>1
    <3>3. ChainHolds(r) /\ spare[r] \in Nat /\ spare'[r] = spare[r]
      BY <1>2, <1>11 DEF SignInInv, ChainsHold
    <3>4. CASE r = R
      BY <1>7, <1>8, <1>11, <3>2, <3>3, <3>4, ChainStays
    <3>5. CASE r # R
      BY <1>8, <1>11, <3>2, <3>3, <3>5, ChainStays
    <3> QED
      BY <3>4, <3>5
  <2> QED
    BY <1>8, <1>11, <2>5, <2>6 DEF SignInInv, ChainsHold
<1>12. ASSUME Fault, Goto(a, "giveBack"), Orderly, \A u \in Issued : Untouched(u),
              spare' \in [Tokens -> Nat]
       PROVE  /\ TypesHold' /\ FirstHolds' /\ ClaimsHold'
              /\ \A r : Coming(r)' \subseteq Coming(r)
  <2>1. "giveBack" \in Steps /\ Faulty
    BY <1>12, Faults DEF Steps, SignInInv
  <2>2. PICK q \in Request : Turns(a, q) /\ q.step = "giveBack" /\ q.old = t /\ q.at = act[a].at
    BY <1>2, <1>12, <2>1, Going
  <2>3. /\ TypesHold' /\ FirstHolds' /\ ClaimsHold'
        /\ \A r : /\ Coming(r)' \subseteq Coming(r) \cup {a}
                  /\ r # R => Coming(r)' \subseteq Coming(r)
    BY <1>9, <1>12, <2>1, <2>2
  <2> QED
    BY <1>7, <2>3
<1>13. CASE Fault /\ Goto(a, "giveBack") /\ UNCHANGED <<tokens, spare>>
  <2>1. /\ Orderly /\ Ordered' /\ SignedOutStays /\ \A u \in Issued : Untouched(u)
        /\ \A r : Unrevoked(r)' = Unrevoked(r)
    BY <1>13, Standing
  <2>2. /\ TypesHold' /\ FirstHolds' /\ ClaimsHold' /\ \A r : Coming(r)' \subseteq Coming(r)
    BY <1>2, <1>12, <1>13, <2>1
  <2>3. ASSUME NEW r \in Tokens
        PROVE  ChainHolds(r)'
    BY <1>2, <1>13, <2>1, <2>2, ChainStays DEF SignInInv, ChainsHold
  <2> QED
    BY <2>1, <2>2, <2>3 DEF SignInInv, ChainsHold
<1>14. CASE /\ Fault /\ Goto(a, "giveBack") /\ tokens' = [tokens EXCEPT ![n] = row]
            /\ spare' = [spare EXCEPT ![R] = @ + 1]
  <2>1. spare' \in [Tokens -> Nat] /\ spare'[R] = spare[R] + 1
    BY <1>2, <1>14
  <2>2. /\ TypesHold' /\ FirstHolds' /\ ClaimsHold' /\ \A r : Coming(r)' \subseteq Coming(r)
    BY <1>8, <1>12, <1>14, <2>1
  <2>3. ASSUME NEW r \in Tokens
        PROVE  ChainHolds(r)'
    <3>1. ChainHolds(r) /\ spare[r] \in Nat /\ spare'[r] \in Nat
      BY <1>2, <2>1 DEF SignInInv, ChainsHold
    <3>2. CASE r = R
      BY <1>8, <1>14, <2>1, <2>2, <3>1, <3>2, ChainStays
    <3>3. CASE r # R
      <4>1. spare'[r] = spare[r]
        BY <1>2, <1>14, <3>3
      <4>2. Unrevoked(r)' \subseteq Unrevoked(r)
        BY <1>8, <1>14, <3>3
      <4>3. Coming(r)' \subseteq Coming(r) /\ spare'[r] >= spare[r]
        BY <2>2, <3>1, <4>1
      <4> QED
        BY <3>1, <4>2, <4>3, ChainStays
    <3> QED
      BY <3>2, <3>3
  <2> QED
    BY <1>8, <1>14, <2>2, <2>3 DEF SignInInv, ChainsHold
<1> QED
  BY <1>3, <1>11, <1>13, <1>14 DEF row

LEMMA LinkKeepsInv ==
  ASSUME SignInInv, NEW a \in Requests, Link(a), asked' \in 0 .. MaxRequests
  PROVE  SignInInv' /\ SignedOutStays
<1> DEFINE t == act[a].old
<1> DEFINE n == act[a].new
<1> DEFINE R == tokens[t].root
<1>1. Claims(a) /\ act[a].step = "link" /\ NewHolds(a)
  BY DEF Link, At, Claims, SignInInv, ClaimsHold, ClaimHolds
<1>2. /\ t \in Issued /\ t \in Tokens /\ tokens[t] \in Token /\ R \in Tokens
      /\ tokens[t].by = "rotation" /\ n \in Issued /\ n \in Tokens /\ tokens[n].root = R
      /\ act \in [Requests -> Request] /\ spare \in [Tokens -> Nat]
  BY <1>1, ClaimsAreOfRevoked DEF Token, Issued, SignInInv, TypesHold
<1>3. UNCHANGED <<clock, account, held, keys, announced>>
  BY DEF Link
<1>4. ASSUME tokens' = [tokens EXCEPT ![t].next = n]
      PROVE  /\ Orderly /\ Ordered' /\ SignedOutStays /\ \A u \in Issued : Untouched(u)
             /\ \A r : Unrevoked(r)' = Unrevoked(r)
  <2> DEFINE row == [tokens[t] EXCEPT !.next = n]
  <2>1. /\ row \in Token /\ row.root = R /\ row.expires = tokens[t].expires
        /\ row.agent = tokens[t].agent /\ row.by = tokens[t].by /\ row.revoked = tokens[t].revoked
    BY <1>2 DEF Token
  <2>2. tokens' = [tokens EXCEPT ![t] = row]
    BY <1>4
  <2> HIDE DEF row
  <2>3. /\ Orderly /\ Issued' = Issued /\ tokens'[t] = row
        /\ \A u \in Issued \ {t} : tokens'[u] = tokens[u] /\ Untouched(u)
    BY <1>2, <2>1, <2>2, Changing DEF Changes, SignInInv, TypesHold
  <2>4. Untouched(t)
    BY <1>2, <2>1, <2>3 DEF Untouched, Keeps
  <2>5. Ordered'
    BY <2>3, <2>4, OrderKept
  <2>6. \A r : Unrevoked(r)' = Unrevoked(r)
    BY <1>2, <2>1, <2>3 DEF Unrevoked, Chain
  <2>7. SignedOutStays
    BY <1>2, <2>3 DEF SignedOutStays
  <2> QED
    BY <2>3, <2>4, <2>5, <2>6, <2>7
<1>5. /\ Orderly /\ Ordered' /\ SignedOutStays /\ \A u \in Issued : Untouched(u)
      /\ \A r : Unrevoked(r)' = Unrevoked(r)
  <2>1. tokens' = tokens \/ tokens' = [tokens EXCEPT ![t].next = n]
    BY DEF Link
  <2> QED
    BY <1>4, <2>1, Standing
<1>6. ASSUME NEW step \in {"hold", "giveBack"}, Goto(a, step), Faulty, spare' \in [Tokens -> Nat]
      PROVE  /\ TypesHold' /\ FirstHolds' /\ ClaimsHold' /\ act'[a].step = step
             /\ \A r : /\ Coming(r)' \subseteq Coming(r) \cup {a}
                       /\ r # R => Coming(r)' \subseteq Coming(r)
  <2>1. step \in Steps
    BY DEF Steps
  <2>2. PICK q \in Request : /\ Turns(a, q) /\ q.step = step /\ q.old = t /\ q.new = n
                             /\ q.at = act[a].at
    BY <1>2, <1>6, <2>1, Going
  <2>3. Moved(a) /\ act'[a] = q
    BY <1>3, <1>6, <2>2 DEF Moved, Turns, At
  <2>4. NewHolds(a)'
    <3>1. Untouched(t) /\ Untouched(n)
      BY <1>2, <1>5
    <3> QED
      BY <1>1, <2>2, <2>3, <3>1 DEF NewHolds, Untouched, Keeps
  <2> QED
    BY <1>1, <1>5, <1>6, <2>2, <2>3, <2>4, ClaimMovesOn
<1>7. CASE Goto(a, "hold") /\ NoFault /\ UNCHANGED spare
  <2>1. /\ TypesHold' /\ FirstHolds' /\ ClaimsHold' /\ act'[a].step = "hold"
        /\ \A r : Coming(r)' \subseteq Coming(r) \cup {a}
    BY <1>2, <1>6, <1>7, Faults DEF SignInInv
  <2>2. ASSUME NEW r \in Tokens
        PROVE  ChainHolds(r)'
    <3>1. a \notin Coming(r)'
      BY <2>1 DEF Coming
    <3>2. Coming(r)' \subseteq Coming(r)
      BY <2>1, <3>1
    <3> QED
      BY <1>2, <1>5, <1>7, <3>2, ChainStays DEF SignInInv, ChainsHold
  <2> QED
    BY <1>5, <2>1, <2>2 DEF SignInInv, ChainsHold
<1>8. CASE Fault /\ Goto(a, "giveBack") /\ spare' = [spare EXCEPT ![tokens[n].root] = @ + 1]
  <2>1. spare' \in [Tokens -> Nat] /\ spare'[R] = spare[R] + 1
    BY <1>2, <1>8
  <2>2. /\ TypesHold' /\ FirstHolds' /\ ClaimsHold'
        /\ \A r : /\ Coming(r)' \subseteq Coming(r) \cup {a}
                  /\ r # R => Coming(r)' \subseteq Coming(r)
    BY <1>6, <1>8, <2>1, Faults DEF SignInInv
  <2>3. ASSUME NEW r \in Tokens
        PROVE  ChainHolds(r)'
    <3>1. ChainHolds(r) /\ spare[r] \in Nat /\ spare'[r] \in Nat
      BY <1>2, <2>1 DEF SignInInv, ChainsHold
    <3>2. CASE r = R
      BY <1>5, <2>1, <2>2, <3>1, <3>2, ChainStays
    <3>3. CASE r # R
      <4>1. spare'[r] = spare[r]
        BY <1>2, <1>8, <3>3
      <4> QED
        BY <1>5, <2>2, <3>1, <3>3, <4>1, ChainStays
    <3> QED
      BY <3>2, <3>3
  <2> QED
    BY <1>5, <2>2, <2>3 DEF SignInInv, ChainsHold
<1> QED
  BY <1>7, <1>8 DEF Link

\* A request that holds no claim, or no more.
LEMMA ClaimIsOver ==
  ASSUME SignInInv, NEW a \in Requests, Moved(a), Orderly, spare' \in [Tokens -> Nat],
         act'[a].step \notin {"mint", "link", "hold", "giveBack"},
         \A b \in Requests \ {a} : Claims(b) =>
            Untouched(act[b].old) /\ (act[b].step \in {"link", "hold"} => Follows(act[b].new))
  PROVE  /\ TypesHold' /\ FirstHolds' /\ ClaimsHold'
         /\ \A r : Coming(r)' \subseteq Coming(r) \ {a}
<1>1. ~Claims(a)'
  BY DEF Claims
<1>2. ClaimsHold'
  BY <1>1, MovedClaims
<1>3. \A r : Coming(r)' \subseteq Coming(r) \cup {a} /\ a \notin Coming(r)'
  BY OthersStay DEF Coming
<1> QED
  BY <1>2, <1>3, MovedTyped

LEMMA GiveBackKeepsInv ==
  ASSUME SignInInv, NEW a \in Requests, GiveBack(a), asked' \in 0 .. MaxRequests
  PROVE  SignInInv' /\ SignedOutStays
<1> DEFINE t == act[a].old
<1> DEFINE R == tokens[t].root
<1>1. Claims(a) /\ act[a].step = "giveBack"
  BY DEF GiveBack, At, Claims
<1>2. /\ t \in Issued /\ t \in Tokens /\ tokens[t] \in Token /\ R \in Tokens
      /\ tokens[t].by = "rotation" /\ act \in [Requests -> Request]
      /\ tokens \in [Tokens -> Token \cup {None, Purged}]
      /\ spare \in [Tokens -> Nat] /\ clock \in Nat /\ clock \in Times
  BY <1>1, Nothing, ClaimsAreOfRevoked DEF Token, Issued, SignInInv, TypesHold, TypeOK, Times
<1>3. UNCHANGED <<clock, account, held, keys, ghosts>> /\ Done(a)
  BY DEF GiveBack
<1>4. Turns(a, Idle) /\ Idle \in Request /\ Idle.step = "idle"
  BY <1>2, <1>3, Finishing, IdleIsRequest
<1>5. Faulty
  BY Faults DEF GiveBack, SignInInv
<1>6. CASE UNCHANGED tokens
  <2>1. Quiet
    BY <1>3, <1>4, <1>6, TurnsQuietly DEF ghosts, SignInInv
  <2>2. RestTyped' /\ FirstHolds'
    BY <1>3, <1>5 DEF ghosts, account, SignInInv, RestTyped, TypesHold, TypeOK, FirstHolds, Faulty
  <2> QED
    BY <1>6, <2>1, <2>2, QuietKeepsInv DEF SignedOutStays
<1>7. CASE tokens' = GivenBack(t)
  <2> DEFINE row == [tokens[t] EXCEPT !.revoked = None, !.by = "nobody"]
  <2>1. /\ row \in Token /\ row.root = R /\ row.expires = tokens[t].expires
        /\ row.agent = tokens[t].agent /\ row.by = "nobody" /\ row.revoked = None
    BY <1>2 DEF Token
  <2>2. tokens' = [tokens EXCEPT ![t] = row]
    BY <1>2, <1>7 DEF GivenBack
  <2> HIDE DEF row
  <2>3. /\ Orderly /\ Issued' = Issued /\ tokens'[t] = row
        /\ \A u \in Issued \ {t} : tokens'[u] = tokens[u] /\ Untouched(u)
    BY <1>2, <2>1, <2>2, Changing DEF Changes, SignInInv, TypesHold
  <2>4. Keeps(t) /\ Follows(t)
    BY <1>2, <2>1, <2>3 DEF Keeps, Follows
  <2>5. Ordered'
    BY <2>1, <2>3, <2>4, OrderKept
  <2>6. \A b \in Requests \ {a} : Claims(b) =>
           Untouched(act[b].old) /\ (act[b].step \in {"link", "hold"} => Follows(act[b].new))
    BY <1>1, <2>3, <2>4, ClaimsAreOfRevoked, UntouchedFollows DEF SignInInv, ClaimsHold
  <2>7. Moved(a) /\ spare' = spare
    BY <1>3, <1>4, <1>5 DEF Moved, Turns, At, ghosts
  <2>8. /\ TypesHold' /\ FirstHolds' /\ ClaimsHold'
        /\ \A r : Coming(r)' \subseteq Coming(r) \ {a}
    BY <1>2, <1>4, <2>3, <2>6, <2>7, ClaimIsOver DEF Turns
  <2>9. ASSUME NEW r \in Tokens
        PROVE  ChainHolds(r)'
    <3>1. ChainHolds(r) /\ spare[r] \in Nat /\ spare'[r] = spare[r]
      BY <1>2, <2>7 DEF SignInInv, ChainsHold
    <3>2. CASE r = R
      <4>1. Unrevoked(r)' \subseteq Unrevoked(r) \cup {t}
        BY <2>3 DEF Unrevoked, Chain
      <4>2. a \in Coming(r)
        BY <1>1, <3>2 DEF Coming
      <4> QED
        BY <2>8, <3>1, <4>1, <4>2, ChainStays
    <3>3. CASE r # R
      <4>1. Unrevoked(r)' \subseteq Unrevoked(r)
        BY <2>1, <2>3, <3>3 DEF Unrevoked, Chain
      <4> QED
        BY <2>8, <3>1, <4>1, ChainStays
    <3> QED
      BY <3>2, <3>3
  <2>10. SignedOutStays
    BY <1>2, <2>3 DEF SignedOutStays
  <2> QED
    BY <2>5, <2>8, <2>9, <2>10 DEF SignInInv, ChainsHold
<1> QED
  BY <1>6, <1>7 DEF GiveBack

LEMMA ReplayKeepsInv ==
  ASSUME SignInInv, NEW a \in Requests, Replay(a), asked' \in 0 .. MaxRequests
  PROVE  SignInInv' /\ SignedOutStays
<1> DEFINE t == act[a].old
<1>1. /\ act \in [Requests -> Request] /\ spare \in [Tokens -> Nat] /\ clock \in Nat /\ clock \in Times
      /\ UNCHANGED <<clock, account, held, keys, faults, announced>> /\ Done(a)
  BY Nothing DEF SignInInv, TypesHold, TypeOK, Times, Replay
<1>2. Turns(a, Idle) /\ Idle \in Request /\ Idle.step = "idle"
  BY <1>1, Finishing, IdleIsRequest
<1>3. CASE UNCHANGED <<tokens, spare>>
  <2>1. Quiet
    BY <1>1, <1>2, <1>3, TurnsQuietly DEF SignInInv
  <2>2. RestTyped' /\ FirstHolds'
    BY <1>1 DEF account, SignInInv, RestTyped, TypesHold, TypeOK, FirstHolds
  <2> QED
    BY <1>3, <2>1, <2>2, QuietKeepsInv DEF SignedOutStays
<1>4. ASSUME NEW n \in Fresh, t \in Issued,
             tokens' = [tokens EXCEPT ![n] = NewToken(tokens[t].root, tokens[t].agent, clock)],
             spare' = [spare EXCEPT ![tokens[t].root] = @ + 1]
      PROVE  SignInInv' /\ SignedOutStays
  <2> DEFINE R == tokens[t].root
  <2> DEFINE row == NewToken(R, tokens[t].agent, clock)
  <2>1. /\ tokens[t] \in Token /\ R \in Tokens /\ tokens[t].agent \in BOOLEAN
        /\ tokens[R] # None
    BY <1>4, IssuedAreTokens DEF Issued, SignInInv, Ordered, TypesHold, Token
  <2>2. row \in Token /\ row.root = R /\ row.revoked = None /\ row.by = "nobody"
    BY <1>1, <2>1, NewTokenTyped
  <2>a. Adds(n, row)
    BY <1>4 DEF Adds
  <2> HIDE DEF row
  <2>3. /\ Orderly /\ Ordered' /\ SignedOutStays /\ \A u \in Issued : Untouched(u)
        /\ \A r : Unrevoked(r)' \subseteq Unrevoked(r) \cup {n}
        /\ \A r : r # R => Unrevoked(r)' \subseteq Unrevoked(r)
    BY <2>a, <2>1, <2>2, Making
  <2>4. spare' \in [Tokens -> Nat] /\ spare'[R] = spare[R] + 1
    BY <1>1, <1>4, <2>1
  <2>5. Moved(a)
    BY <1>1, <1>2, Faults DEF Moved, Turns, At, SignInInv
  <2>6. /\ TypesHold' /\ FirstHolds' /\ ClaimsHold'
        /\ \A r : Coming(r)' \subseteq Coming(r) \ {a}
    BY <1>2, <2>3, <2>4, <2>5, ClaimsAreOfRevoked, UntouchedFollows, ClaimIsOver DEF Turns
  <2>7. ASSUME NEW r \in Tokens
        PROVE  ChainHolds(r)'
    <3>1. ChainHolds(r) /\ spare[r] \in Nat /\ spare'[r] \in Nat
      BY <1>1, <2>4 DEF SignInInv, ChainsHold
    <3>2. CASE r = R
      BY <2>3, <2>4, <2>6, <3>1, <3>2, ChainStays
    <3>3. CASE r # R
      <4>1. spare'[r] = spare[r]
        BY <1>1, <1>4, <2>1, <3>3
      <4> QED
        BY <2>3, <2>6, <3>1, <3>3, <4>1, ChainStays
    <3> QED
      BY <3>2, <3>3
  <2> QED
    BY <2>3, <2>6, <2>7 DEF SignInInv, ChainsHold
<1> QED
  BY <1>3, <1>4 DEF Replay

LEMMA IssueTokenKeepsInv ==
  ASSUME SignInInv, NEW a \in Requests, IssueToken(a), asked' \in 0 .. MaxRequests
  PROVE  SignInInv' /\ SignedOutStays
<1>1. /\ act \in [Requests -> Request] /\ spare \in [Tokens -> Nat] /\ clock \in Nat /\ clock \in Times
      /\ UNCHANGED <<clock, account, held, keys, faults, ghosts>>
  BY Nothing DEF SignInInv, TypesHold, TypeOK, Times, IssueToken
<1>2. PICK q \in Request : Turns(a, q) /\ q.step \in {"idle", "activate"}
  <2>1. "activate" \in Steps
    BY DEF Steps
  <2>2. Done(a) \/ Goto(a, "activate")
    BY DEF IssueToken
  <2> QED
    BY <1>1, <2>1, <2>2, Finishing, IdleIsRequest, Going
<1>3. CASE UNCHANGED tokens
  <2>1. Quiet
    BY <1>1, <1>2, <1>3, TurnsQuietly DEF SignInInv, ghosts
  <2>2. RestTyped' /\ FirstHolds'
    BY <1>1 DEF account, ghosts, SignInInv, RestTyped, TypesHold, TypeOK, FirstHolds
  <2> QED
    BY <1>3, <2>1, <2>2, QuietKeepsInv DEF SignedOutStays
<1>4. ASSUME NEW n \in Fresh, NEW agent \in BOOLEAN,
             tokens' = [tokens EXCEPT ![n] = NewToken(n, agent, clock)]
      PROVE  SignInInv' /\ SignedOutStays
  <2> DEFINE row == NewToken(n, agent, clock)
  <2>1. n \in Tokens /\ tokens[n] = None
    BY DEF Fresh
  <2>2. row \in Token /\ row.root = n /\ row.revoked = None /\ row.by = "nobody"
    BY <1>1, <2>1, NewTokenTyped
  <2> HIDE DEF row
  <2>3. /\ Orderly /\ Ordered' /\ SignedOutStays /\ \A u \in Issued : Untouched(u)
        /\ \A r : Unrevoked(r)' \subseteq Unrevoked(r) \cup {n}
        /\ \A r : r # n => Unrevoked(r)' \subseteq Unrevoked(r)
    BY <1>4, <2>2, Making DEF Adds, row
  <2>4. Moved(a) /\ spare' = spare
    BY <1>1, <1>2, Faults DEF Moved, Turns, At, SignInInv, ghosts
  <2>5. /\ TypesHold' /\ FirstHolds' /\ ClaimsHold'
        /\ \A r : Coming(r)' \subseteq Coming(r) \ {a}
    BY <1>1, <1>2, <2>3, <2>4, ClaimsAreOfRevoked, UntouchedFollows, ClaimIsOver DEF Turns
  \* No token and no claim is of a chain whose first token was never made.
  <2>6. Unrevoked(n) = {} /\ Coming(n) = {}
    BY <2>1, ClaimsAreOfRevoked DEF Unrevoked, Chain, Coming, Claims, SignInInv, Ordered
  <2>7. ASSUME NEW r \in Tokens
        PROVE  ChainHolds(r)'
    <3>1. ChainHolds(r) /\ spare[r] \in Nat /\ spare'[r] = spare[r]
      BY <1>1, <2>4 DEF SignInInv, ChainsHold
    <3>2. CASE r = n
      <4>1. Unrevoked(r)' \subseteq {n} /\ Coming(r)' = {}
        BY <2>3, <2>5, <2>6, <3>2
      <4> QED
        BY <3>1, <4>1, ChainStays
    <3>3. CASE r # n
      BY <2>3, <2>5, <3>1, <3>3, ChainStays
    <3> QED
      BY <3>2, <3>3
  <2> QED
    BY <2>3, <2>5, <2>7 DEF SignInInv, ChainsHold
<1>5. \/ UNCHANGED tokens
      \/ \E n \in Fresh, agent \in BOOLEAN : tokens' = [tokens EXCEPT ![n] = NewToken(n, agent, clock)]
  <2>1. (act[a].move \in {"agentLogin", "enroll"}) \in BOOLEAN
    OBVIOUS
  <2> QED
    BY <2>1 DEF IssueToken
<1> QED
  BY <1>3, <1>4, <1>5

\* Whoever signs out: what was not revoked yet is, and nothing else.
LEMMA RevokeKeepsInv ==
  ASSUME SignInInv, NEW a \in Requests, Moved(a), spare' = spare, NEW s,
         tokens' = Revoke(s, "signOut", clock),
         act'[a].step \notin {"mint", "link", "hold", "giveBack"}
  PROVE  SignInInv' /\ SignedOutStays
<1>1. /\ Orderly /\ Issued' = Issued /\ clock \in Nat /\ spare \in [Tokens -> Nat]
      /\ \A t \in Issued :
           \/ tokens'[t] = tokens[t] /\ Untouched(t)
           \/ /\ tokens[t].revoked = None /\ Keeps(t)
              /\ tokens'[t].revoked = clock /\ tokens'[t].by = "signOut"
  BY Revoking, Nothing DEF SignInInv, TypesHold, TypeOK, Times
<1>2. Ordered'
  BY <1>1, OrderKept, Nothing
<1>3. \A t \in Issued : Follows(t) /\ (tokens[t].revoked # None => Untouched(t))
  BY <1>1, UntouchedFollows DEF Follows
<1>4. /\ TypesHold' /\ FirstHolds' /\ ClaimsHold'
      /\ \A r : Coming(r)' \subseteq Coming(r) \ {a}
  BY <1>1, <1>3, ClaimsAreOfRevoked, ClaimIsOver
<1>5. ASSUME NEW r \in Tokens
      PROVE  ChainHolds(r)'
  <2>1. Unrevoked(r)' \subseteq Unrevoked(r)
    BY <1>1, Nothing DEF Unrevoked, Chain, Untouched, Keeps
  <2> QED
    BY <1>1, <1>4, <2>1, ChainStays DEF SignInInv, ChainsHold
<1>6. SignedOutStays
  BY <1>1, Nothing DEF SignedOutStays, SignInInv, Ordered
<1> QED
  BY <1>2, <1>4, <1>5, <1>6 DEF SignInInv, ChainsHold

LEMMA SignOutKeepsInv ==
  ASSUME SignInInv, NEW a \in Requests, Logout(a) \/ RevokeAll(a) \/ RevokeAgent(a),
         asked' \in 0 .. MaxRequests
  PROVE  SignInInv' /\ SignedOutStays
<1>1. /\ act \in [Requests -> Request] /\ UNCHANGED <<clock, account, held, keys, faults, ghosts>>
      /\ spare' = spare /\ Faulty
  BY Faults DEF SignInInv, TypesHold, Logout, RevokeAll, RevokeAgent, ghosts
<1>2. \E s : tokens' = Revoke(s, "signOut", clock)
  BY DEF Logout, RevokeAll, RevokedAll, RevokeAgent
<1>3. /\ Moved(a) /\ act'[a].step \notin {"mint", "link", "hold", "giveBack"}
  <2>1. CASE Logout(a)
    <3>1. act' = act /\ act[a].step = "idle"
      BY <2>1 DEF Logout, Serves, At
    <3> QED
      BY <1>1, <3>1 DEF Moved, At, ghosts
  <2>2. CASE RevokeAll(a) \/ RevokeAgent(a)
    <3>1. PICK q \in Request : Turns(a, q) /\ q.step \in {"idle", "issue", "bump"}
      <4>1. "issue" \in Steps /\ "bump" \in Steps
        BY DEF Steps
      <4>2. Done(a) \/ Goto(a, "issue") \/ Goto(a, "bump")
        BY <2>2 DEF RevokeAll, RevokeAgent
      <4> QED
        BY <1>1, <4>1, <4>2, Finishing, IdleIsRequest, Going
    <3> QED
      BY <1>1, <3>1 DEF Moved, Turns, At, ghosts
  <2> QED
    BY <2>1, <2>2
<1> QED
  BY <1>1, <1>2, <1>3, RevokeKeepsInv

\* The sweep takes what has been dead longer than any request lasts: no claim loses its
\* old token, nor its new one.
LEMMA PurgeKeepsInv ==
  ASSUME SignInInv, Purge, UNCHANGED asked
  PROVE  SignInInv' /\ SignedOutStays
<1> DEFINE Dead(t) == /\ t \in Issued
                      /\ \/ tokens[t].expires + Retention < clock
                         \/ tokens[t].revoked # None /\ tokens[t].revoked + Retention < clock
<1>1. /\ tokens' = [t \in Tokens |-> IF Dead(t) THEN Purged ELSE tokens[t]]
      /\ UNCHANGED <<clock, account, held, keys, act, faults, ghosts>>
      /\ \A b \in Requests : At(b, "idle") \/ act[b].at + Retention > clock
  BY DEF Purge
<1>2. clock \in Nat /\ clock \in Times /\ spare \in [Tokens -> Nat] /\ Retention \in Nat
  BY Nothing DEF SignInInv, TypesHold, TypeOK, Times
<1>3. ASSUME NEW b \in Requests, Claims(b)
      PROVE  /\ ~Dead(act[b].old) /\ act[b].old \in Issued
             /\ act[b].step \in {"link", "hold"} => act[b].new \in Issued /\ ~Dead(act[b].new)
  <2>1. act[b].at + Retention > clock /\ ClaimHolds(b) /\ act[b].at \in Nat
    BY <1>1, <1>3, ClaimsAreOfRevoked DEF Claims, At, SignInInv, ClaimsHold
  <2>2. tokens[act[b].old].expires \in Nat
    BY <1>3, ClaimsAreOfRevoked DEF Token
  <2>3. ~Dead(act[b].old) /\ act[b].old \in Issued
    BY <1>2, <2>1, <2>2 DEF ClaimHolds, OldHolds
  <2>4. ASSUME act[b].step \in {"link", "hold"}
        PROVE  act[b].new \in Issued /\ ~Dead(act[b].new)
    <3>1. /\ NewHolds(b) /\ tokens[act[b].new].expires \in Nat
          /\ tokens[act[b].new].revoked \in Nat \cup {None}
      BY <1>3, <2>1, <2>4, ClaimsAreOfRevoked DEF Token, ClaimHolds
    <3> QED
      BY <1>2, <2>1, <3>1 DEF NewHolds
  <2> QED
    BY <2>3, <2>4
<1> HIDE DEF Dead
<1>4. /\ tokens' \in [Tokens -> Token \cup {None, Purged}] /\ Orderly
      /\ \A t \in Tokens : tokens'[t] = IF Dead(t) THEN Purged ELSE tokens[t]
  BY <1>1, Nothing DEF Orderly, SignInInv, TypesHold, TypeOK
<1>5. /\ \A t \in Issued : ~Dead(t) => tokens'[t] = tokens[t] /\ Untouched(t)
      /\ \A t \in Issued' : t \in Issued /\ ~Dead(t)
  BY <1>4 DEF Issued, Untouched, Keeps
<1>6. Ordered'
  BY <1>4, <1>5, OrderKept
<1>7. TypesHold' /\ FirstHolds'
  BY <1>1, <1>4 DEF SignInInv, TypesHold, TypeOK, account, ghosts, FirstHolds, At
<1>8. ClaimsHold'
  <2>1. ASSUME NEW b \in Requests, Claims(b)'
        PROVE  Claims(b) /\ act'[b] = act[b] /\ ClaimHolds(b)'
    <3>1. Claims(b) /\ act'[b] = act[b]
      BY <1>1, <2>1 DEF Claims
    <3>2. /\ Untouched(act[b].old)
          /\ act[b].step \in {"link", "hold"} => Follows(act[b].new)
      BY <1>3, <1>5, <3>1, UntouchedFollows
    <3>3. clock' \in Nat /\ clock' >= clock
      BY <1>1, <1>2
    <3> QED
      BY <3>1, <3>2, <3>3, ClaimStays DEF SignInInv
  <2> QED
    BY <2>1 DEF ClaimsHold, SignInInv
<1>9. ASSUME NEW r \in Tokens
      PROVE  ChainHolds(r)'
  <2>1. Unrevoked(r)' \subseteq Unrevoked(r)
    BY <1>5 DEF Unrevoked, Chain
  <2>2. Coming(r)' \subseteq Coming(r)
    <3> SUFFICES ASSUME NEW b \in Coming(r)'
                 PROVE  b \in Coming(r)
      OBVIOUS
    <3>1. b \in Requests /\ Claims(b) /\ act'[b] = act[b]
      BY <1>1 DEF Coming, Claims
    <3>2. tokens'[act[b].old] = tokens[act[b].old]
      BY <1>3, <1>5, <3>1
    <3> QED
      BY <3>1, <3>2 DEF Coming
  <2> QED
    BY <1>1, <1>2, <2>1, <2>2, ChainStays DEF SignInInv, ChainsHold, ghosts
<1>10. SignedOutStays
  BY <1>4 DEF SignedOutStays, Issued
<1> QED
  BY <1>6, <1>7, <1>8, <1>9, <1>10 DEF SignInInv, ChainsHold

-----------------------------------------------------------------------------
(* The invariant, and what follows from it *)

LEMMA InitEstablishesInv ==
  ASSUME Init
  PROVE  SignInInv
<1>1. Issued = {} /\ \A a \in Requests : act[a].step = "idle"
  BY IdleIsRequest DEF Init, Issued
<1>2. TypesHold
  <2>1. act \in [Requests -> Request] /\ spare \in [Tokens -> Nat]
    BY IdleIsRequest DEF Init
  <2>2. /\ clock \in Times /\ {active, deleted, activated} \subseteq BOOLEAN
        /\ enroll \in Nat /\ asked \in 0 .. MaxRequests /\ faults \in 0 .. MaxFaults
        /\ announced \in Nat
    <3>1. 0 \in Nat /\ 1 \in Nat /\ 0 \in 0 .. MaxTime /\ 0 \in 0 .. MaxRequests /\ 0 \in 0 .. MaxFaults
      BY Nothing
    <3>2. {active, deleted, activated} \subseteq BOOLEAN
      BY DEF Init
    <3> QED
      BY <3>1, <3>2 DEF Init, Times
  <2>3. /\ tokens \in [Tokens -> Token \cup {None, Purged}]
        /\ held \in [Tokens -> HeldToken \cup {None}] /\ keys \in [Keys -> KeyRow \cup {None}]
    BY DEF Init
  <2> QED
    BY <1>1, <2>1, <2>2, <2>3 DEF TypesHold, TypeOK, At
<1>3. Ordered /\ ClaimsHold /\ FirstHolds
  BY <1>1 DEF Ordered, ClaimsHold, Claims, FirstHolds, Init
<1>4. \A r \in Tokens : Unrevoked(r) = {} /\ Coming(r) = {} /\ spare[r] = 0
  BY <1>1 DEF Unrevoked, Chain, Coming, Init
<1>5. ChainsHold
  <2>1. Cardinality({}) = 0
    BY FS_EmptySet
  <2> QED
    BY <1>4, <2>1 DEF ChainsHold, ChainHolds
<1> QED
  BY <1>2, <1>3, <1>5 DEF SignInInv

LEMMA StepKeepsInv ==
  ASSUME SignInInv, [Next]_vars
  PROVE  SignInInv' /\ SignedOutStays /\ RevokedKeysStay
<1> DEFINE Kept == SignInInv' /\ SignedOutStays /\ RevokedKeysStay
<1>1. ASSUME Quiet, RestTyped', FirstHolds'
      PROVE  SignInInv' /\ SignedOutStays
  BY <1>1, QuietKeepsInv DEF Quiet, SignedOutStays
<1>2. ASSUME UNCHANGED <<announced, activated>>
      PROVE  FirstHolds'
  BY <1>2 DEF SignInInv, FirstHolds
<1>3. ASSUME NEW a \in Requests, asked' \in 0 .. MaxRequests, Begins(a)
      PROVE  Kept
  <2>1. CASE Claim(a)
    BY <1>3, <2>1, ClaimKeepsInv DEF Claim, RevokedKeysStay
  <2>2. CASE Logout(a)
    BY <1>3, <2>2, SignOutKeepsInv DEF Logout, RevokedKeysStay
  <2>3. CASE JudgeLogin(a) \/ JudgeEnroll(a) \/ ReadForEdit(a) \/ ReadForStatus(a)
             \/ ReadForPassword(a) \/ ReadForChange(a) \/ Delete(a)
    <3>1. Quiet /\ RestTyped' /\ UNCHANGED <<keys, announced, activated>>
      BY <1>3, <2>3, BeginsQuietly DEF SignInInv
    <3> QED
      BY <1>1, <1>2, <3>1 DEF RevokedKeysStay
  <2>4. CASE CreateKey(a) \/ RevokeKey(a) \/ FindKey(a)
    <3>1. Quiet /\ RestTyped' /\ RevokedKeysStay /\ UNCHANGED <<announced, activated>>
      BY <1>3, <2>4, KeysQuietly DEF SignInInv
    <3> QED
      BY <1>1, <1>2, <3>1
  <2> QED
    BY <1>3, <2>1, <2>2, <2>3, <2>4 DEF Begins
<1>4. ASSUME NEW a \in Requests, asked' \in 0 .. MaxRequests, Goes(a)
      PROVE  Kept
  <2>1. CASE Mint(a)
    BY <1>4, <2>1, MintKeepsInv DEF Mint, RevokedKeysStay
  <2>2. CASE Link(a)
    BY <1>4, <2>2, LinkKeepsInv DEF Link, RevokedKeysStay
  <2>3. CASE GiveBack(a)
    BY <1>4, <2>3, GiveBackKeepsInv DEF GiveBack, RevokedKeysStay
  <2>4. CASE Replay(a)
    BY <1>4, <2>4, ReplayKeepsInv DEF Replay, RevokedKeysStay
  <2>5. CASE IssueToken(a)
    BY <1>4, <2>5, IssueTokenKeepsInv DEF IssueToken, RevokedKeysStay
  <2>6. CASE RevokeAll(a) \/ RevokeAgent(a)
    BY <1>4, <2>6, SignOutKeepsInv DEF RevokeAll, RevokeAgent, RevokedKeysStay
  <2>7. CASE Tolerate(a) \/ Save(a) \/ Bump(a) \/ Hold(a) \/ CutOff(a)
    <3>1. At(a, "hold") => act[a].old \in Tokens /\ act[a].new \in Tokens
      BY ClaimsAreOfRevoked DEF At, Claims, Issued
    <3>2. Quiet /\ RestTyped' /\ UNCHANGED <<keys, announced, activated>>
      BY <1>4, <2>7, <3>1, GoesQuietly DEF SignInInv
    <3> QED
      BY <1>1, <1>2, <3>2 DEF RevokedKeysStay
  <2>8. CASE Activate(a)
    <3>1. Quiet /\ RestTyped' /\ FirstHolds' /\ UNCHANGED keys
      BY <1>4, <2>8, ActivatesQuietly DEF SignInInv
    <3> QED
      BY <1>1, <3>1 DEF RevokedKeysStay
  <2>9. CASE UseKey(a)
    <3>1. Quiet /\ RestTyped' /\ RevokedKeysStay /\ UNCHANGED <<announced, activated>>
      BY <1>4, <2>9, KeysQuietly DEF SignInInv
    <3> QED
      BY <1>1, <1>2, <3>1
  <2> QED
    BY <1>4, <2>1, <2>2, <2>3, <2>4, <2>5, <2>6, <2>7, <2>8, <2>9 DEF Goes
<1>5. CASE Purge /\ UNCHANGED asked
  BY <1>5, PurgeKeepsInv DEF Purge, RevokedKeysStay
<1>6. CASE (Restart \/ Tick) /\ UNCHANGED asked
  <2>1. Quiet /\ RestTyped' /\ UNCHANGED <<keys, announced, activated>>
    BY <1>6, ProcessQuietly DEF SignInInv
  <2> QED
    BY <1>1, <1>2, <2>1 DEF RevokedKeysStay
<1>7. CASE UNCHANGED vars
  <2>1. UNCHANGED <<clock, active, deleted, enroll, activated, tokens, held, keys, act, asked,
                    faults, spare, announced>>
    BY <1>7 DEF vars, account, ghosts
  <2>2. /\ clock' \in Times /\ clock' >= clock
    BY <2>1, Nothing DEF SignInInv, TypesHold, TypeOK, Times
  <2>3. Quiet /\ RestTyped' /\ FirstHolds'
    BY <2>1, <2>2 DEF Quiet, At, SignInInv, TypesHold, TypeOK, RestTyped, FirstHolds
  <2> QED
    BY <1>1, <2>1, <2>3 DEF RevokedKeysStay
<1>8. /\ asked' = asked => asked' \in 0 .. MaxRequests
      /\ asked < MaxRequests /\ asked' = asked + 1 => asked' \in 0 .. MaxRequests
  BY Nothing DEF SignInInv, TypesHold, TypeOK
<1>9. ASSUME NEW a \in Requests, Begins(a), asked < MaxRequests, asked' = asked + 1
      PROVE  Kept
  BY <1>3, <1>8, <1>9
<1>10. Kept
  <2>1. CASE \E a \in Requests : Begins(a) /\ asked < MaxRequests /\ asked' = asked + 1
    BY <1>9, <2>1
  <2>2. CASE (\E a \in Requests : Goes(a)) /\ UNCHANGED asked
    BY <1>4, <1>8, <2>2
  <2>3. CASE (Purge \/ Restart \/ Tick) /\ UNCHANGED asked
    BY <1>5, <1>6, <2>3
  <2>4. Next => Kept
    BY <2>1, <2>2, <2>3 DEF Next
  <2> QED
    BY <1>7, <2>4
<1> QED
  BY <1>10 DEF Kept

\* Whatever is asked at once, cut off or lost, the claims in flight hold and each session
\* is counted (rotate, giveBack, tolerateRace, revokeAllForUser, the cleanup job).
THEOREM SignInInvariant == Spec => []SignInInv
<1> QED
  BY InitEstablishesInv, StepKeepsInv, PTL DEF Spec

\* The live tokens of a session are some of those not revoked, and what is not revoked is
\* counted: a race of refreshes has one winner (rotate, tolerateRace), and one activation
\* is announced (markAgentActivatedIfFirst).
THEOREM OneWinner == Spec => []RacesHaveOneWinner
<1>1. ASSUME SignInInv
      PROVE  RacesHaveOneWinner
  <2>1. ASSUME NEW r \in Tokens
        PROVE  Cardinality({t \in Chain(r) : Live(t)}) <= 1 + spare[r]
    <3>1. {t \in Chain(r) : Live(t)} \subseteq Unrevoked(r)
      BY DEF Unrevoked, Live
    <3>2. PICK L : L = Cardinality({t \in Chain(r) : Live(t)})
      OBVIOUS
    <3>3. /\ Cardinality(Unrevoked(r)) \in Nat /\ Cardinality(Coming(r)) \in Nat
          /\ L \in Nat /\ L <= Cardinality(Unrevoked(r))
      BY <3>1, <3>2, ChainsAreFinite, Sizes
    <3> QED
      BY <1>1, <3>2, <3>3 DEF SignInInv, ChainsHold, ChainHolds, TypesHold
  <2> QED
    BY <1>1, <2>1 DEF RacesHaveOneWinner, RaceKeepsOneSession, ActivatedOnce, SignInInv,
                      TypesHold, FirstHolds
<1> QED
  BY <1>1, SignInInvariant, PTL

\* What a sign-out or a revocation ended is not written again, by any request that read
\* it before (rotate, giveBack, revokeAllForUser, useKey).
THEOREM RevokedStays == Spec => RevocationIsFinal
<1>1. ASSUME SignInInv, [Next]_vars
      PROVE  /\ [\A t \in Issued : tokens[t].by = "signOut" => tokens'[t] \in {tokens[t], Purged}]_vars
             /\ [\A k \in Keys : keys[k] # None /\ keys[k].revoked => keys'[k] = keys[k]]_vars
  BY <1>1, StepKeepsInv DEF SignedOutStays, RevokedKeysStay
<1> QED
  BY <1>1, SignInInvariant, PTL DEF Spec, RevocationIsFinal, SignOutIsFinal, RevokedKeyIsUnused

-----------------------------------------------------------------------------
(***************************************************************************)
(* What the lock of an organisation's row, the announcements and the       *)
(* generation of the cache are for, for every set of organisations,        *)
(* departments, people and requests and without a bound on how many are    *)
(* started: nobody is left in a deleted organisation and it keeps one      *)
(* Admin at most; nobody acts in it once its deletion is announced; an     *)
(* open socket hears only what its account may see.                        *)
(*                                                                         *)
(* The invariant says what a request may rely on between its read and its  *)
(* write.  One that holds a row: the organisation lives, and has no Admin  *)
(* if it is about to get one.  A save, which holds nothing: what it makes  *)
(* of the row it read (EditHolds); whatever happened since shows as        *)
(* overwritten.  A read for the cache: no deletion was announced since, or *)
(* the generation moved on.                                                *)
(***************************************************************************)

-----------------------------------------------------------------------------
(* Types *)

Placement == [role : {"MANAGER", "USER"}, dept : Depts \cup {Absent},
              managed : SUBSET Depts, grant : BOOLEAN]
DeletesOrg == [kind : {"deleteOrg"}, stage : {"ask", "counted"}, org : Orgs]
CreatesAdmin == [kind : {"createAdmin"}, stage : {"ask"}, org : Orgs]
Assigns == [kind : {"assign"}, stage : {"ask", "read"}, org : Orgs, person : People]
RemovesDept == [kind : {"removeDept"}, stage : {"ask"}, org : Orgs, dept : Depts]
CreatesUser == [kind : {"createUser"}, stage : {"ask"}, org : Orgs, placement : Placement]
Edits == [kind : {"edit"}, stage : {"read"}, org : {Absent}, person : People, read : PersonRow,
          row : PersonRow, links : BOOLEAN, announced : BOOLEAN]
Looks == [kind : {"look"}, stage : {"read"}, org : Orgs, found : BOOLEAN, generation : Nat]

Queries == DeletesOrg \cup CreatesAdmin \cup Assigns \cup RemovesDept \cup CreatesUser
           \cup Edits \cup Looks \cup Announcement

RowTypes ==
    /\ org \in [Orgs -> {"unused", "live", "deleted"}]
    /\ dept \in [Depts -> DeptRow]
    /\ person \in [People -> PersonRow \cup {Absent}]
    /\ lock \in [Orgs -> OrgRequests \cup {Absent}]
    /\ overwritten \subseteq People
Socket == [stage : {"closed", "checked", "joined", "read", "open"}, namespace : Namespaces,
           rooms : SUBSET (Orgs \cup Depts)]
MemoryTypes ==
    /\ cache \in [Orgs -> BOOLEAN \cup {Absent}]
    /\ generation \in Nat
    /\ socket \in [People -> Socket]
OrgTypes ==
    /\ RowTypes /\ MemoryTypes
    /\ request \in [OrgRequests -> Queries \cup {Absent}]

(* A request at a stage of a kind is a query of that kind. *)
LEMMA AtKind ==
  ASSUME OrgTypes, NEW r \in OrgRequests, NEW kind, NEW stage, AtStage(r, kind, stage)
  PROVE  /\ request[r] \in Queries /\ request[r].kind = kind /\ request[r].stage = stage
         /\ kind = "deleteOrg" => request[r] \in DeletesOrg
         /\ kind = "createAdmin" => request[r] \in CreatesAdmin
         /\ kind = "assign" => request[r] \in Assigns
         /\ kind = "removeDept" => request[r] \in RemovesDept
         /\ kind = "createUser" => request[r] \in CreatesUser
         /\ kind = "edit" => request[r] \in Edits
         /\ kind = "look" => request[r] \in Looks
         /\ kind = "announce" => request[r] \in Announcement
<1>1. request[r] \in Queries /\ request[r].kind = kind /\ request[r].stage = stage
  BY DEF OrgTypes, AtStage
<1> QED
  BY <1>1 DEF Queries, DeletesOrg, CreatesAdmin, Assigns, RemovesDept, CreatesUser, Edits,
              Looks, Announcement

(* An announcement is well formed. *)
LEMMA AnnouncingType ==
  ASSUME NEW o \in Orgs \cup {Absent}, NEW people \in SUBSET People, NEW isOrg \in BOOLEAN
  PROVE  Announcing(o, people, isOrg) \in Announcement
  BY DEF Announcing, Announcement

(* A row takes a placement, or a new value of one of its columns. *)
LEMMA PlacedType ==
  ASSUME NEW row \in PersonRow, NEW pl \in Placement
  PROVE  /\ Placed(row, pl) \in PersonRow
         /\ Placed(row, pl).org = row.org /\ Placed(row, pl).role = pl.role
         /\ Placed(row, pl).managed = pl.managed /\ Placed(row, pl).active = row.active
         /\ Placed(row, pl).gone = row.gone
  BY DEF Placed, PersonRow, Placement, Roles

LEMMA PlacementsTyped ==
  ASSUME RowTypes, NEW o \in Orgs, NEW pl \in Placements(o)
  PROVE  pl \in Placement /\ \A d \in pl.managed : dept[d].org = o
  BY DEF Placements, Placement, DeptsOf

LEMMA EditType ==
  ASSUME NEW p \in People, person[p] \in PersonRow, NEW row \in PersonRow,
         NEW links \in BOOLEAN, NEW told \in BOOLEAN
  PROVE  /\ Edit(p, row, links, told) \in Edits
         /\ Edit(p, row, links, told).person = p
         /\ Edit(p, row, links, told).read = person[p]
         /\ Edit(p, row, links, told).row = row
         /\ Edit(p, row, links, told).links = links
         /\ Edit(p, row, links, told).announced = told
  BY DEF Edit, Edits

-----------------------------------------------------------------------------
(* The inductive invariant *)

IsSuper(row) == row.role = "SUPER_MANAGER"

(* What a save will write of the row it read, and whether it tells. *)
EditHolds(q) ==
    /\ person[q.person] # Absent
    /\ q.row.org = q.read.org
    /\ q.row.role = "ADMIN" <=> q.read.role = "ADMIN"
    /\ IsSuper(q.row) <=> IsSuper(person[q.person])
    /\ IF q.links THEN \A d \in q.row.managed : q.row.org \in Orgs /\ dept[d].org = q.row.org
                  ELSE q.row.managed = q.read.managed
    /\ ~q.read.gone
    /\ ~q.announced => /\ q.row = [q.read EXCEPT !.active = q.row.active]
                       /\ q.read.active => q.row.active
Sound(q) ==
    /\ q.kind = "assign" => person[q.person] # Absent /\ ~IsSuper(person[q.person])
    /\ q.kind = "createUser" => \A d \in q.placement.managed : dept[d].org = q.org
    /\ q.kind = "edit" => EditHolds(q)
RequestsSound == \A r \in OrgRequests : request[r] # Absent => Sound(request[r])

(* Who holds an organisation's row, and what stays as they read it meanwhile. *)
HoldsRow(q) == \/ q.kind = "deleteOrg" /\ q.stage = "counted"
               \/ q.kind = "assign" /\ q.stage = "read"
LocksHold ==
    \A r \in OrgRequests : request[r] # Absent /\ HoldsRow(request[r]) =>
        lock[request[r].org] = r /\ OrgLive(request[r].org)
AssignHolds(q) ==
    (q.kind = "assign" /\ q.stage = "read" /\ person[q.person].role = "ADMIN"
        /\ q.person \notin overwritten)
    => AdminsOf(q.org) \ {q.person} \subseteq overwritten
AssignsHold == \A r \in OrgRequests : request[r] # Absent => AssignHolds(request[r])

OneAdminEach == \A o \in Orgs : \A p1, p2 \in AdminsOf(o) \ overwritten : p1 = p2

(* What the cache and the reads for it still say of a deleted organisation. *)
LooksHold ==
    \A r \in OrgRequests : AtStage(r, "look", "read") =>
        /\ request[r].generation <= generation
        /\ (request[r].found /\ request[r].generation = generation
                /\ org[request[r].org] = "deleted") => ~Announced(request[r].org)

(* Rows and rooms speak of organisations and departments that were created. *)
PeopleHold ==
    \A p \in People \ overwritten : person[p] # Absent =>
        /\ person[p].org \in Orgs => org[person[p].org] # "unused"
        /\ IsSuper(person[p]) => person[p].org = Absent
        /\ \A d \in person[p].managed :
               person[p].org \in Orgs /\ dept[d].org = person[p].org
SocketsHold == \A p \in People : person[p] = Absent => socket[p] = Closed
RoomsKnown ==
    \A p \in People \ overwritten : \A room \in socket[p].rooms :
        /\ room \in Orgs => org[room] # "unused"
        /\ room \in Depts => dept[room].org # Absent
RoomsHold ==
    \A p \in People \ overwritten :
        socket[p].stage \in {"read", "open"} /\ ~IsUnannounced(p) =>
            \A room \in socket[p].rooms :
                IsLiveRoom(room) => room \in Rooms(p, socket[p].namespace)

PlacesInv == LocksHold /\ AssignsHold /\ OneAdminEach /\ NobodyLeftBehind
NoticeInv == LooksHold /\ DeletionIsNoticed
RoomsInv == PeopleHold /\ SocketsHold /\ RoomsKnown /\ RoomsHold
OrgInv == OrgTypes /\ RequestsSound /\ PlacesInv /\ NoticeInv /\ RoomsInv

(* Rows stay, and who is a Super Manager, departments stay where they are, and *)
(* nothing is forgotten.                                                       *)
Grows ==
    /\ \A p \in People : person[p] # Absent =>
         /\ person'[p] # Absent
         /\ IsSuper(person'[p]) <=> IsSuper(person[p])
    /\ \A d \in Depts : dept[d].org # Absent => dept'[d].org = dept[d].org
    /\ \A o \in Orgs : /\ org[o] # "unused" => org'[o] # "unused"
                       /\ org[o] = "deleted" => org'[o] = "deleted"
    /\ overwritten \subseteq overwritten'

-----------------------------------------------------------------------------
(* What a step leaves of the invariant when it disturbs little *)

LEMMA SoundStays ==
  ASSUME OrgTypes, Grows, NEW q \in Queries, Sound(q)
  PROVE  Sound(q)'
<1>1. CASE q.kind = "assign"
  BY <1>1 DEF Sound, Grows, Queries, DeletesOrg, CreatesAdmin, Assigns, RemovesDept,
              CreatesUser, Edits, Looks, Announcement
<1>2. CASE q.kind = "createUser"
  <2>1. q \in CreatesUser
    BY <1>2 DEF Queries, DeletesOrg, CreatesAdmin, Assigns, RemovesDept, CreatesUser, Edits,
                Looks, Announcement
  <2> QED
    BY <1>2, <2>1, OrgAssumption DEF Sound, Grows, CreatesUser, Placement
<1>3. CASE q.kind = "edit"
  <2>1. q \in Edits
    BY <1>3 DEF Queries, DeletesOrg, CreatesAdmin, Assigns, RemovesDept, CreatesUser, Edits,
                Looks, Announcement
  <2>2. /\ person'[q.person] # Absent
        /\ IsSuper(person'[q.person]) <=> IsSuper(person[q.person])
        /\ q.links => \A d \in q.row.managed : dept'[d].org = q.row.org
    BY <1>3, <2>1, OrgAssumption DEF Sound, EditHolds, Grows, Edits, PersonRow
  <2> QED
    BY <1>3, <2>2 DEF Sound, EditHolds, IsSuper
<1> QED
  BY <1>1, <1>2, <1>3 DEF Sound

(* A request goes on, is answered or is taken up; the others wait. *)
LEMMA RequestsAfter ==
  ASSUME OrgTypes, RequestsSound, Grows, NEW r \in OrgRequests, NEW q \in Queries \cup {Absent},
         request' = [request EXCEPT ![r] = q], q # Absent => Sound(q)'
  PROVE  RequestsSound' /\ request' \in [OrgRequests -> Queries \cup {Absent}]
<1>1. \A h \in OrgRequests : request'[h] = IF h = r THEN q ELSE request[h]
  BY DEF OrgTypes
<1>2. ASSUME NEW h \in OrgRequests, h # r, request[h] # Absent
      PROVE  Sound(request[h])'
  <2>1. PICK n \in Queries : n = request[h]
    BY <1>2 DEF OrgTypes
  <2>2. Sound(n)'
    BY <1>2, <2>1, SoundStays DEF RequestsSound
  <2> QED
    BY <1>1, <1>2, <2>1, <2>2
<1> QED
  BY <1>1, <1>2 DEF RequestsSound, OrgTypes

(* Nobody is added where an organisation is deleted; who becomes an Admin    *)
(* becomes the one; and who holds a row held it before, or has just read.    *)
LEMMA PlacesAfter ==
  ASSUME OrgTypes, PlacesInv, overwritten \subseteq overwritten',
         \A o \in Orgs : org'[o] = "deleted" =>
             \/ PeopleOf(o)' \ overwritten' = {} /\ DeptsOf(o)' = {}
             \/ /\ org[o] = "deleted"
                /\ PeopleOf(o)' \ overwritten' \subseteq PeopleOf(o)
                /\ DeptsOf(o)' \subseteq DeptsOf(o),
         \A o \in Orgs :
             \/ AdminsOf(o)' \ overwritten' \subseteq AdminsOf(o)
             \/ /\ \E p : AdminsOf(o)' \ overwritten' \subseteq {p}
                /\ \A h \in OrgRequests : request'[h] # Absent /\ HoldsRow(request'[h]) =>
                                            request'[h].org # o,
         \A h \in OrgRequests : request'[h] # Absent /\ HoldsRow(request'[h]) =>
             \/ lock'[request'[h].org] = h /\ org'[request'[h].org] = "live"
                /\ AssignHolds(request[h])'
             \/ /\ request'[h] = request[h] /\ lock'[request[h].org] = lock[request[h].org]
                /\ OrgLive(request[h].org) => org'[request[h].org] = "live"
                /\ (request[h].kind = "assign" /\ request[h].person \notin overwritten'
                       /\ person'[request[h].person].role = "ADMIN")
                   => person[request[h].person].role = "ADMIN"
  PROVE  PlacesInv'
<1>1. LocksHold'
  BY DEF PlacesInv, LocksHold, OrgLive
<1>2. OneAdminEach'
  BY DEF PlacesInv, OneAdminEach
<1>3. NobodyLeftBehind'
  BY DEF PlacesInv, NobodyLeftBehind
<1>4. AssignsHold'
  <2> SUFFICES ASSUME NEW h \in OrgRequests, request'[h] # Absent,
                      request'[h].kind = "assign", request'[h].stage = "read",
                      ~AssignHolds(request[h])'
               PROVE  FALSE
    BY DEF AssignsHold, AssignHolds
  <2>1. /\ person'[request'[h].person].role = "ADMIN" /\ request'[h].person \notin overwritten'
        /\ request'[h] = request[h] /\ HoldsRow(request[h]) /\ HoldsRow(request'[h])
    BY DEF HoldsRow, AssignHolds
  <2>2. PICK o : o = request'[h].org
    OBVIOUS
  <2>3. PICK p \in AdminsOf(o)' : p # request'[h].person /\ p \notin overwritten'
    BY <2>2 DEF AssignHolds
  <2>4. p \in AdminsOf(o) /\ p \notin overwritten
    <3>1. request[h] \in Assigns
      BY <2>1, AtKind DEF AtStage
    <3>2. o \in Orgs
      BY <2>1, <2>2, <3>1 DEF Assigns
    <3> QED
      BY <2>1, <2>2, <2>3, <3>2
  <2>5. AssignHolds(request[h])
    BY <2>1 DEF PlacesInv, AssignsHold
  <2>6. person[request[h].person].role = "ADMIN"
    BY <2>1
  <2> QED
    BY <2>1, <2>2, <2>3, <2>4, <2>5, <2>6 DEF AssignHolds
<1> QED
  BY <1>1, <1>2, <1>3, <1>4 DEF PlacesInv

(* No announcement of an organisation is consumed, no deletion is without    *)
(* one, and a new read for the cache reads what is there.                    *)
LEMMA NoticeAfter ==
  ASSUME OrgTypes, NoticeInv, generation' = generation,
         \A o \in Orgs : org'[o] = "deleted" => org[o] = "deleted" \/ ~Announced(o)',
         \A o \in Orgs : cache'[o] = TRUE => cache[o] = TRUE,
         \A h \in OrgRequests :
             /\ AtStage(h, "announce", "announce") /\ request[h].isOrg => request'[h] = request[h]
             /\ request'[h] # Absent /\ request'[h].kind = "look" =>
                  \/ request'[h] = request[h]
                  \/ /\ request'[h].generation = generation
                     /\ request'[h].found => org'[request'[h].org] # "deleted"
  PROVE  NoticeInv'
<1>1. \A o : Announced(o)' => Announced(o)
  BY DEF Announced, AtStage
<1>2. DeletionIsNoticed'
  BY <1>1 DEF NoticeInv, DeletionIsNoticed
<1>3. LooksHold'
  <2> SUFFICES ASSUME NEW h \in OrgRequests, AtStage(h, "look", "read")',
                      NEW o, o = request'[h].org
               PROVE  /\ request'[h].generation <= generation
                      /\ (request'[h].found /\ request'[h].generation = generation
                            /\ org'[o] = "deleted") => ~Announced(o)'
    BY DEF LooksHold
  <2>1. CASE request'[h] = request[h]
    <3>1. AtStage(h, "look", "read") /\ request[h].org \in Orgs
      BY <2>1, AtKind DEF AtStage, Looks
    <3>2. /\ request[h].generation <= generation
          /\ (request[h].found /\ request[h].generation = generation
                /\ org[request[h].org] = "deleted") => ~Announced(request[h].org)
      BY <3>1 DEF NoticeInv, LooksHold
    <3> QED
      BY <2>1, <3>1, <3>2, <1>1
  <2>2. CASE /\ request'[h].generation = generation
             /\ request'[h].found => org'[request'[h].org] # "deleted"
    BY <2>2 DEF OrgTypes, MemoryTypes
  <2> QED
    BY <2>1, <2>2 DEF AtStage
<1> QED
  BY <1>2, <1>3 DEF NoticeInv

(* The sockets stay, each account sees what it saw or its change is still to *)
(* be announced, and nothing that was known comes to life.                   *)
LEMMA RoomsAfter ==
  ASSUME OrgTypes, RoomsInv, Grows, PeopleHold', socket' = socket,
         \A p \in People : person[p] = Absent /\ person'[p] # Absent => socket[p] = Closed,
         \A p \in People : person'[p] = Absent => person[p] = Absent,
         \A o \in Orgs : org'[o] = "live" /\ org[o] # "unused" => org[o] = "live",
         \A d \in Depts : dept'[d].live /\ dept[d].org # Absent => dept[d].live,
         \A p \in People \ overwritten' : IsUnannounced(p) => IsUnannounced(p)',
         \A p \in People \ overwritten', n \in Namespaces :
             \/ IsUnannounced(p)'
             \/ \A room \in Rooms(p, n) : IsLiveRoom(room)' => room \in Rooms(p, n)'
  PROVE  RoomsInv'
<1>1. SocketsHold'
  BY DEF RoomsInv, SocketsHold, Closed
<1>2. RoomsKnown'
  BY DEF RoomsInv, RoomsKnown, Grows, OrgTypes, MemoryTypes, Socket
<1>3. RoomsHold'
  <2> SUFFICES ASSUME NEW p \in People, p \notin overwritten',
                      socket[p].stage \in {"read", "open"}, ~IsUnannounced(p)',
                      NEW room \in socket[p].rooms, IsLiveRoom(room)',
                      NEW n, n = socket[p].namespace
               PROVE  room \in Rooms(p, n)'
    BY DEF RoomsHold
  <2>1. p \in People \ overwritten /\ ~IsUnannounced(p) /\ n \in Namespaces
    BY DEF Grows, OrgTypes, MemoryTypes, Socket
  <2>2. IsLiveRoom(room)
    BY <2>1 DEF IsLiveRoom, OrgLive, RoomsInv, RoomsKnown, OrgTypes, MemoryTypes, Socket
  <2>3. room \in Rooms(p, n)
    BY <2>1, <2>2 DEF RoomsInv, RoomsHold
  <2> QED
    BY <2>1, <2>3
<1> QED
  BY <1>1, <1>2, <1>3 DEF RoomsInv

(* The rows do not change. *)
LEMMA SameRows ==
  ASSUME OrgTypes, UNCHANGED <<org, dept, person, overwritten>>
  PROVE  /\ Grows
         /\ \A o \in Orgs : /\ PeopleOf(o)' = PeopleOf(o) /\ AdminsOf(o)' = AdminsOf(o)
                            /\ DeptsOf(o)' = DeptsOf(o)
         /\ \A p \in People, n \in Namespaces : Rooms(p, n)' = Rooms(p, n)
         /\ PeopleHold => PeopleHold'
         /\ RowTypes /\ lock' = lock => RowTypes'
  BY DEF Grows, PeopleOf, AdminsOf, DeptsOf, Exists, Rooms, OrgLive, PeopleHold, OrgTypes, RowTypes

(* A request that only reads: it is taken up, and nothing else changes. *)
LEMMA ReadKeepsInv ==
  ASSUME OrgInv, NEW r \in OrgRequests, NEW q \in Queries, request[r] = Absent,
         request' = [request EXCEPT ![r] = q], Sound(q), ~HoldsRow(q),
         q.kind = "look" => q.generation = generation /\ (q.found => org[q.org] # "deleted"),
         UNCHANGED <<org, dept, person, lock, cache, generation, socket, overwritten>>
  PROVE  OrgInv'
<1>1. \A h \in OrgRequests : request'[h] = IF h = r THEN q ELSE request[h]
  BY DEF OrgInv, OrgTypes
<1>2. Grows /\ (PeopleHold => PeopleHold') /\ RowTypes'
  BY SameRows DEF OrgInv, OrgTypes
<1>3. Sound(q)'
  BY <1>2, SoundStays DEF OrgInv
<1>4. RequestsSound' /\ OrgTypes'
  BY <1>2, <1>3, RequestsAfter DEF OrgInv, OrgTypes, MemoryTypes
<1>5. PlacesInv'
  <2>1. \A h \in OrgRequests : request'[h] # Absent /\ HoldsRow(request'[h]) => request'[h] = request[h]
    BY <1>1
  <2> QED
    BY <2>1, SameRows, PlacesAfter DEF OrgInv, OrgLive
<1>6. NoticeInv'
  BY <1>1, NoticeAfter DEF OrgInv, AtStage
<1>7. RoomsInv'
  <2>1. \A p \in People : IsUnannounced(p) => IsUnannounced(p)'
    BY <1>1 DEF IsUnannounced, AtStage
  <2> QED
    BY <1>2, <2>1, SameRows, RoomsAfter DEF OrgInv, RoomsInv
<1> QED
  BY <1>4, <1>5, <1>6, <1>7 DEF OrgInv

-----------------------------------------------------------------------------
(* The requests' reads *)

(* A question that the answer waits for: to rename, delete, add an Admin. *)
LEMMA AskingKeepsInv ==
  ASSUME OrgInv, NEW r \in OrgRequests,
         RenameOrg(r) \/ AskDeleteOrg(r) \/ AskCreateAdmin(r) \/ ReadOrg(r)
  PROVE  OrgInv'
<1>1. CASE RenameOrg(r)
  <2>1. PICK o \in Orgs : BeginQuery(r, Announcing(o, {}, TRUE))
    BY <1>1 DEF RenameOrg
  <2>2. PICK q : q = Announcing(o, {}, TRUE)
    OBVIOUS
  <2>3. q \in Announcement /\ q \in Queries
    BY <2>2, AnnouncingType DEF Queries
  <2>4. Sound(q) /\ ~HoldsRow(q) /\ q.kind # "look"
    BY <2>3 DEF Sound, HoldsRow, Announcement
  <2> QED
    BY <1>1, <2>1, <2>2, <2>3, <2>4, ReadKeepsInv DEF RenameOrg, BeginQuery, Free
<1>2. CASE AskDeleteOrg(r)
  <2>1. PICK o \in Orgs : BeginQuery(r, Query("deleteOrg", "ask", o))
    BY <1>2 DEF AskDeleteOrg
  <2>2. PICK q : q = Query("deleteOrg", "ask", o)
    OBVIOUS
  <2>3. q \in Queries /\ Sound(q) /\ ~HoldsRow(q) /\ q.kind # "look"
    BY <2>2 DEF Query, Queries, DeletesOrg, Sound, HoldsRow
  <2> QED
    BY <1>2, <2>1, <2>2, <2>3, ReadKeepsInv DEF AskDeleteOrg, BeginQuery, Free
<1>3. CASE AskCreateAdmin(r)
  <2>1. PICK o \in Orgs : BeginQuery(r, Query("createAdmin", "ask", o))
    BY <1>3 DEF AskCreateAdmin
  <2>2. PICK q : q = Query("createAdmin", "ask", o)
    OBVIOUS
  <2>3. q \in Queries /\ Sound(q) /\ ~HoldsRow(q) /\ q.kind # "look"
    BY <2>2 DEF Query, Queries, CreatesAdmin, Sound, HoldsRow
  <2> QED
    BY <1>3, <2>1, <2>2, <2>3, ReadKeepsInv DEF AskCreateAdmin, BeginQuery, Free
<1>4. CASE ReadOrg(r)
  <2>1. PICK o \in Orgs :
          BeginQuery(r, [kind |-> "look", stage |-> "read", org |-> o,
                         found |-> OrgLive(o), generation |-> generation])
    BY <1>4 DEF ReadOrg
  <2>2. PICK q : q = [kind |-> "look", stage |-> "read", org |-> o,
                      found |-> OrgLive(o), generation |-> generation]
    OBVIOUS
  <2>3. q \in Looks
    BY <2>2 DEF Looks, OrgLive, OrgInv, OrgTypes, MemoryTypes
  <2>4. /\ q \in Queries /\ Sound(q) /\ ~HoldsRow(q)
        /\ q.generation = generation /\ (q.found => org[q.org] # "deleted")
    BY <2>2, <2>3 DEF Queries, Sound, HoldsRow, OrgLive
  <2> QED
    BY <1>4, <2>1, <2>2, <2>4, ReadKeepsInv DEF ReadOrg, BeginQuery, Free
<1> QED
  BY <1>1, <1>2, <1>3, <1>4

LEMMA ChoosingKeepsInv ==
  ASSUME OrgInv, NEW r \in OrgRequests, AskAssign(r) \/ AskRemoveDept(r) \/ AskCreateUser(r)
  PROVE  OrgInv'
<1>1. CASE AskAssign(r)
  <2>1. PICK o \in Orgs, p \in People :
          /\ Exists(p) /\ ~IsSuper(person[p])
          /\ BeginQuery(r, [kind |-> "assign", stage |-> "ask", org |-> o, person |-> p])
    BY <1>1 DEF AskAssign, IsSuper
  <2>2. PICK q : q = [kind |-> "assign", stage |-> "ask", org |-> o, person |-> p]
    OBVIOUS
  <2>3. q \in Queries /\ Sound(q) /\ ~HoldsRow(q) /\ q.kind # "look"
    BY <2>1, <2>2 DEF Queries, Assigns, Sound, HoldsRow, Exists
  <2> QED
    BY <1>1, <2>1, <2>2, <2>3, ReadKeepsInv DEF AskAssign, BeginQuery, Free
<1>2. CASE AskRemoveDept(r)
  <2>1. PICK o \in Orgs, d \in Depts :
          BeginQuery(r, [kind |-> "removeDept", stage |-> "ask", org |-> o, dept |-> d])
    BY <1>2 DEF AskRemoveDept, DeptsOf
  <2>2. PICK q : q = [kind |-> "removeDept", stage |-> "ask", org |-> o, dept |-> d]
    OBVIOUS
  <2>3. q \in Queries /\ Sound(q) /\ ~HoldsRow(q) /\ q.kind # "look"
    BY <2>2 DEF Queries, RemovesDept, Sound, HoldsRow
  <2> QED
    BY <1>2, <2>1, <2>2, <2>3, ReadKeepsInv DEF AskRemoveDept, BeginQuery, Free
<1>3. CASE AskCreateUser(r)
  <2>o. PICK o \in Orgs : \E pl \in Placements(o) :
          BeginQuery(r, [kind |-> "createUser", stage |-> "ask", org |-> o, placement |-> pl])
    BY <1>3 DEF AskCreateUser
  <2>1. PICK pl \in Placements(o) :
          BeginQuery(r, [kind |-> "createUser", stage |-> "ask", org |-> o, placement |-> pl])
    BY <2>o
  <2>2. PICK q : q = [kind |-> "createUser", stage |-> "ask", org |-> o, placement |-> pl]
    OBVIOUS
  <2>3. pl \in Placement /\ \A d \in pl.managed : dept[d].org = o
    BY PlacementsTyped DEF OrgInv, OrgTypes
  <2>4. q \in Queries /\ Sound(q) /\ ~HoldsRow(q) /\ q.kind # "look"
    BY <2>2, <2>3 DEF Queries, CreatesUser, Sound, HoldsRow
  <2> QED
    BY <1>3, <2>1, <2>2, <2>4, ReadKeepsInv DEF AskCreateUser, BeginQuery, Free
<1> QED
  BY <1>1, <1>2, <1>3

(* An edit reads the row and makes a new one of it. *)
LEMMA EditKeepsInv ==
  ASSUME OrgInv, NEW r \in OrgRequests, NEW p \in People, NEW row \in PersonRow,
         NEW links \in BOOLEAN, NEW told \in BOOLEAN,
         request[r] = Absent, BeginQuery(r, Edit(p, row, links, told)), Exists(p),
         row.org = person[p].org, row.role = "ADMIN" <=> person[p].role = "ADMIN",
         IsSuper(row) <=> IsSuper(person[p]),
         IF links THEN \A d \in row.managed : row.org \in Orgs /\ dept[d].org = row.org
                  ELSE row.managed = person[p].managed,
         ~told => /\ row = [person[p] EXCEPT !.active = row.active]
                  /\ person[p].active => row.active,
         UNCHANGED <<org, dept, person, lock, cache, generation, socket, overwritten>>
  PROVE  OrgInv'
<1>1. person[p] \in PersonRow
  BY DEF OrgInv, OrgTypes, RowTypes, Exists
<1>2. PICK q : q = Edit(p, row, links, told)
  OBVIOUS
<1>3. /\ q \in Edits /\ q.person = p /\ q.read = person[p] /\ q.row = row
      /\ q.links = links /\ q.announced = told
  BY <1>1, <1>2, EditType
<1>4. q \in Queries /\ q.kind = "edit"
  BY <1>3 DEF Queries, Edits
<1>5. EditHolds(q)
  BY <1>3 DEF EditHolds, Exists
<1> QED
  BY <1>2, <1>4, <1>5, ReadKeepsInv DEF Sound, HoldsRow, BeginQuery

LEMMA EditingKeepsInv ==
  ASSUME OrgInv, NEW r \in OrgRequests,
         EditSelf(r) \/ EditPlacement(r) \/ EditGrants(r) \/ EditStatus(r) \/ Reactivate(r)
  PROVE  OrgInv'
<1>1. \A p \in People : Exists(p) => person[p] \in PersonRow
  BY DEF OrgInv, OrgTypes, RowTypes, Exists
<1>2. CASE EditSelf(r)
  <2>1. PICK p \in People : Exists(p) /\ BeginQuery(r, Edit(p, person[p], FALSE, FALSE))
    BY <1>2 DEF EditSelf
  <2>2. person[p] = [person[p] EXCEPT !.active = person[p].active]
    BY <1>1, <2>1 DEF PersonRow
  <2> QED
    BY <1>1, <1>2, <2>1, <2>2, EditKeepsInv DEF EditSelf, Free
<1>3. CASE EditPlacement(r)
  <2>o. PICK o \in Orgs, role \in Editors, p \in People : \E pl \in Placements(o) :
          /\ Exists(p) /\ MayEdit(role, o, person[p]) /\ HasPlacement(person[p])
          /\ BeginQuery(r, Edit(p, Placed(person[p], pl), TRUE, Placed(person[p], pl) # person[p]))
    BY <1>3 DEF EditPlacement
  <2>1. PICK pl \in Placements(o) :
          /\ Exists(p) /\ MayEdit(role, o, person[p]) /\ HasPlacement(person[p])
          /\ BeginQuery(r, Edit(p, Placed(person[p], pl), TRUE, Placed(person[p], pl) # person[p]))
    BY <2>o
  <2>2. pl \in Placement /\ \A d \in pl.managed : dept[d].org = o
    BY PlacementsTyped DEF OrgInv, OrgTypes
  <2>3. PICK row : row = Placed(person[p], pl)
    OBVIOUS
  <2>4. /\ row \in PersonRow /\ row.org = o /\ row.org = person[p].org /\ row.role = pl.role
        /\ row.managed = pl.managed
    BY <1>1, <2>1, <2>2, <2>3, PlacedType DEF MayEdit, HasPlacement
  <2>5. /\ row.role # "ADMIN" /\ person[p].role # "ADMIN"
        /\ ~IsSuper(row) /\ ~IsSuper(person[p])
    BY <2>1, <2>2, <2>4 DEF Placement, HasPlacement, IsSuper
  <2>6. row = person[p] => row = [person[p] EXCEPT !.active = row.active]
    BY <1>1, <2>1 DEF PersonRow
  <2> QED
    BY <1>3, <2>1, <2>2, <2>3, <2>4, <2>5, <2>6, EditKeepsInv DEF EditPlacement, Free
<1>4. CASE EditGrants(r)
  <2>1. PICK p \in People, grant \in BOOLEAN :
          Exists(p) /\ BeginQuery(r, Edit(p, [person[p] EXCEPT !.grant = grant], FALSE, TRUE))
    BY <1>4 DEF EditGrants
  <2>2. PICK row : row = [person[p] EXCEPT !.grant = grant]
    OBVIOUS
  <2>3. /\ row \in PersonRow /\ row.org = person[p].org /\ row.role = person[p].role
        /\ row.managed = person[p].managed
    BY <1>1, <2>1, <2>2 DEF PersonRow
  <2> QED
    BY <1>4, <2>1, <2>2, <2>3, EditKeepsInv DEF EditGrants, Free, IsSuper
<1>5. CASE EditStatus(r)
  <2>1. PICK p \in People, stays \in BOOLEAN :
          /\ Exists(p)
          /\ BeginQuery(r, Edit(p, [person[p] EXCEPT !.active = stays], FALSE,
                                person[p].active /\ ~stays))
    BY <1>5 DEF EditStatus
  <2>2. PICK row : row = [person[p] EXCEPT !.active = stays]
    OBVIOUS
  <2>3. PICK told \in BOOLEAN : told = (person[p].active /\ ~stays)
    OBVIOUS
  <2>4. /\ row \in PersonRow /\ row.org = person[p].org /\ row.role = person[p].role
        /\ row.managed = person[p].managed /\ row.active = stays
        /\ row = [person[p] EXCEPT !.active = row.active]
    BY <1>1, <2>1, <2>2 DEF PersonRow
  <2>5. BeginQuery(r, Edit(p, row, FALSE, told))
    BY <2>1, <2>2, <2>3
  <2> QED
    BY <1>5, <2>1, <2>3, <2>4, <2>5, EditKeepsInv DEF EditStatus, Free, IsSuper
<1>6. CASE Reactivate(r)
  <2>o. PICK o \in Orgs, role \in Editors, p \in People : \E pl \in Placements(o) :
          /\ Exists(p) /\ MayEdit(role, o, person[p]) /\ HasPlacement(person[p])
          /\ BeginQuery(r, Edit(p, [Placed(person[p], pl) EXCEPT !.active = TRUE], TRUE, TRUE))
    BY <1>6 DEF Reactivate
  <2>1. PICK pl \in Placements(o) :
          /\ Exists(p) /\ MayEdit(role, o, person[p]) /\ HasPlacement(person[p])
          /\ BeginQuery(r, Edit(p, [Placed(person[p], pl) EXCEPT !.active = TRUE], TRUE, TRUE))
    BY <2>o
  <2>2. pl \in Placement /\ \A d \in pl.managed : dept[d].org = o
    BY PlacementsTyped DEF OrgInv, OrgTypes
  <2>3. PICK placed : placed = Placed(person[p], pl)
    OBVIOUS
  <2>4. /\ placed \in PersonRow /\ placed.org = o /\ placed.org = person[p].org
        /\ placed.role = pl.role /\ placed.managed = pl.managed
    BY <1>1, <2>1, <2>2, <2>3, PlacedType DEF MayEdit, HasPlacement
  <2>5. PICK row : row = [placed EXCEPT !.active = TRUE]
    OBVIOUS
  <2>6. /\ row \in PersonRow /\ row.org = o /\ row.org = person[p].org
        /\ row.role = pl.role /\ row.managed = pl.managed
    BY <2>4, <2>5 DEF PersonRow
  <2>7. /\ row.role # "ADMIN" /\ person[p].role # "ADMIN"
        /\ ~IsSuper(row) /\ ~IsSuper(person[p])
    BY <2>1, <2>2, <2>6 DEF Placement, HasPlacement, IsSuper
  <2> QED
    BY <1>6, <2>1, <2>2, <2>3, <2>5, <2>6, <2>7, EditKeepsInv DEF Reactivate, Free
<1> QED
  BY <1>2, <1>3, <1>4, <1>5, <1>6

-----------------------------------------------------------------------------
(* Announcements, and what the process remembers *)

(* A request moves on: the other ones stay, and with them what they have to  *)
(* announce.                                                                 *)
LEMMA MovesAlone ==
  ASSUME OrgTypes, NEW r \in OrgRequests, NEW q, request' = [request EXCEPT ![r] = q]
  PROVE  /\ \A h \in OrgRequests : request'[h] = IF h = r THEN q ELSE request[h]
         /\ ~AtStage(r, "announce", "announce") =>
              /\ \A p : IsUnannounced(p) => IsUnannounced(p)'
              /\ \A h \in OrgRequests : AtStage(h, "announce", "announce") =>
                                          request'[h] = request[h]
<1>1. \A h \in OrgRequests : request'[h] = IF h = r THEN q ELSE request[h]
  BY DEF OrgTypes
<1> QED
  BY <1>1 DEF IsUnannounced, AtStage

LEMMA AnnounceNotice ==
  ASSUME OrgInv, NEW r \in OrgRequests, Announce(r)
  PROVE  NoticeInv'
<1> DEFINE q == request[r]
<1>1. q \in Announcement
  BY AtKind DEF Announce, OrgInv
<1>2. \A h \in OrgRequests : request'[h] = IF h = r THEN Absent ELSE request[h]
  BY MovesAlone DEF Announce, Finish, Continue, OrgInv
<1>3. \A o \in Orgs : Announced(o)' => Announced(o) \/ (q.isOrg /\ q.org = o)
  BY <1>2 DEF Announced, AtStage
<1>4. /\ generation' = (IF q.isOrg THEN generation + 1 ELSE generation)
      /\ cache' = (IF q.isOrg THEN [cache EXCEPT ![q.org] = Absent] ELSE cache) /\ org' = org
  BY DEF Announce
<1>5. DeletionIsNoticed'
  <2> SUFFICES ASSUME NEW o \in Orgs, org[o] = "deleted", Announced(o)'
               PROVE  cache'[o] # TRUE
    BY <1>4 DEF DeletionIsNoticed
  <2>1. CASE q.isOrg /\ q.org = o
    BY <1>4, <2>1, OrgAssumption DEF OrgInv, OrgTypes, MemoryTypes
  <2>2. CASE Announced(o)
    BY <1>4, <2>2, OrgAssumption DEF OrgInv, OrgTypes, MemoryTypes, NoticeInv, DeletionIsNoticed
  <2> QED
    BY <1>3, <2>1, <2>2
<1>6. LooksHold'
  <2> SUFFICES ASSUME NEW h \in OrgRequests, AtStage(h, "look", "read")',
                      NEW o, o = request'[h].org
               PROVE  /\ request'[h].generation <= generation'
                      /\ (request'[h].found /\ request'[h].generation = generation'
                            /\ org'[o] = "deleted") => ~Announced(o)'
    BY DEF LooksHold
  <2>1. h # r /\ AtStage(h, "look", "read") /\ request'[h] = request[h]
    BY <1>2 DEF AtStage
  <2>2. request[h] \in Looks /\ generation \in Nat /\ o \in Orgs
    BY <2>1, AtKind DEF OrgInv, OrgTypes, MemoryTypes, Looks
  <2>3. /\ request[h].generation <= generation
        /\ (request[h].found /\ request[h].generation = generation
              /\ org[request[h].org] = "deleted") => ~Announced(request[h].org)
    BY <2>1 DEF OrgInv, NoticeInv, LooksHold
  <2>4. CASE q.isOrg
    BY <1>4, <2>1, <2>2, <2>3, <2>4 DEF Looks
  <2>5. CASE ~q.isOrg
    BY <1>3, <1>4, <2>1, <2>2, <2>3, <2>5
  <2> QED
    BY <2>4, <2>5
<1> QED
  BY <1>5, <1>6 DEF NoticeInv

(* A change that is announced closes the sockets that may have read before it. *)
LEMMA AnnounceRooms ==
  ASSUME OrgInv, NEW r \in OrgRequests, Announce(r)
  PROVE  RoomsInv'
<1> DEFINE q == request[r]
<1>1. q \in Announcement
  BY AtKind DEF Announce, OrgInv
<1>2. \A h \in OrgRequests : request'[h] = IF h = r THEN Absent ELSE request[h]
  BY MovesAlone DEF Announce, Finish, Continue, OrgInv
<1>3. socket' = [p \in People |-> IF p \in q.people THEN Evicted(p) ELSE socket[p]]
  BY DEF Announce
<1>4. UNCHANGED <<org, dept, person, overwritten>>
  BY DEF Announce
<1>5. \A p \in People : \/ socket'[p] = socket[p]
                        \/ socket'[p] = Closed
  BY <1>3 DEF Evicted, Closed
<1>6. PeopleHold' /\ \A p \in People, n \in Namespaces : Rooms(p, n)' = Rooms(p, n)
  BY <1>4, SameRows DEF OrgInv, RoomsInv
<1>7. SocketsHold' /\ RoomsKnown'
  BY <1>4, <1>5 DEF OrgInv, RoomsInv, SocketsHold, RoomsKnown, Closed
<1>8. RoomsHold'
  <2> SUFFICES ASSUME NEW p \in People \ overwritten,
                      socket'[p].stage \in {"read", "open"}, ~IsUnannounced(p)',
                      NEW room \in socket'[p].rooms, IsLiveRoom(room)'
               PROVE  room \in Rooms(p, socket[p].namespace)' /\ socket'[p] = socket[p]
    BY <1>4 DEF RoomsHold
  <2>1. socket'[p] = socket[p] /\ p \notin q.people /\ socket[p].namespace \in Namespaces
    BY <1>3 DEF Evicted, Closed, OrgInv, OrgTypes, MemoryTypes, Socket
  <2>2. ~IsUnannounced(p)
    BY <1>2, <2>1 DEF IsUnannounced, AtStage
  <2>3. IsLiveRoom(room)
    BY <1>4 DEF IsLiveRoom, OrgLive
  <2> QED
    BY <1>6, <2>1, <2>2, <2>3 DEF OrgInv, RoomsInv, RoomsHold
<1> QED
  BY <1>6, <1>7, <1>8 DEF RoomsInv

LEMMA AnnounceKeepsInv ==
  ASSUME OrgInv, NEW r \in OrgRequests, Announce(r)
  PROVE  OrgInv'
<1> DEFINE q == request[r]
<1>1. q \in Announcement
  BY AtKind DEF Announce, OrgInv
<1>2. request' = [request EXCEPT ![r] = Absent]
  BY DEF Announce, Finish, Continue
<1>3. \A h \in OrgRequests : request'[h] = IF h = r THEN Absent ELSE request[h]
  BY <1>2, MovesAlone DEF OrgInv
<1>4. UNCHANGED <<org, dept, person, overwritten>> /\ lock' = lock
  BY DEF Announce
<1>5. Grows /\ RowTypes'
  BY <1>4, SameRows DEF OrgInv, OrgTypes
<1>6. MemoryTypes'
  <2>1. generation' \in Nat /\ cache' \in [Orgs -> BOOLEAN \cup {Absent}]
    <3>1. generation' = generation \/ generation' = generation + 1
      BY DEF Announce
    <3>2. cache' = cache \/ cache' = [cache EXCEPT ![q.org] = Absent]
      BY DEF Announce
    <3> QED
      BY <3>1, <3>2 DEF OrgInv, OrgTypes, MemoryTypes
  <2>2. socket' = [p \in People |-> IF p \in q.people THEN Evicted(p) ELSE socket[p]]
    BY DEF Announce
  <2> QED
    BY <2>1, <2>2 DEF OrgInv, OrgTypes, MemoryTypes, Evicted, Closed, Socket, Namespaces
<1>7. RequestsSound' /\ OrgTypes'
  BY <1>2, <1>5, <1>6, RequestsAfter DEF OrgInv, OrgTypes
<1>8. PlacesInv'
  <2>1. \A h \in OrgRequests : request'[h] # Absent => request'[h] = request[h]
    BY <1>3
  <2>2. \A o \in Orgs : /\ PeopleOf(o)' = PeopleOf(o) /\ AdminsOf(o)' = AdminsOf(o)
                        /\ DeptsOf(o)' = DeptsOf(o)
    BY <1>4, SameRows DEF OrgInv
  <2> QED
    BY <1>4, <2>1, <2>2, PlacesAfter DEF OrgInv, OrgLive
<1> QED
  BY <1>7, <1>8, AnnounceNotice, AnnounceRooms DEF OrgInv

(* A read is kept only if no organisation changed since it began. *)
LEMMA KeepOrgKeepsInv ==
  ASSUME OrgInv, NEW r \in OrgRequests, KeepOrg(r)
  PROVE  OrgInv'
<1> DEFINE q == request[r]
<1>1. q \in Looks
  BY AtKind DEF KeepOrg, OrgInv
<1>2. request' = [request EXCEPT ![r] = Absent]
  BY DEF KeepOrg, Finish, Continue
<1>3. /\ \A h \in OrgRequests : request'[h] = IF h = r THEN Absent ELSE request[h]
      /\ \A p : IsUnannounced(p) => IsUnannounced(p)'
      /\ \A h \in OrgRequests : AtStage(h, "announce", "announce") => request'[h] = request[h]
  BY <1>2, MovesAlone DEF OrgInv, KeepOrg, AtStage
<1>4. /\ UNCHANGED <<org, dept, person, overwritten>>
      /\ lock' = lock /\ generation' = generation /\ socket' = socket
  BY DEF KeepOrg
<1>5. cache' = IF q.generation = generation THEN [cache EXCEPT ![q.org] = q.found] ELSE cache
  BY DEF KeepOrg, MayKeep
<1>6. Grows /\ RowTypes' /\ PeopleHold'
  BY <1>4, SameRows DEF OrgInv, OrgTypes, RoomsInv
<1>7. RequestsSound' /\ OrgTypes'
  BY <1>1, <1>2, <1>4, <1>5, <1>6, RequestsAfter DEF OrgInv, OrgTypes, MemoryTypes, Looks
<1>8. PlacesInv'
  <2>1. \A h \in OrgRequests : request'[h] # Absent => request'[h] = request[h]
    BY <1>3
  <2>2. \A o \in Orgs : /\ PeopleOf(o)' = PeopleOf(o) /\ AdminsOf(o)' = AdminsOf(o)
                        /\ DeptsOf(o)' = DeptsOf(o)
    BY <1>4, SameRows DEF OrgInv
  <2> QED
    BY <1>4, <2>1, <2>2, PlacesAfter DEF OrgInv, OrgLive
<1>9. NoticeInv'
  <2>1. \A o : Announced(o)' <=> Announced(o)
    BY <1>3 DEF Announced, AtStage, KeepOrg
  <2>2. DeletionIsNoticed'
    <3> SUFFICES ASSUME NEW o \in Orgs, org[o] = "deleted", Announced(o)
                 PROVE  cache'[o] # TRUE
      BY <1>4, <2>1 DEF DeletionIsNoticed
    <3>1. cache[o] # TRUE
      BY DEF OrgInv, NoticeInv, DeletionIsNoticed
    <3>2. q.org = o /\ q.generation = generation => ~q.found
      BY DEF KeepOrg, OrgInv, NoticeInv, LooksHold
    <3> QED
      BY <1>1, <1>5, <3>1, <3>2 DEF OrgInv, OrgTypes, MemoryTypes, Looks
  <2>3. LooksHold'
    <3> SUFFICES ASSUME NEW h \in OrgRequests, AtStage(h, "look", "read")',
                        NEW o, o = request'[h].org
                 PROVE  /\ request'[h].generation <= generation
                        /\ (request'[h].found /\ request'[h].generation = generation
                              /\ org[o] = "deleted") => ~Announced(o)'
      BY <1>4 DEF LooksHold
    <3>1. AtStage(h, "look", "read") /\ request'[h] = request[h]
      BY <1>3 DEF AtStage
    <3> QED
      BY <2>1, <3>1 DEF OrgInv, NoticeInv, LooksHold
  <2> QED
    BY <2>2, <2>3 DEF NoticeInv
<1>10. RoomsInv'
  BY <1>3, <1>4, <1>6, SameRows, RoomsAfter DEF OrgInv
<1> QED
  BY <1>7, <1>8, <1>9, <1>10 DEF OrgInv

LEMMA ForgetOrgKeepsInv ==
  ASSUME OrgInv, ForgetOrg
  PROVE  OrgInv'
<1>1. /\ UNCHANGED <<org, dept, person, overwritten>>
      /\ lock' = lock /\ generation' = generation /\ socket' = socket /\ request' = request
  BY DEF ForgetOrg
<1>2. PICK o \in Orgs : cache' = [cache EXCEPT ![o] = Absent]
  BY DEF ForgetOrg
<1>3. Grows /\ RowTypes' /\ PeopleHold'
  BY <1>1, SameRows DEF OrgInv, OrgTypes, RoomsInv
<1>4. OrgTypes' /\ RequestsSound'
  <2>1. OrgTypes'
    BY <1>1, <1>2, <1>3 DEF OrgInv, OrgTypes, MemoryTypes
  <2>2. ASSUME NEW h \in OrgRequests, request[h] # Absent
        PROVE  Sound(request[h])'
    <3>1. PICK n \in Queries : n = request[h]
      BY <2>2 DEF OrgInv, OrgTypes
    <3>2. Sound(n)'
      BY <1>3, <2>2, <3>1, SoundStays DEF OrgInv, RequestsSound
    <3> QED
      BY <1>1, <3>1, <3>2
  <2> QED
    BY <1>1, <2>1, <2>2 DEF RequestsSound
<1>5. PlacesInv'
  <2>1. \A x \in Orgs : /\ PeopleOf(x)' = PeopleOf(x) /\ AdminsOf(x)' = AdminsOf(x)
                        /\ DeptsOf(x)' = DeptsOf(x)
    BY <1>1, SameRows DEF OrgInv
  <2> QED
    BY <1>1, <2>1, PlacesAfter DEF OrgInv, OrgLive
<1>6. NoticeInv'
  <2>1. \A x \in Orgs : cache'[x] = TRUE => cache[x] = TRUE
    BY <1>2, OrgAssumption DEF OrgInv, OrgTypes, MemoryTypes
  <2> QED
    BY <1>1, <2>1, NoticeAfter DEF OrgInv
<1>7. RoomsInv'
  <2>1. \A p \in People : IsUnannounced(p) => IsUnannounced(p)'
    BY <1>1 DEF IsUnannounced, AtStage
  <2> QED
    BY <1>1, <1>3, <2>1, SameRows, RoomsAfter DEF OrgInv
<1> QED
  BY <1>4, <1>5, <1>6, <1>7 DEF OrgInv

-----------------------------------------------------------------------------
(* Live sockets *)

LEMMA SocketKeepsInv ==
  ASSUME OrgInv, NEW p \in People, SocketNext(p)
  PROVE  OrgInv'
<1>1. /\ UNCHANGED <<org, dept, person, overwritten>> /\ lock' = lock
      /\ generation' = generation /\ request' = request /\ cache' = cache
  BY DEF SocketNext, Connect, JoinAccount, ReadRooms, JoinRooms, Disconnect, SocketStep
<1>2. /\ Grows /\ RowTypes' /\ PeopleHold'
      /\ \A x \in People, n \in Namespaces : Rooms(x, n)' = Rooms(x, n)
  BY <1>1, SameRows DEF OrgInv, OrgTypes, RoomsInv
<1>3. \A x \in People : /\ IsUnannounced(x)' = IsUnannounced(x)
                        /\ \A room : IsLiveRoom(room)' = IsLiveRoom(room)
  BY <1>1 DEF IsUnannounced, AtStage, IsLiveRoom, OrgLive
<1>4. \A n \in Namespaces : Rooms(p, n) \subseteq Orgs \cup Depts
  BY DEF Rooms, Exists, OrgInv, OrgTypes, RowTypes, PersonRow, Roles
<1>n. socket[p].namespace \in Namespaces /\ "team" \in Namespaces
  BY DEF OrgInv, OrgTypes, MemoryTypes, Socket, Namespaces
<1>5. PICK s : /\ socket' = [socket EXCEPT ![p] = s]
               /\ \/ /\ \E n \in Namespaces :
                           s = [stage |-> "checked", namespace |-> n, rooms |-> {}]
                     /\ Exists(p)
                  \/ /\ s = [stage |-> "joined", namespace |-> socket[p].namespace, rooms |-> {}]
                     /\ socket[p].stage = "checked"
                  \/ /\ \E rooms \in SUBSET Rooms(p, socket[p].namespace) :
                           s = [stage |-> "read", namespace |-> socket[p].namespace,
                                rooms |-> rooms]
                     /\ socket[p].stage = "joined"
                  \/ /\ s = [stage |-> "open", namespace |-> socket[p].namespace,
                            rooms |-> socket[p].rooms]
                     /\ socket[p].stage = "read"
                  \/ s = Closed
  <2>1. CASE Connect(p)
    BY <2>1 DEF Connect, SocketStep
  <2>2. CASE ReadRooms(p)
    <3>1. PICK o \in Orgs :
            SocketStep(p, "joined", "read", socket[p].namespace, Joined(p, socket[p].namespace, o))
      BY <2>2 DEF ReadRooms
    <3>2. Joined(p, socket[p].namespace, o) \in SUBSET Rooms(p, socket[p].namespace)
      BY DEF Joined
    <3> QED
      BY <3>1, <3>2 DEF SocketStep
  <2>3. CASE JoinAccount(p) \/ JoinRooms(p) \/ Disconnect(p)
    BY <2>3 DEF JoinAccount, JoinRooms, Disconnect, SocketStep, Closed
  <2> QED
    BY <2>1, <2>2, <2>3 DEF SocketNext
<1>6. /\ socket'[p] = s
      /\ \A x \in People \ {p} : socket'[x] = socket[x]
  BY <1>5 DEF OrgInv, OrgTypes, MemoryTypes
<1>7. OrgTypes' /\ RequestsSound'
  <2>1. s \in Socket
    <3>1. socket[p].rooms \in SUBSET (Orgs \cup Depts)
      BY DEF OrgInv, OrgTypes, MemoryTypes, Socket
    <3> QED
      BY <1>4, <1>5, <1>n, <3>1 DEF Closed, Socket
  <2>2. OrgTypes'
    BY <1>1, <1>2, <1>5, <2>1 DEF OrgInv, OrgTypes, MemoryTypes
  <2>3. ASSUME NEW h \in OrgRequests, request[h] # Absent
        PROVE  Sound(request[h])'
    <3>1. PICK n \in Queries : n = request[h]
      BY <2>3 DEF OrgInv, OrgTypes
    <3>2. Sound(n)'
      BY <1>2, <2>3, <3>1, SoundStays DEF OrgInv, RequestsSound
    <3> QED
      BY <1>1, <3>1, <3>2
  <2> QED
    BY <1>1, <2>2, <2>3 DEF RequestsSound
<1>8. PlacesInv'
  <2>1. \A x \in Orgs : /\ PeopleOf(x)' = PeopleOf(x) /\ AdminsOf(x)' = AdminsOf(x)
                        /\ DeptsOf(x)' = DeptsOf(x)
    BY <1>1, SameRows DEF OrgInv
  <2> QED
    BY <1>1, <2>1, PlacesAfter DEF OrgInv, OrgLive
<1>9. NoticeInv'
  BY <1>1, NoticeAfter DEF OrgInv
<1>10. SocketsHold'
  <2>1. person[p] = Absent => s = Closed
    <3>1. person[p] = Absent => socket[p] = Closed
      BY DEF OrgInv, RoomsInv, SocketsHold
    <3> QED
      BY <1>5, <3>1 DEF Exists, Closed
  <2> QED
    BY <1>1, <1>6, <2>1 DEF OrgInv, RoomsInv, SocketsHold, Closed
<1>11. RoomsKnown'
  <2>1. p \notin overwritten => \A n \in Namespaces : \A room \in Rooms(p, n) :
          /\ room \in Orgs => org[room] # "unused"
          /\ room \in Depts => dept[room].org # Absent
    <3> SUFFICES ASSUME p \notin overwritten, NEW n \in Namespaces, NEW room \in Rooms(p, n)
                 PROVE  /\ room \in Orgs => org[room] # "unused"
                        /\ room \in Depts => dept[room].org # Absent
      OBVIOUS
    <3>1. person[p] \in PersonRow /\ person[p] # Absent
      BY DEF Rooms, Exists, OrgInv, OrgTypes, RowTypes
    <3>2. /\ person[p].org \in Orgs => org[person[p].org] # "unused"
          /\ \A d \in person[p].managed : person[p].org \in Orgs /\ dept[d].org = person[p].org
      BY <3>1 DEF OrgInv, RoomsInv, PeopleHold
    <3>3. \/ room = person[p].org /\ room \in Orgs
          \/ room \in person[p].managed /\ room \in Depts
          \/ room \in Orgs /\ org[room] = "live"
      BY <3>1 DEF Rooms, OrgLive, PersonRow, Roles
    <3> QED
      BY <3>2, <3>3, OrgAssumption
  <2>2. \A room \in s.rooms : room \in socket[p].rooms \/ room \in Rooms(p, socket[p].namespace)
    BY <1>5 DEF Closed
  <2> QED
    BY <1>1, <1>6, <1>n, <2>1, <2>2 DEF OrgInv, RoomsInv, RoomsKnown
<1>12. RoomsHold'
  <2>1. s.stage \in {"read", "open"} =>
          /\ s.namespace = socket[p].namespace
          /\ \/ s.rooms \subseteq Rooms(p, s.namespace)
             \/ socket[p].stage = "read" /\ s.rooms = socket[p].rooms
    BY <1>5 DEF Closed
  <2> SUFFICES ASSUME NEW x \in People \ overwritten, socket'[x].stage \in {"read", "open"},
                      ~IsUnannounced(x), NEW room \in socket'[x].rooms, IsLiveRoom(room)
               PROVE  \E n \in Namespaces :
                        n = socket'[x].namespace /\ room \in Rooms(x, n)'
    BY <1>1, <1>3 DEF RoomsHold
  <2>2. socket'[x].namespace = socket[x].namespace /\ socket[x].namespace \in Namespaces
    BY <1>6, <2>1 DEF OrgInv, OrgTypes, MemoryTypes, Socket
  <2>3. room \in Rooms(x, socket[x].namespace)
    BY <1>6, <2>1, <2>2 DEF OrgInv, RoomsInv, RoomsHold
  <2> QED
    BY <1>2, <2>2, <2>3
<1> QED
  BY <1>2, <1>7, <1>8, <1>9, <1>10, <1>11, <1>12 DEF OrgInv, RoomsInv

-----------------------------------------------------------------------------
(* Organisations are created and deleted *)

(* Who holds a row is not disturbed by a request that holds it, or that      *)
(* found it free.                                                            *)
LEMMA OthersHold ==
  ASSUME OrgTypes, PlacesInv, NEW r \in OrgRequests, NEW o \in Orgs, lock[o] \in {Absent, r}
  PROVE  \A h \in OrgRequests \ {r} :
           request[h] # Absent /\ HoldsRow(request[h]) =>
             /\ request[h].org \in Orgs /\ request[h].org # o
             /\ lock[request[h].org] = h /\ OrgLive(request[h].org)
<1> SUFFICES ASSUME NEW h \in OrgRequests, h # r, request[h] # Absent, HoldsRow(request[h])
             PROVE  /\ request[h].org \in Orgs /\ request[h].org # o
                    /\ lock[request[h].org] = h /\ OrgLive(request[h].org)
  OBVIOUS
<1>1. lock[request[h].org] = h /\ OrgLive(request[h].org)
  BY DEF PlacesInv, LocksHold
<1>2. request[h] \in DeletesOrg \cup Assigns
  BY AtKind DEF AtStage, HoldsRow
<1> QED
  BY <1>1, <1>2, OrgAssumption DEF DeletesOrg, Assigns

LEMMA CreateOrgKeepsInv ==
  ASSUME OrgInv, NEW r \in OrgRequests, CreateOrg(r)
  PROVE  OrgInv'
<1>1. PICK o \in Orgs : /\ org[o] = "unused" /\ org' = [org EXCEPT ![o] = "live"]
                        /\ BeginQuery(r, Announcing(o, {}, TRUE))
  BY DEF CreateOrg
<1>2. PICK q : q = Announcing(o, {}, TRUE)
  OBVIOUS
<1>3. q \in Announcement /\ q \in Queries
  BY <1>2, AnnouncingType DEF Queries
<1>4. Sound(q)' /\ ~HoldsRow(q) /\ q.kind # "look" /\ q # Absent
  BY <1>2, <1>3, OrgAssumption DEF Sound, HoldsRow, Announcement
<1>5. request' = [request EXCEPT ![r] = q] /\ request[r] = Absent
  BY <1>1, <1>2 DEF BeginQuery, CreateOrg, Free
<1>6. /\ \A h \in OrgRequests : request'[h] = IF h = r THEN q ELSE request[h]
      /\ \A p : IsUnannounced(p) => IsUnannounced(p)'
      /\ \A h \in OrgRequests : AtStage(h, "announce", "announce") => request'[h] = request[h]
  BY <1>5, MovesAlone DEF OrgInv, AtStage
<1>7. UNCHANGED <<dept, person, lock, cache, generation, socket, overwritten>>
  BY DEF CreateOrg
<1>8. \A x \in Orgs : org'[x] = IF x = o THEN "live" ELSE org[x]
  BY <1>1 DEF OrgInv, OrgTypes, RowTypes
<1>9. Grows
  BY <1>1, <1>7, <1>8 DEF Grows
<1>10. OrgTypes' /\ RequestsSound'
  BY <1>1, <1>3, <1>4, <1>5, <1>7, <1>9, RequestsAfter DEF OrgInv, OrgTypes, RowTypes, MemoryTypes
<1>11. PlacesInv'
  <2>1. \A x \in Orgs : /\ PeopleOf(x)' = PeopleOf(x) /\ AdminsOf(x)' = AdminsOf(x)
                        /\ DeptsOf(x)' = DeptsOf(x)
    BY <1>7 DEF PeopleOf, AdminsOf, DeptsOf, Exists
  <2>2. \A h \in OrgRequests : request'[h] # Absent /\ HoldsRow(request'[h]) =>
          /\ request'[h] = request[h]
          /\ OrgLive(request[h].org) => org'[request[h].org] = "live"
    BY <1>1, <1>4, <1>6, <1>8 DEF OrgLive, OrgInv, OrgTypes, RowTypes
  <2> QED
    BY <1>7, <1>8, <2>1, <2>2, PlacesAfter DEF OrgInv
<1>12. NoticeInv'
  <2>1. \A h \in OrgRequests : AtStage(h, "announce", "announce") => h # r
    BY <1>5 DEF AtStage
  <2> QED
    BY <1>4, <1>6, <1>7, <1>8, <2>1, NoticeAfter DEF OrgInv
<1>13. RoomsInv'
  <2>1. PeopleHold'
    BY <1>7, <1>8 DEF OrgInv, RoomsInv, PeopleHold
  <2>2. \A p \in People, n \in Namespaces : Rooms(p, n) \subseteq Rooms(p, n)'
    BY <1>7, <1>8 DEF Rooms, Exists, OrgLive
  <2> QED
    BY <1>1, <1>6, <1>7, <1>8, <1>9, <2>1, <2>2, RoomsAfter DEF OrgInv
<1> QED
  BY <1>10, <1>11, <1>12, <1>13 DEF OrgInv

LEMMA CountDeleteOrgKeepsInv ==
  ASSUME OrgInv, NEW r \in OrgRequests, CountDeleteOrg(r)
  PROVE  OrgInv'
<1> DEFINE o == request[r].org
<1>1. o \in Orgs /\ lock[o] = Absent
  BY AtKind DEF CountDeleteOrg, OrgInv, DeletesOrg
<1>2. PICK q : /\ request' = [request EXCEPT ![r] = q]
               /\ \/ q = Absent /\ lock' = lock
                  \/ /\ q = Query("deleteOrg", "counted", o) /\ OrgLive(o)
                     /\ lock' = [lock EXCEPT ![o] = r]
  BY DEF CountDeleteOrg, Continue, Finish
<1>3. /\ q \in Queries \cup {Absent}
      /\ q # Absent => q \in DeletesOrg /\ q.org = o
  BY <1>1, <1>2 DEF Query, Queries, DeletesOrg
<1>4. (q # Absent => Sound(q)' /\ AssignHolds(q)') /\ (q # Absent => q.kind = "deleteOrg")
  BY <1>3 DEF Sound, AssignHolds, DeletesOrg
<1>5. /\ \A h \in OrgRequests : request'[h] = IF h = r THEN q ELSE request[h]
      /\ \A p : IsUnannounced(p) => IsUnannounced(p)'
      /\ \A h \in OrgRequests : AtStage(h, "announce", "announce") => request'[h] = request[h]
  <2>1. ~AtStage(r, "announce", "announce")
    BY DEF CountDeleteOrg, AtStage
  <2> QED
    BY <1>2, <2>1, MovesAlone DEF OrgInv
<1>6. UNCHANGED <<org, dept, person, overwritten>> /\ UNCHANGED <<cache, generation, socket>>
  BY DEF CountDeleteOrg
<1>7. lock' \in [Orgs -> OrgRequests \cup {Absent}]
  BY <1>1, <1>2 DEF OrgInv, OrgTypes, RowTypes
<1>8. Grows /\ PeopleHold'
  BY <1>6, SameRows DEF OrgInv, RoomsInv
<1>9. OrgTypes' /\ RequestsSound'
  BY <1>2, <1>3, <1>4, <1>6, <1>7, <1>8, RequestsAfter DEF OrgInv, OrgTypes, RowTypes, MemoryTypes
<1>10. PlacesInv'
  <2>1. \A x \in Orgs : /\ PeopleOf(x)' = PeopleOf(x) /\ AdminsOf(x)' = AdminsOf(x)
                        /\ DeptsOf(x)' = DeptsOf(x)
    BY <1>6, SameRows DEF OrgInv
  <2>2. \A h \in OrgRequests \ {r} : request'[h] # Absent /\ HoldsRow(request'[h]) =>
          request'[h] = request[h] /\ lock'[request[h].org] = lock[request[h].org]
    BY <1>1, <1>2, <1>5, OthersHold DEF OrgInv, OrgTypes, RowTypes
  <2>3. request'[r] # Absent /\ HoldsRow(request'[r]) =>
          /\ lock'[request'[r].org] = r /\ org'[request'[r].org] = "live"
          /\ AssignHolds(request[r])'
    BY <1>1, <1>2, <1>3, <1>4, <1>5, <1>6 DEF OrgInv, OrgTypes, RowTypes, OrgLive
  <2> QED
    BY <1>6, <2>1, <2>2, <2>3, PlacesAfter DEF OrgInv, OrgLive
<1>11. NoticeInv'
  BY <1>4, <1>5, <1>6, NoticeAfter DEF OrgInv
<1>12. RoomsInv'
  BY <1>5, <1>6, <1>8, SameRows, RoomsAfter DEF OrgInv
<1> QED
  BY <1>9, <1>10, <1>11, <1>12 DEF OrgInv

(* Everybody and every department of a deleted organisation goes with it. *)
LEMMA DeleteOrgKeepsInv ==
  ASSUME OrgInv, NEW r \in OrgRequests, DeleteOrg(r)
  PROVE  OrgInv'
<1>1. PICK o \in Orgs : o = request[r].org /\ lock[o] = r /\ OrgLive(o)
  <2>1. request[r] \in DeletesOrg /\ request[r] # Absent /\ HoldsRow(request[r])
    BY AtKind DEF DeleteOrg, OrgInv, HoldsRow, AtStage
  <2> QED
    BY <2>1 DEF DeletesOrg, OrgInv, PlacesInv, LocksHold
<1>2. PICK q : q = Announcing(o, {}, TRUE) /\ request' = [request EXCEPT ![r] = q]
  BY <1>1 DEF DeleteOrg, Continue
<1>3. q \in Announcement /\ q \in Queries /\ q.org = o /\ q.isOrg
  BY <1>1, <1>2, AnnouncingType DEF Queries, Announcing
<1>4. Sound(q)' /\ ~HoldsRow(q) /\ q.kind # "look" /\ q # Absent
  BY <1>3, OrgAssumption DEF Sound, HoldsRow, Announcement
<1>5. /\ \A h \in OrgRequests : request'[h] = IF h = r THEN q ELSE request[h]
      /\ \A p : IsUnannounced(p) => IsUnannounced(p)'
      /\ \A h \in OrgRequests : AtStage(h, "announce", "announce") => request'[h] = request[h]
  <2>1. ~AtStage(r, "announce", "announce")
    BY DEF DeleteOrg, AtStage
  <2>2. request' = [request EXCEPT ![r] = q]
    BY <1>2
  <2> QED
    BY <2>1, <2>2, MovesAlone DEF OrgInv
<1>6. UNCHANGED <<cache, generation, socket, overwritten>>
  BY DEF DeleteOrg
<1>7. /\ \A x \in Orgs : org'[x] = IF x = o THEN "deleted" ELSE org[x]
      /\ \A x \in Orgs : lock'[x] = IF x = o THEN Absent ELSE lock[x]
      /\ \A d \in Depts : dept'[d] = IF dept[d].org = o THEN [dept[d] EXCEPT !.live = FALSE]
                                     ELSE dept[d]
      /\ \A p \in People : person'[p] = IF p \in PeopleOf(o) THEN [person[p] EXCEPT !.gone = TRUE]
                                        ELSE person[p]
  BY <1>1 DEF DeleteOrg, OrgInv, OrgTypes, RowTypes
<1>8. RowTypes'
  <2>1. ASSUME NEW p \in People
        PROVE  person'[p] \in PersonRow \cup {Absent}
    BY <1>7 DEF OrgInv, OrgTypes, RowTypes, PersonRow, PeopleOf, Exists
  <2>2. ASSUME NEW d \in Depts
        PROVE  dept'[d] \in DeptRow
    <3>1. dept[d] \in DeptRow
      BY DEF OrgInv, OrgTypes, RowTypes
    <3>2. [dept[d] EXCEPT !.live = FALSE] \in DeptRow
      BY <3>1 DEF DeptRow
    <3> QED
      BY <1>7, <3>1, <3>2
  <2>3. /\ org' \in [Orgs -> {"unused", "live", "deleted"}]
        /\ lock' \in [Orgs -> OrgRequests \cup {Absent}]
        /\ person' = [p \in People |-> person'[p]] /\ dept' = [d \in Depts |-> dept'[d]]
    BY DEF DeleteOrg, OrgInv, OrgTypes, RowTypes
  <2> QED
    BY <1>6, <2>1, <2>2, <2>3 DEF OrgInv, OrgTypes, RowTypes
<1>9. /\ \A p \in People : /\ person'[p] = Absent <=> person[p] = Absent
                           /\ person[p] # Absent => /\ person'[p] = [person[p] EXCEPT !.gone = person'[p].gone]
                                                    /\ person[p].gone => person'[p].gone
      /\ \A d \in Depts : dept'[d].org = dept[d].org /\ (dept'[d].live => dept[d].live)
  <2>1. ASSUME NEW p \in People, person[p] # Absent
        PROVE  /\ person'[p] # Absent
               /\ person'[p] = [person[p] EXCEPT !.gone = person'[p].gone]
               /\ person[p].gone => person'[p].gone
    <3>1. person[p] \in PersonRow
      BY <2>1 DEF OrgInv, OrgTypes, RowTypes
    <3>2. [person[p] EXCEPT !.gone = TRUE] \in PersonRow
      BY <3>1 DEF PersonRow
    <3> QED
      BY <1>7, <2>1, <3>1, <3>2, OrgAssumption DEF PersonRow
  <2>2. \A p \in People : person[p] = Absent => person'[p] = Absent
    BY <1>7 DEF PeopleOf, Exists
  <2>3. ASSUME NEW d \in Depts
        PROVE  dept'[d].org = dept[d].org /\ (dept'[d].live => dept[d].live)
    <3>1. PICK row \in DeptRow : row = dept[d]
      BY DEF OrgInv, OrgTypes, RowTypes
    <3>2. PICK gone : gone = [row EXCEPT !.live = FALSE]
      OBVIOUS
    <3>3. gone.org = row.org /\ ~gone.live
      BY <3>2 DEF DeptRow
    <3>4. dept'[d] = gone \/ dept'[d] = row
      BY <1>7, <3>1, <3>2
    <3> QED
      BY <3>1, <3>3, <3>4
  <2> QED
    BY <2>1, <2>2, <2>3
<1>12. \A p \in People : /\ Exists(p)' => Exists(p) /\ p \notin PeopleOf(o)
                         /\ person[p] # Absent => /\ person'[p].org = person[p].org
                                                  /\ person'[p].role = person[p].role
                                                  /\ person'[p].active = person[p].active
                                                  /\ person'[p].managed = person[p].managed
                                                  /\ person'[p].grant = person[p].grant
  <2> SUFFICES ASSUME NEW p \in People, person[p] # Absent
               PROVE  /\ Exists(p)' => Exists(p) /\ p \notin PeopleOf(o)
                      /\ person'[p].org = person[p].org /\ person'[p].role = person[p].role
                      /\ person'[p].active = person[p].active
                      /\ person'[p].managed = person[p].managed
                      /\ person'[p].grant = person[p].grant
    BY <1>9 DEF Exists
  <2>1. person[p] \in PersonRow
    BY DEF OrgInv, OrgTypes, RowTypes
  <2>2. Exists(p)' => p \notin PeopleOf(o)
    BY <1>7, <2>1 DEF Exists, PersonRow
  <2> QED
    BY <1>9, <2>1, <2>2 DEF Exists, PersonRow
<1>10. Grows
  BY <1>1, <1>6, <1>7, <1>9, <1>12 DEF Grows, IsSuper, OrgLive
<1>11. OrgTypes' /\ RequestsSound'
  BY <1>2, <1>3, <1>4, <1>6, <1>8, <1>10, RequestsAfter DEF OrgInv, OrgTypes, MemoryTypes
<1>13. PlacesInv'
  <2>1. \A x \in Orgs : /\ PeopleOf(x)' \subseteq PeopleOf(x) /\ AdminsOf(x)' \subseteq AdminsOf(x)
                        /\ DeptsOf(x)' \subseteq DeptsOf(x)
    BY <1>9, <1>12 DEF PeopleOf, AdminsOf, DeptsOf, Exists
  <2>2. PeopleOf(o)' = {} /\ DeptsOf(o)' = {}
    <3>1. PeopleOf(o)' = {}
      BY <2>1, <1>1, <1>12 DEF PeopleOf
    <3>2. ASSUME NEW d \in Depts, dept'[d].org = o
          PROVE  dept'[d].live = FALSE
      <4>1. dept[d] \in DeptRow /\ dept[d].org = o
        BY <1>9, <3>2 DEF OrgInv, OrgTypes, RowTypes
      <4>2. dept'[d] = [dept[d] EXCEPT !.live = FALSE]
        BY <1>7, <4>1
      <4> QED
        BY <4>1, <4>2 DEF DeptRow
    <3>3. DeptsOf(o)' = {}
      BY <3>2 DEF DeptsOf
    <3> QED
      BY <3>1, <3>3
  <2>3. \A h \in OrgRequests : request'[h] # Absent /\ HoldsRow(request'[h]) =>
          /\ request'[h] = request[h] /\ lock'[request[h].org] = lock[request[h].org]
          /\ OrgLive(request[h].org) => org'[request[h].org] = "live"
    BY <1>1, <1>4, <1>5, <1>7, OthersHold DEF OrgInv, OrgLive
  <2>4. \A h \in OrgRequests : request[h] # Absent /\ request[h].kind = "assign" =>
          person'[request[h].person].role = person[request[h].person].role
    <3> SUFFICES ASSUME NEW h \in OrgRequests, request[h] # Absent, request[h].kind = "assign"
                 PROVE  person'[request[h].person].role = person[request[h].person].role
      OBVIOUS
    <3>1. request[h] \in Assigns
      BY AtKind DEF AtStage, OrgInv
    <3>2. person[request[h].person] # Absent
      BY DEF OrgInv, RequestsSound, Sound
    <3> QED
      BY <1>12, <3>1, <3>2 DEF Assigns
  <2> QED
    BY <1>6, <1>7, <2>1, <2>2, <2>3, <2>4, PlacesAfter DEF OrgInv
<1>14. NoticeInv'
  <2>1. ~Announced(o)'
    BY <1>3, <1>4, <1>5 DEF Announced, AtStage, Announcement
  <2>2. \A h \in OrgRequests : AtStage(h, "announce", "announce") => h # r
    BY DEF AtStage, DeleteOrg
  <2> QED
    BY <1>4, <1>5, <1>6, <1>7, <2>1, <2>2, NoticeAfter DEF OrgInv
<1>15. RoomsInv'
  <2>1. PeopleHold'
    <3> SUFFICES ASSUME NEW p \in People \ overwritten, person'[p] # Absent
                 PROVE  /\ person'[p].org \in Orgs => org'[person'[p].org] # "unused"
                        /\ IsSuper(person'[p]) => person'[p].org = Absent
                        /\ \A d \in person'[p].managed :
                              person'[p].org \in Orgs /\ dept'[d].org = person'[p].org
      BY <1>6 DEF PeopleHold
    <3>1. person[p] # Absent /\ person[p] \in PersonRow
      BY <1>9 DEF OrgInv, OrgTypes, RowTypes
    <3>2. /\ person[p].org \in Orgs => org[person[p].org] # "unused"
          /\ IsSuper(person[p]) => person[p].org = Absent
          /\ \A d \in person[p].managed : person[p].org \in Orgs /\ dept[d].org = person[p].org
      BY <3>1 DEF OrgInv, RoomsInv, PeopleHold
    <3> QED
      BY <1>7, <1>9, <1>12, <3>1, <3>2 DEF PersonRow, IsSuper
  <2>2. ASSUME NEW p \in People \ overwritten, NEW n \in Namespaces, NEW room \in Rooms(p, n),
               IsLiveRoom(room)'
        PROVE  room \in Rooms(p, n)'
    <3>1. Exists(p) /\ person[p].active /\ person[p] \in PersonRow
      BY <2>2 DEF Rooms, Exists, OrgInv, OrgTypes, RowTypes
    <3>2. \/ room = person[p].org /\ room \in Orgs
          \/ room \in person[p].managed /\ room \in Depts
          \/ IsSuper(person[p]) /\ room \in Orgs
      BY <2>2, <3>1 DEF Rooms, PersonRow, Roles, IsSuper
    <3>3. /\ \A d \in person[p].managed : person[p].org \in Orgs /\ dept[d].org = person[p].org
          /\ IsSuper(person[p]) => person[p].org = Absent
      BY <3>1 DEF OrgInv, RoomsInv, PeopleHold, Exists
    <3>4. person[p].org # o
      <4>1. CASE room = person[p].org /\ room \in Orgs
        BY <1>7, <2>2, <4>1 DEF IsLiveRoom, OrgLive
      <4>2. CASE room \in person[p].managed /\ room \in Depts
        <5>1. dept'[room].live
          BY <2>2, <4>2, OrgAssumption DEF IsLiveRoom
        <5>2. dept[room].org # o
          BY <1>7, <4>2, <5>1 DEF OrgInv, OrgTypes, RowTypes, DeptRow
        <5> QED
          BY <3>3, <4>2, <5>2
      <4>3. CASE IsSuper(person[p])
        BY <3>3, <4>3, OrgAssumption
      <4> QED
        BY <3>2, <4>1, <4>2, <4>3
    <3>5. person'[p] = person[p]
      BY <1>7, <3>4 DEF PeopleOf
    <3>6. /\ room \in Depts => dept'[room].live
          /\ room \in Orgs => org'[room] = "live"
      BY <2>2, OrgAssumption DEF IsLiveRoom, OrgLive
    <3> QED
      BY <2>2, <3>1, <3>2, <3>5, <3>6, OrgAssumption DEF Rooms, OrgLive, Exists, PersonRow, Roles
  <2> QED
    BY <1>5, <1>6, <1>7, <1>9, <1>10, <2>1, <2>2, RoomsAfter DEF OrgInv
<1> QED
  BY <1>11, <1>13, <1>14, <1>15 DEF OrgInv

-----------------------------------------------------------------------------
(* People are added, placed and deleted *)

(* A request is refused, or changes nothing. *)
LEMMA DropKeepsInv ==
  ASSUME OrgInv, NEW r \in OrgRequests, ~AtStage(r, "announce", "announce"),
         request' = [request EXCEPT ![r] = Absent],
         UNCHANGED <<org, dept, person, lock, cache, generation, socket, overwritten>>
  PROVE  OrgInv'
<1>1. /\ \A h \in OrgRequests : request'[h] = IF h = r THEN Absent ELSE request[h]
      /\ \A p : IsUnannounced(p) => IsUnannounced(p)'
      /\ \A h \in OrgRequests : AtStage(h, "announce", "announce") => request'[h] = request[h]
  BY MovesAlone DEF OrgInv
<1>2. Grows /\ PeopleHold' /\ RowTypes'
  BY SameRows DEF OrgInv, OrgTypes, RoomsInv
<1>3. OrgTypes' /\ RequestsSound'
  BY <1>2, RequestsAfter DEF OrgInv, OrgTypes, MemoryTypes
<1>4. PlacesInv'
  BY <1>1, SameRows, PlacesAfter DEF OrgInv, OrgLive
<1>5. NoticeInv'
  BY <1>1, NoticeAfter DEF OrgInv
<1>6. RoomsInv'
  BY <1>1, <1>2, SameRows, RoomsAfter DEF OrgInv
<1> QED
  BY <1>3, <1>4, <1>5, <1>6 DEF OrgInv

(* One row of a person is written. *)
LEMMA OneRow ==
  ASSUME OrgTypes, NEW p \in People, NEW row \in PersonRow, person' = [person EXCEPT ![p] = row],
         UNCHANGED <<org, dept>>, overwritten \subseteq overwritten', overwritten' \subseteq People,
         person[p] # Absent => (IsSuper(row) <=> IsSuper(person[p]))
  PROVE  /\ Grows /\ person'[p] = row /\ \A x \in People \ {p} : person'[x] = person[x]
         /\ \A o : DeptsOf(o)' = DeptsOf(o)
         /\ \A o, x : x # p => /\ x \in PeopleOf(o)' <=> x \in PeopleOf(o)
                               /\ x \in AdminsOf(o)' <=> x \in AdminsOf(o)
         /\ \A x \in People \ {p}, n \in Namespaces : Rooms(x, n)' = Rooms(x, n)
         /\ lock' \in [Orgs -> OrgRequests \cup {Absent}] => RowTypes'
<1>1. person'[p] = row /\ \A x \in People \ {p} : person'[x] = person[x]
  BY DEF OrgTypes, RowTypes
<1>2. Grows
  BY <1>1, OrgAssumption DEF Grows
<1>3. \A o : DeptsOf(o)' = DeptsOf(o)
  BY DEF DeptsOf
<1>4. \A o, x : x # p => /\ x \in PeopleOf(o)' <=> x \in PeopleOf(o)
                         /\ x \in AdminsOf(o)' <=> x \in AdminsOf(o)
  BY <1>1 DEF PeopleOf, AdminsOf, Exists
<1>5. \A x \in People \ {p}, n \in Namespaces : Rooms(x, n)' = Rooms(x, n)
  BY <1>1 DEF Rooms, Exists, OrgLive
<1>6. lock' \in [Orgs -> OrgRequests \cup {Absent}] => RowTypes'
  BY DEF OrgTypes, RowTypes
<1> QED
  BY <1>1, <1>2, <1>3, <1>4, <1>5, <1>6

LEMMA OneRowRooms ==
  ASSUME OrgInv, NEW p \in People, NEW row \in PersonRow, person' = [person EXCEPT ![p] = row],
         UNCHANGED <<org, dept, socket>>, overwritten \subseteq overwritten',
         overwritten' \subseteq People, \A x : IsUnannounced(x) => IsUnannounced(x)',
         person[p] # Absent => (IsSuper(row) <=> IsSuper(person[p])),
         p \notin overwritten' =>
           /\ row.org \in Orgs => org[row.org] # "unused"
           /\ IsSuper(row) => row.org = Absent
           /\ \A d \in row.managed : row.org \in Orgs /\ dept[d].org = row.org
           /\ Exists(p) => \/ IsUnannounced(p)'
                           \/ \A n \in Namespaces : Rooms(p, n) \subseteq Rooms(p, n)'
  PROVE  RoomsInv'
<1>1. /\ Grows /\ person'[p] = row /\ \A x \in People \ {p} : person'[x] = person[x]
      /\ \A x \in People \ {p}, n \in Namespaces : Rooms(x, n)' = Rooms(x, n)
  BY OneRow DEF OrgInv
<1>2. PeopleHold'
  BY <1>1 DEF OrgInv, RoomsInv, PeopleHold
<1>3. ~Exists(p) => \A n \in Namespaces : Rooms(p, n) = {}
  BY DEF Rooms
<1>4. row # Absent
  BY OrgAssumption
<1>5. \A x \in People : person[x] = Absent => socket[x] = Closed
  BY DEF OrgInv, RoomsInv, SocketsHold
<1> QED
  BY <1>1, <1>2, <1>3, <1>4, <1>5, RoomsAfter DEF OrgInv

(* A request that writes one row keeps who holds what, if the person is in   *)
(* a live organisation, and is no Admin or was one.                          *)
LEMMA OneRowPlaces ==
  ASSUME OrgInv, NEW p \in People, NEW row \in PersonRow, person' = [person EXCEPT ![p] = row],
         UNCHANGED <<org, dept, lock>>, overwritten \subseteq overwritten',
         overwritten' \subseteq People,
         person[p] # Absent => (IsSuper(row) <=> IsSuper(person[p])),
         p \notin overwritten' =>
           /\ \A o \in Orgs : row.org = o /\ ~row.gone => org[o] = "live" \/ p \in PeopleOf(o)
           /\ row.role = "ADMIN" =>
                /\ person[p] # Absent => person[p].role = "ADMIN"
                /\ \A o \in Orgs : row.org = o /\ ~row.gone => p \in AdminsOf(o),
         \A h \in OrgRequests : request'[h] # Absent /\ HoldsRow(request'[h]) =>
           request'[h] = request[h]
  PROVE  PlacesInv'
<1>1. /\ Grows /\ person'[p] = row /\ \A x \in People \ {p} : person'[x] = person[x]
      /\ \A o : DeptsOf(o)' = DeptsOf(o)
      /\ \A o, x : x # p => /\ x \in PeopleOf(o)' <=> x \in PeopleOf(o)
                            /\ x \in AdminsOf(o)' <=> x \in AdminsOf(o)
  BY OneRow DEF OrgInv
<1>2. \A o \in Orgs : /\ p \in PeopleOf(o)' => row.org = o /\ ~row.gone
                      /\ p \in AdminsOf(o)' => row.org = o /\ ~row.gone /\ row.role = "ADMIN"
  BY <1>1 DEF PeopleOf, AdminsOf, Exists
<1>3. \A o \in Orgs : AdminsOf(o)' \ overwritten' \subseteq AdminsOf(o)
  BY <1>1, <1>2
<1>4. \A o \in Orgs : org[o] = "deleted" => PeopleOf(o)' \ overwritten' \subseteq PeopleOf(o)
  BY <1>1, <1>2
<1>5. ASSUME NEW h \in OrgRequests, request[h] # Absent, request[h].kind = "assign",
             request[h].person \notin overwritten', person'[request[h].person].role = "ADMIN"
      PROVE  person[request[h].person].role = "ADMIN"
  <2>1. request[h] \in Assigns
    BY <1>5, AtKind DEF AtStage, OrgInv
  <2>2. person[request[h].person] # Absent
    BY <1>5 DEF OrgInv, RequestsSound, Sound
  <2> QED
    BY <1>1, <1>5, <2>1, <2>2 DEF Assigns
<1> QED
  BY <1>1, <1>3, <1>4, <1>5, PlacesAfter DEF OrgInv, OrgLive

LEMMA CreateUserKeepsInv ==
  ASSUME OrgInv, NEW r \in OrgRequests, CreateUser(r)
  PROVE  OrgInv'
<1>1. request[r] \in CreatesUser /\ request[r] # Absent /\ ~AtStage(r, "announce", "announce")
  BY AtKind DEF CreateUser, OrgInv, AtStage
<1>2. PICK q \in CreatesUser : q = request[r]
  BY <1>1
<1>3. request' = [request EXCEPT ![r] = Absent]
  BY DEF CreateUser, Finish, Continue
<1>4. UNCHANGED <<org, dept, lock, cache, generation, socket, overwritten>>
  BY DEF CreateUser
<1>5. CASE person' = person
  BY <1>1, <1>3, <1>4, <1>5, DropKeepsInv
<1>6. CASE MayAdd(q.org) /\ \E p \in People :
             person[p] = Absent /\ person' = [person EXCEPT ![p] = NewRow(q.org, q.placement)]
  <2>1. PICK p \in People :
          person[p] = Absent /\ person' = [person EXCEPT ![p] = NewRow(q.org, q.placement)]
    BY <1>6
  <2>2. PICK row : row = NewRow(q.org, q.placement)
    OBVIOUS
  <2>3. /\ row \in PersonRow /\ row.org = q.org /\ row.managed = q.placement.managed
        /\ row.role # "ADMIN" /\ ~IsSuper(row) /\ q.org \in Orgs
    BY <2>2 DEF NewRow, CreatesUser, Placement, PersonRow, Roles, IsSuper
  <2>4. org[q.org] = "live" /\ \A d \in q.placement.managed : dept[d].org = q.org
    BY <1>1, <1>2, <1>6 DEF MayAdd, OrgLive, OrgInv, RequestsSound, Sound, CreatesUser
  <2>5. person' = [person EXCEPT ![p] = row]
    BY <2>1, <2>2
  <2>6. Grows /\ RowTypes'
    BY <1>4, <2>1, <2>3, <2>5, OneRow DEF OrgInv, OrgTypes, RowTypes
  <2>7. OrgTypes' /\ RequestsSound'
    BY <1>3, <1>4, <2>6, RequestsAfter DEF OrgInv, OrgTypes, MemoryTypes
  <2>8. /\ \A h \in OrgRequests : request'[h] = IF h = r THEN Absent ELSE request[h]
        /\ \A x : IsUnannounced(x) => IsUnannounced(x)'
        /\ \A h \in OrgRequests : AtStage(h, "announce", "announce") => request'[h] = request[h]
    BY <1>1, <1>3, MovesAlone DEF OrgInv
  <2>a. overwritten \subseteq overwritten' /\ overwritten' \subseteq People
    BY <1>4 DEF OrgInv, OrgTypes, RowTypes
  <2>9. PlacesInv'
    <3>1. \A o \in Orgs : row.org = o /\ ~row.gone => org[o] = "live" \/ p \in PeopleOf(o)
      BY <2>3, <2>4
    <3>2. \A h \in OrgRequests : request'[h] # Absent /\ HoldsRow(request'[h]) =>
            request'[h] = request[h]
      BY <2>8
    <3> QED
      BY <1>4, <2>1, <2>3, <2>5, <2>a, <3>1, <3>2, OneRowPlaces
  <2>10. NoticeInv'
    BY <1>4, <2>8, NoticeAfter DEF OrgInv
  <2>11. RoomsInv'
    <3>1. /\ row.org \in Orgs => org[row.org] # "unused"
          /\ \A d \in row.managed : row.org \in Orgs /\ dept[d].org = row.org
          /\ ~Exists(p) /\ ~IsSuper(row)
      BY <2>1, <2>3, <2>4 DEF Exists
    <3> QED
      BY <1>4, <2>1, <2>3, <2>5, <2>8, <2>a, <3>1, OneRowRooms
  <2> QED
    BY <2>7, <2>9, <2>10, <2>11 DEF OrgInv
<1> QED
  BY <1>2, <1>5, <1>6 DEF CreateUser

LEMMA DeleteUserKeepsInv ==
  ASSUME OrgInv, NEW r \in OrgRequests, DeleteUser(r)
  PROVE  OrgInv'
<1>1. PICK p \in People : /\ Exists(p) /\ person' = [person EXCEPT ![p].gone = TRUE]
                          /\ BeginQuery(r, Announcing(Absent, {p}, FALSE))
  BY DEF DeleteUser
<1>2. PICK q : q = Announcing(Absent, {p}, FALSE)
  OBVIOUS
<1>3. q \in Announcement /\ q \in Queries /\ q.people = {p} /\ ~q.isOrg
  BY <1>2, AnnouncingType DEF Queries, Announcing
<1>4. Sound(q)' /\ ~HoldsRow(q) /\ q.kind # "look" /\ q # Absent
  BY <1>3, OrgAssumption DEF Sound, HoldsRow, Announcement
<1>5. request' = [request EXCEPT ![r] = q] /\ ~AtStage(r, "announce", "announce")
  BY <1>1, <1>2 DEF BeginQuery, DeleteUser, Free, AtStage
<1>6. UNCHANGED <<org, dept, lock, cache, generation, socket, overwritten>>
  BY DEF DeleteUser
<1>7. PICK row : row = [person[p] EXCEPT !.gone = TRUE]
  OBVIOUS
<1>8. /\ person[p] \in PersonRow /\ row \in PersonRow /\ row.org = person[p].org /\ row.gone
      /\ row.role = person[p].role /\ row.managed = person[p].managed
      /\ IsSuper(row) <=> IsSuper(person[p])
  BY <1>1, <1>7 DEF Exists, OrgInv, OrgTypes, RowTypes, PersonRow, IsSuper
<1>9. person' = [person EXCEPT ![p] = row]
  BY <1>1, <1>7 DEF OrgInv, OrgTypes, RowTypes
<1>10. /\ \A h \in OrgRequests : request'[h] = IF h = r THEN q ELSE request[h]
       /\ \A x : IsUnannounced(x) => IsUnannounced(x)'
       /\ \A h \in OrgRequests : AtStage(h, "announce", "announce") => request'[h] = request[h]
  BY <1>5, MovesAlone DEF OrgInv
<1>11. Grows /\ RowTypes'
  BY <1>6, <1>8, <1>9, OneRow DEF OrgInv, OrgTypes, RowTypes
<1>12. OrgTypes' /\ RequestsSound'
  BY <1>3, <1>4, <1>5, <1>6, <1>11, RequestsAfter DEF OrgInv, OrgTypes, MemoryTypes
<1>a. overwritten \subseteq overwritten' /\ overwritten' \subseteq People
  BY <1>6 DEF OrgInv, OrgTypes, RowTypes
<1>13. PlacesInv'
  <2>1. \A h \in OrgRequests : request'[h] # Absent /\ HoldsRow(request'[h]) =>
          request'[h] = request[h]
    BY <1>4, <1>10
  <2> QED
    BY <1>6, <1>8, <1>9, <1>a, <2>1, OneRowPlaces
<1>14. NoticeInv'
  BY <1>4, <1>6, <1>10, NoticeAfter DEF OrgInv
<1>15. RoomsInv'
  <2>1. IsUnannounced(p)'
    BY <1>3, <1>4, <1>10 DEF IsUnannounced, AtStage, Announcement
  <2>2. p \notin overwritten => /\ row.org \in Orgs => org[row.org] # "unused"
                                /\ IsSuper(row) => row.org = Absent
                                /\ \A d \in row.managed : row.org \in Orgs /\ dept[d].org = row.org
    BY <1>1, <1>8 DEF OrgInv, RoomsInv, PeopleHold, Exists
  <2> QED
    BY <1>6, <1>8, <1>9, <1>10, <2>1, <2>2, OneRowRooms DEF OrgInv, OrgTypes, RowTypes
<1> QED
  BY <1>12, <1>13, <1>14, <1>15 DEF OrgInv

LEMMA CreateAdminKeepsInv ==
  ASSUME OrgInv, NEW r \in OrgRequests, CreateAdmin(r)
  PROVE  OrgInv'
<1>1. request[r] \in CreatesAdmin /\ request[r] # Absent /\ ~AtStage(r, "announce", "announce")
  BY AtKind DEF CreateAdmin, OrgInv, AtStage
<1>2. PICK o \in Orgs : o = request[r].org /\ lock[o] = Absent
  BY <1>1 DEF CreatesAdmin, CreateAdmin
<1>3. request' = [request EXCEPT ![r] = Absent]
  BY DEF CreateAdmin, Finish, Continue
<1>4. UNCHANGED <<org, dept, lock, cache, generation, socket, overwritten>>
  BY DEF CreateAdmin
<1>5. CASE person' = person
  BY <1>1, <1>3, <1>4, <1>5, DropKeepsInv
<1>6. CASE /\ OrgLive(o) /\ ~HasAdmin(o, Absent)
           /\ \E p \in People : person[p] = Absent /\ person' = [person EXCEPT ![p] = NewRow(o, AsAdmin)]
  <2>1. PICK p \in People :
          person[p] = Absent /\ person' = [person EXCEPT ![p] = NewRow(o, AsAdmin)]
    BY <1>6
  <2>2. PICK row : row = NewRow(o, AsAdmin)
    OBVIOUS
  <2>3. row \in PersonRow /\ row.org = o /\ row.managed = {} /\ ~IsSuper(row)
    BY <2>2 DEF NewRow, AsAdmin, PersonRow, Roles, IsSuper
  <2>4. org[o] = "live" /\ AdminsOf(o) = {}
    BY <1>6, OrgAssumption DEF OrgLive, HasAdmin, AdminsOf, PeopleOf
  <2>5. person' = [person EXCEPT ![p] = row]
    BY <2>1, <2>2
  <2>6. overwritten \subseteq overwritten' /\ overwritten' \subseteq People
    BY <1>4 DEF OrgInv, OrgTypes, RowTypes
  <2>7. /\ Grows /\ RowTypes' /\ person'[p] = row
        /\ \A x \in People \ {p} : person'[x] = person[x]
        /\ \A x : DeptsOf(x)' = DeptsOf(x)
        /\ \A x, y : y # p => /\ y \in PeopleOf(x)' <=> y \in PeopleOf(x)
                              /\ y \in AdminsOf(x)' <=> y \in AdminsOf(x)
    BY <1>4, <2>1, <2>3, <2>5, <2>6, OneRow DEF OrgInv, OrgTypes, RowTypes
  <2>8. OrgTypes' /\ RequestsSound'
    BY <1>3, <1>4, <2>7, RequestsAfter DEF OrgInv, OrgTypes, MemoryTypes
  <2>9. /\ \A h \in OrgRequests : request'[h] = IF h = r THEN Absent ELSE request[h]
        /\ \A x : IsUnannounced(x) => IsUnannounced(x)'
        /\ \A h \in OrgRequests : AtStage(h, "announce", "announce") => request'[h] = request[h]
    BY <1>1, <1>3, MovesAlone DEF OrgInv
  <2>10. PlacesInv'
    <3>1. \A x \in Orgs : x # o => p \notin PeopleOf(x)' /\ p \notin AdminsOf(x)'
      BY <2>3, <2>7 DEF PeopleOf, AdminsOf
    <3>2. AdminsOf(o)' \subseteq {p}
      BY <2>4, <2>7
    <3>3. \A h \in OrgRequests : request'[h] # Absent /\ HoldsRow(request'[h]) =>
            /\ request'[h] = request[h] /\ request'[h].org # o
            /\ (request[h].kind = "assign" /\ person'[request[h].person].role = "ADMIN")
               => person[request[h].person].role = "ADMIN"
      <4> SUFFICES ASSUME NEW h \in OrgRequests, request'[h] # Absent, HoldsRow(request'[h])
                   PROVE  /\ request'[h] = request[h] /\ request'[h].org # o
                          /\ (request[h].kind = "assign" /\ person'[request[h].person].role = "ADMIN")
                             => person[request[h].person].role = "ADMIN"
        OBVIOUS
      <4>1. h # r /\ request'[h] = request[h]
        BY <2>9
      <4>2. request[h].org # o
        BY <1>2, <4>1, OthersHold DEF OrgInv
      <4>3. request[h].kind = "assign" =>
              request[h].person \in People /\ person[request[h].person] # Absent
        BY <4>1, AtKind DEF AtStage, OrgInv, RequestsSound, Sound, Assigns
      <4> QED
        BY <2>1, <2>7, <4>1, <4>2, <4>3
    <3>4. \A x \in Orgs : org[x] = "deleted" =>
            /\ PeopleOf(x)' \ overwritten' \subseteq PeopleOf(x)
            /\ DeptsOf(x)' \subseteq DeptsOf(x)
      BY <2>4, <2>7, <3>1
    <3>5. \A x \in Orgs : x # o => AdminsOf(x)' \ overwritten' \subseteq AdminsOf(x)
      BY <2>7, <3>1
    <3> QED
      BY <1>4, <2>6, <3>2, <3>3, <3>4, <3>5, PlacesAfter DEF OrgInv, OrgLive
  <2>11. NoticeInv'
    BY <1>4, <2>9, NoticeAfter DEF OrgInv
  <2>12. RoomsInv'
    <3>1. /\ row.org \in Orgs => org[row.org] # "unused"
          /\ \A d \in row.managed : row.org \in Orgs /\ dept[d].org = row.org
          /\ ~Exists(p) /\ ~IsSuper(row)
      BY <2>1, <2>3, <2>4 DEF Exists
    <3> QED
      BY <1>4, <2>1, <2>3, <2>5, <2>6, <2>9, <3>1, OneRowRooms
  <2> QED
    BY <2>8, <2>10, <2>11, <2>12 DEF OrgInv
<1> QED
  BY <1>2, <1>5, <1>6 DEF CreateAdmin

LEMMA ReadAssignKeepsInv ==
  ASSUME OrgInv, NEW r \in OrgRequests, ReadAssign(r)
  PROVE  OrgInv'
<1>1. request[r] \in Assigns /\ request[r] # Absent /\ ~AtStage(r, "announce", "announce")
  BY AtKind DEF ReadAssign, OrgInv, AtStage
<1>2. PICK q \in Assigns : q = request[r] /\ lock[q.org] = Absent
  BY <1>1 DEF ReadAssign
<1>3. UNCHANGED <<org, dept, person, cache, generation, socket, overwritten>>
  BY DEF ReadAssign
<1>4. CASE request' = [request EXCEPT ![r] = Absent] /\ lock' = lock
  BY <1>1, <1>3, <1>4, DropKeepsInv
<1>5. CASE /\ OrgLive(q.org) /\ Exists(q.person)
           /\ person[q.person].role = "ADMIN" => ~HasAdmin(q.org, q.person)
           /\ lock' = [lock EXCEPT ![q.org] = r]
           /\ request' = [request EXCEPT ![r] = [q EXCEPT !.stage = "read"]]
  <2>1. PICK n : n = [q EXCEPT !.stage = "read"]
    OBVIOUS
  <2>2. /\ n \in Assigns /\ n \in Queries /\ n.org = q.org /\ n.person = q.person
        /\ n.kind = "assign" /\ n.stage = "read" /\ q.org \in Orgs /\ q.person \in People
    BY <2>1 DEF Assigns, Queries
  <2>3. request' = [request EXCEPT ![r] = n]
    BY <1>5, <2>1
  <2>4. Sound(n)'
    <3>1. ~IsSuper(person[q.person])
      BY <1>1, <1>2 DEF OrgInv, RequestsSound, Sound, Assigns
    <3> QED
      BY <1>3, <1>5, <2>2, <3>1 DEF Sound, Exists
  <2>5. AssignHolds(n)'
    <3>1. person[q.person].role = "ADMIN" => AdminsOf(q.org) \ {q.person} = {}
      BY <1>5 DEF HasAdmin
    <3>2. AdminsOf(q.org)' = AdminsOf(q.org)
      BY <1>3, <2>2, SameRows DEF OrgInv
    <3> QED
      BY <1>3, <2>2, <3>1, <3>2 DEF AssignHolds
  <2>6. Grows /\ PeopleHold'
    BY <1>3, SameRows DEF OrgInv, RoomsInv
  <2>7. lock' \in [Orgs -> OrgRequests \cup {Absent}]
    BY <1>5 DEF OrgInv, OrgTypes, RowTypes
  <2>8. OrgTypes' /\ RequestsSound'
    BY <1>3, <2>2, <2>3, <2>4, <2>6, <2>7, RequestsAfter DEF OrgInv, OrgTypes, RowTypes, MemoryTypes
  <2>9. /\ \A h \in OrgRequests : request'[h] = IF h = r THEN n ELSE request[h]
        /\ \A x : IsUnannounced(x) => IsUnannounced(x)'
        /\ \A h \in OrgRequests : AtStage(h, "announce", "announce") => request'[h] = request[h]
    BY <1>1, <2>3, MovesAlone DEF OrgInv
  <2>10. PlacesInv'
    <3>1. \A x \in Orgs : /\ PeopleOf(x)' = PeopleOf(x) /\ AdminsOf(x)' = AdminsOf(x)
                          /\ DeptsOf(x)' = DeptsOf(x)
      BY <1>3, SameRows DEF OrgInv
    <3>2. \A h \in OrgRequests \ {r} : request'[h] # Absent /\ HoldsRow(request'[h]) =>
            request'[h] = request[h] /\ lock'[request[h].org] = lock[request[h].org]
      BY <1>2, <1>5, <2>2, <2>9, OthersHold DEF OrgInv, OrgTypes, RowTypes
    <3>3. /\ lock'[request'[r].org] = r /\ org'[request'[r].org] = "live"
          /\ AssignHolds(request[r])'
      BY <1>3, <1>5, <2>2, <2>5, <2>9 DEF OrgInv, OrgTypes, RowTypes, OrgLive
    <3> QED
      BY <1>3, <3>1, <3>2, <3>3, PlacesAfter DEF OrgInv, OrgLive
  <2>11. NoticeInv'
    BY <1>3, <2>2, <2>9, NoticeAfter DEF OrgInv
  <2>12. RoomsInv'
    BY <1>3, <2>6, <2>9, SameRows, RoomsAfter DEF OrgInv
  <2> QED
    BY <2>8, <2>10, <2>11, <2>12 DEF OrgInv
<1> QED
  BY <1>2, <1>4, <1>5 DEF ReadAssign, MayAdd, Continue, Finish

LEMMA AssignKeepsInv ==
  ASSUME OrgInv, NEW r \in OrgRequests, Assign(r)
  PROVE  OrgInv'
<1>1. request[r] \in Assigns /\ request[r] # Absent /\ ~AtStage(r, "announce", "announce")
      /\ HoldsRow(request[r])
  BY AtKind DEF Assign, OrgInv, AtStage, HoldsRow
<1>2. PICK o \in Orgs, p \in People : o = request[r].org /\ p = request[r].person
  BY <1>1 DEF Assigns
<1>3. /\ lock[o] = r /\ org[o] = "live" /\ person[p] # Absent /\ person[p] \in PersonRow
      /\ ~IsSuper(person[p])
  BY <1>1, <1>2
     DEF OrgInv, PlacesInv, LocksHold, OrgLive, RequestsSound, Sound, OrgTypes, RowTypes, Assigns
<1>4. person[p].role = "ADMIN" /\ p \notin overwritten => AdminsOf(o) \ {p} \subseteq overwritten
  <2>1. AssignHolds(request[r])
    BY <1>1 DEF OrgInv, PlacesInv, AssignsHold
  <2> QED
    BY <1>2, <2>1 DEF AssignHolds, Assign, AtStage
<1>5. PICK q : q = Announcing(o, {p}, FALSE)
  OBVIOUS
<1>6. q \in Announcement /\ q \in Queries /\ q.people = {p} /\ ~q.isOrg
  BY <1>5, AnnouncingType DEF Queries, Announcing
<1>7. Sound(q)' /\ ~HoldsRow(q) /\ q.kind # "look" /\ q # Absent
  BY <1>6, OrgAssumption DEF Sound, HoldsRow, Announcement
<1>8. request' = [request EXCEPT ![r] = q]
  BY <1>2, <1>5 DEF Assign, Continue
<1>9. PICK row : row = [person[p] EXCEPT !.org = o, !.dept = Absent, !.managed = {}, !.grant = FALSE]
  OBVIOUS
<1>10. /\ row \in PersonRow /\ row.org = o /\ row.managed = {} /\ row.role = person[p].role
       /\ ~IsSuper(row) /\ (person[p] # Absent => (IsSuper(row) <=> IsSuper(person[p])))
  BY <1>3, <1>9 DEF PersonRow, IsSuper
<1>11. person' = [person EXCEPT ![p] = row]
  BY <1>2, <1>9 DEF Assign
<1>12. UNCHANGED <<org, dept, cache, generation, socket, overwritten>>
  BY DEF Assign
<1>13. lock' = [lock EXCEPT ![o] = Absent]
  BY <1>2 DEF Assign
<1>14. overwritten \subseteq overwritten' /\ overwritten' \subseteq People
       /\ lock' \in [Orgs -> OrgRequests \cup {Absent}]
  BY <1>12, <1>13 DEF OrgInv, OrgTypes, RowTypes
<1>15. /\ Grows /\ RowTypes' /\ person'[p] = row
       /\ \A x \in People \ {p} : person'[x] = person[x]
       /\ \A x : DeptsOf(x)' = DeptsOf(x)
       /\ \A x, y : y # p => /\ y \in PeopleOf(x)' <=> y \in PeopleOf(x)
                             /\ y \in AdminsOf(x)' <=> y \in AdminsOf(x)
  BY <1>10, <1>11, <1>12, <1>14, OneRow DEF OrgInv
<1>16. OrgTypes' /\ RequestsSound'
  BY <1>6, <1>7, <1>8, <1>12, <1>15, RequestsAfter DEF OrgInv, OrgTypes, MemoryTypes
<1>17. /\ \A h \in OrgRequests : request'[h] = IF h = r THEN q ELSE request[h]
       /\ \A x : IsUnannounced(x) => IsUnannounced(x)'
       /\ \A h \in OrgRequests : AtStage(h, "announce", "announce") => request'[h] = request[h]
  BY <1>1, <1>8, MovesAlone DEF OrgInv
<1>18. PlacesInv'
  <2>1. \A x \in Orgs : x # o => p \notin PeopleOf(x)' /\ p \notin AdminsOf(x)'
    BY <1>10, <1>15 DEF PeopleOf, AdminsOf
  <2>2. p \in AdminsOf(o)' => person[p].role = "ADMIN"
    BY <1>10, <1>15 DEF AdminsOf
  <2>3. \/ AdminsOf(o)' \ overwritten' \subseteq AdminsOf(o)
        \/ AdminsOf(o)' \ overwritten' \subseteq {p}
    BY <1>4, <1>12, <1>15, <2>2
  <2>4. \A h \in OrgRequests : request'[h] # Absent /\ HoldsRow(request'[h]) =>
          /\ request'[h] = request[h] /\ request'[h].org # o
          /\ lock'[request[h].org] = lock[request[h].org]
          /\ (request[h].kind = "assign" /\ person'[request[h].person].role = "ADMIN")
             => person[request[h].person].role = "ADMIN"
    <3> SUFFICES ASSUME NEW h \in OrgRequests, request'[h] # Absent, HoldsRow(request'[h])
                 PROVE  /\ request'[h] = request[h] /\ request'[h].org # o
                        /\ lock'[request[h].org] = lock[request[h].org]
                        /\ (request[h].kind = "assign" /\ person'[request[h].person].role = "ADMIN")
                           => person[request[h].person].role = "ADMIN"
      OBVIOUS
    <3>1. h # r /\ request'[h] = request[h]
      BY <1>7, <1>17
    <3>2. request[h].org \in Orgs /\ request[h].org # o
      BY <1>3, <3>1, OthersHold DEF OrgInv
    <3>3. request[h].kind = "assign" => request[h].person \in People
      BY <3>1, AtKind DEF AtStage, OrgInv, Assigns
    <3>4. lock'[request[h].org] = lock[request[h].org]
      BY <1>13, <3>2 DEF OrgInv, OrgTypes, RowTypes
    <3> QED
      BY <1>10, <1>15, <3>1, <3>2, <3>3, <3>4
  <2>5. \A x \in Orgs : org[x] = "deleted" =>
          /\ PeopleOf(x)' \ overwritten' \subseteq PeopleOf(x)
          /\ DeptsOf(x)' \subseteq DeptsOf(x)
    BY <1>3, <1>15, <2>1
  <2>6. \A x \in Orgs : x # o => AdminsOf(x)' \ overwritten' \subseteq AdminsOf(x)
    BY <1>15, <2>1
  <2> QED
    BY <1>12, <1>14, <2>3, <2>4, <2>5, <2>6, PlacesAfter DEF OrgInv, OrgLive
<1>19. NoticeInv'
  <2>1. \A h \in OrgRequests : AtStage(h, "announce", "announce") => h # r
    BY <1>1
  <2> QED
    BY <1>7, <1>12, <1>17, <2>1, NoticeAfter DEF OrgInv
<1>20. RoomsInv'
  <2>1. IsUnannounced(p)'
    BY <1>6, <1>7, <1>17 DEF IsUnannounced, AtStage, Announcement
  <2>2. /\ row.org \in Orgs => org[row.org] # "unused"
        /\ IsSuper(row) => row.org = Absent
        /\ \A d \in row.managed : row.org \in Orgs /\ dept[d].org = row.org
    BY <1>3, <1>10
  <2> QED
    BY <1>10, <1>11, <1>12, <1>14, <1>17, <2>1, <2>2, OneRowRooms
<1> QED
  BY <1>16, <1>18, <1>19, <1>20 DEF OrgInv

(* What a save writes is the row it read, or it shows as overwritten. *)
LEMMA SaveUserKeepsInv ==
  ASSUME OrgInv, NEW r \in OrgRequests, SaveUser(r)
  PROVE  OrgInv'
<1>1. request[r] \in Edits /\ request[r] # Absent /\ ~AtStage(r, "announce", "announce")
  BY AtKind DEF SaveUser, OrgInv, AtStage
<1>2. PICK q \in Edits : q = request[r]
  BY <1>1
<1>3. PICK p \in People : p = q.person
  BY DEF Edits
<1>4. EditHolds(q)
  BY <1>1, <1>2 DEF OrgInv, RequestsSound, Sound, Edits
<1>5. PICK now \in PersonRow : now = person[p]
  BY <1>3, <1>4 DEF EditHolds, OrgInv, OrgTypes, RowTypes
<1>6. PICK row : row = [q.row EXCEPT !.gone = now.gone,
                                     !.managed = IF q.links THEN q.row.managed ELSE now.managed]
  OBVIOUS
<1>7. person' = [person EXCEPT ![p] = row]
  BY <1>2, <1>3, <1>5, <1>6 DEF SaveUser, Edits, PersonRow
<1>8. /\ row \in PersonRow /\ row.org = q.row.org /\ row.role = q.row.role
      /\ row.gone = now.gone /\ row.active = q.row.active /\ row.grant = q.row.grant
      /\ row.managed = IF q.links THEN q.row.managed ELSE now.managed
  BY <1>6 DEF Edits, PersonRow
<1>s. person[p] # Absent => (IsSuper(row) <=> IsSuper(person[p]))
  BY <1>3, <1>4, <1>8 DEF EditHolds, IsSuper
<1>9. UNCHANGED <<org, dept, lock, cache, generation, socket>>
  BY DEF SaveUser
<1>10. /\ overwritten \subseteq overwritten' /\ overwritten' \subseteq People
       /\ p \notin overwritten' => p \notin overwritten /\ [now EXCEPT !.gone = FALSE] = q.read
  BY <1>2, <1>3, <1>5 DEF SaveUser, OrgInv, OrgTypes, RowTypes
<1>11. p \notin overwritten' =>
         /\ now.org = q.read.org /\ now.role = q.read.role /\ now.managed = q.read.managed
         /\ now.active = q.read.active /\ now.grant = q.read.grant
  BY <1>10 DEF PersonRow
<1>12. PICK n : /\ request' = [request EXCEPT ![r] = n]
                /\ IF q.announced THEN n = Announcing(Absent, {p}, FALSE) ELSE n = Absent
  BY <1>2, <1>3 DEF SaveUser, Continue, Finish
<1>13. /\ n \in Queries \cup {Absent} /\ (n # Absent => n \in Announcement)
       /\ q.announced => n \in Announcement /\ n.people = {p}
  <2>1. {p} \in SUBSET People
    OBVIOUS
  <2>2. PICK a : a = Announcing(Absent, {p}, FALSE)
    OBVIOUS
  <2>3. a \in Announcement /\ a.people = {p}
    BY <2>1, <2>2, AnnouncingType DEF Announcing
  <2>4. IF q.announced THEN n = a ELSE n = Absent
    BY <1>12, <2>2
  <2> QED
    BY <2>3, <2>4 DEF Queries
<1>14. n # Absent => Sound(n)' /\ ~HoldsRow(n) /\ n.kind # "look"
  BY <1>13 DEF Sound, HoldsRow, Announcement
<1>15. /\ \A h \in OrgRequests : request'[h] = IF h = r THEN n ELSE request[h]
       /\ \A x : IsUnannounced(x) => IsUnannounced(x)'
       /\ \A h \in OrgRequests : AtStage(h, "announce", "announce") => request'[h] = request[h]
  BY <1>1, <1>12, MovesAlone DEF OrgInv
<1>16. Grows /\ RowTypes' /\ person'[p] = row
  BY <1>7, <1>8, <1>9, <1>10, <1>s, OneRow DEF OrgInv, OrgTypes, RowTypes
<1>17. OrgTypes' /\ RequestsSound'
  BY <1>9, <1>12, <1>13, <1>14, <1>16, RequestsAfter DEF OrgInv, OrgTypes, MemoryTypes
<1>18. PlacesInv'
  <2>1. \A h \in OrgRequests : request'[h] # Absent /\ HoldsRow(request'[h]) =>
          request'[h] = request[h]
    BY <1>14, <1>15
  <2>2. p \notin overwritten' =>
          /\ \A o \in Orgs : row.org = o /\ ~row.gone => p \in PeopleOf(o)
          /\ row.role = "ADMIN" =>
               /\ person[p].role = "ADMIN"
               /\ \A o \in Orgs : row.org = o /\ ~row.gone => p \in AdminsOf(o)
    BY <1>3, <1>4, <1>5, <1>8, <1>11 DEF EditHolds, PeopleOf, AdminsOf, Exists
  <2> QED
    BY <1>7, <1>8, <1>9, <1>10, <1>s, <2>1, <2>2, OneRowPlaces
<1>19. NoticeInv'
  BY <1>9, <1>14, <1>15, NoticeAfter DEF OrgInv
<1>20. RoomsInv'
  <2>1. p \notin overwritten' =>
          /\ now.org \in Orgs => org[now.org] # "unused"
          /\ IsSuper(now) => now.org = Absent
          /\ \A d \in now.managed : now.org \in Orgs /\ dept[d].org = now.org
    BY <1>3, <1>4, <1>5, <1>10 DEF EditHolds, OrgInv, RoomsInv, PeopleHold
  <2>2. p \notin overwritten' =>
          /\ row.org \in Orgs => org[row.org] # "unused"
          /\ IsSuper(row) => row.org = Absent
          /\ \A d \in row.managed : row.org \in Orgs /\ dept[d].org = row.org
    BY <1>3, <1>4, <1>5, <1>8, <1>11, <1>s, <2>1, OrgAssumption DEF EditHolds
  <2>3. q.announced => IsUnannounced(p)'
    BY <1>13, <1>15, OrgAssumption DEF IsUnannounced, AtStage, Announcement
  <2>4. p \notin overwritten' /\ ~q.announced =>
          \A space \in Namespaces : Rooms(p, space) \subseteq Rooms(p, space)'
    <3> SUFFICES ASSUME p \notin overwritten', ~q.announced, NEW space \in Namespaces,
                        NEW room \in Rooms(p, space)
                 PROVE  room \in Rooms(p, space)'
      OBVIOUS
    <3>1. q.row = [q.read EXCEPT !.active = q.row.active] /\ (q.read.active => q.row.active)
      BY <1>4 DEF EditHolds
    <3>2. /\ q.row.role = q.read.role /\ q.row.grant = q.read.grant
          /\ q.row.managed = q.read.managed
      BY <3>1 DEF Edits, PersonRow
    <3>3. /\ row.org = now.org /\ row.role = now.role /\ row.managed = now.managed
          /\ row.grant = now.grant /\ row.gone = now.gone /\ (now.active => row.active)
      BY <1>4, <1>8, <1>11, <3>1, <3>2 DEF EditHolds
    <3>4. org' = org /\ dept' = dept /\ row # Absent /\ now # Absent
      BY <1>8, <1>9, OrgAssumption
    <3>5. /\ person[p] = now /\ person'[p] = row
          /\ Exists(p) /\ now.active /\ Exists(p)'
      BY <1>5, <1>16, <3>3, <3>4 DEF Rooms, Exists
    <3> QED
      BY <3>3, <3>4, <3>5 DEF Rooms, OrgLive
  <2> QED
    BY <1>7, <1>8, <1>9, <1>10, <1>15, <1>s, <2>2, <2>3, <2>4, OneRowRooms
<1> QED
  BY <1>17, <1>18, <1>19, <1>20 DEF OrgInv

-----------------------------------------------------------------------------
(* Departments *)

LEMMA CreateDeptKeepsInv ==
  ASSUME OrgInv, NEW r \in OrgRequests, CreateDept(r)
  PROVE  OrgInv'
<1>1. PICK o \in Orgs, d \in Depts :
        /\ org[o] = "live" /\ dept[d].org = Absent
        /\ dept' = [dept EXCEPT ![d] = [org |-> o, live |-> TRUE]]
  BY DEF CreateDept, MayAdd, OrgLive
<1>2. /\ UNCHANGED <<org, person, overwritten>> /\ lock' = lock /\ cache' = cache
      /\ generation' = generation /\ request' = request /\ socket' = socket
  BY DEF CreateDept
<1>3. \A e \in Depts : dept'[e] = IF e = d THEN [org |-> o, live |-> TRUE] ELSE dept[e]
  BY <1>1 DEF OrgInv, OrgTypes, RowTypes
<1>4. Grows
  BY <1>1, <1>2, <1>3 DEF Grows
<1>5. OrgTypes' /\ RequestsSound'
  <2>1. OrgTypes'
    BY <1>1, <1>2 DEF OrgInv, OrgTypes, RowTypes, MemoryTypes, DeptRow
  <2>2. ASSUME NEW h \in OrgRequests, request[h] # Absent
        PROVE  Sound(request[h])'
    <3>1. PICK n \in Queries : n = request[h]
      BY <2>2 DEF OrgInv, OrgTypes
    <3>2. Sound(n)'
      BY <1>4, <2>2, <3>1, SoundStays DEF OrgInv, RequestsSound
    <3> QED
      BY <1>2, <3>1, <3>2
  <2> QED
    BY <1>2, <2>1, <2>2 DEF RequestsSound
<1>6. PlacesInv'
  <2>1. \A x \in Orgs : PeopleOf(x)' = PeopleOf(x) /\ AdminsOf(x)' = AdminsOf(x)
    BY <1>2 DEF PeopleOf, AdminsOf, Exists
  <2>2. \A x \in Orgs : org[x] = "deleted" => DeptsOf(x)' \subseteq DeptsOf(x)
    BY <1>1, <1>3 DEF DeptsOf
  <2> QED
    BY <1>2, <2>1, <2>2, PlacesAfter DEF OrgInv, OrgLive
<1>7. NoticeInv'
  BY <1>2, NoticeAfter DEF OrgInv
<1>8. RoomsInv'
  <2>1. ASSUME NEW p \in People \ overwritten, person[p] # Absent
        PROVE  /\ person[p].org \in Orgs => org[person[p].org] # "unused"
               /\ IsSuper(person[p]) => person[p].org = Absent
               /\ \A e \in person[p].managed :
                    /\ person[p].org \in Orgs /\ dept[e].org = person[p].org
                    /\ e \in Depts /\ e # d /\ dept'[e] = dept[e]
    <3>1. /\ person[p].org \in Orgs => org[person[p].org] # "unused"
          /\ IsSuper(person[p]) => person[p].org = Absent
          /\ \A e \in person[p].managed : person[p].org \in Orgs /\ dept[e].org = person[p].org
      BY <2>1 DEF OrgInv, RoomsInv, PeopleHold
    <3>2. person[p].managed \subseteq Depts
      BY <2>1 DEF OrgInv, OrgTypes, RowTypes, PersonRow
    <3> QED
      BY <1>1, <1>3, <3>1, <3>2, OrgAssumption
  <2>2. PeopleHold'
    BY <1>2, <2>1 DEF PeopleHold
  <2>3. ASSUME NEW p \in People \ overwritten, NEW n \in Namespaces, NEW room \in Rooms(p, n)
        PROVE  room \in Rooms(p, n)'
    <3>1. person[p] # Absent
      BY <2>3 DEF Rooms, Exists
    <3> QED
      BY <1>2, <2>1, <2>3, <3>1 DEF Rooms, Exists, OrgLive
  <2>4. \A p : IsUnannounced(p) => IsUnannounced(p)'
    BY <1>2 DEF IsUnannounced, AtStage
  <2> QED
    BY <1>1, <1>2, <1>3, <1>4, <2>2, <2>3, <2>4, RoomsAfter DEF OrgInv
<1> QED
  BY <1>5, <1>6, <1>7, <1>8 DEF OrgInv

LEMMA RemoveDeptKeepsInv ==
  ASSUME OrgInv, NEW r \in OrgRequests, RemoveDept(r)
  PROVE  OrgInv'
<1>1. request[r] \in RemovesDept /\ request[r] # Absent /\ ~AtStage(r, "announce", "announce")
  BY AtKind DEF RemoveDept, OrgInv, AtStage
<1>2. PICK o \in Orgs, d \in Depts : o = request[r].org /\ d = request[r].dept
  BY <1>1 DEF RemovesDept
<1>3. PICK managers \in SUBSET People :
        managers = {p \in People : person[p] # Absent /\ d \in person[p].managed}
  OBVIOUS
<1>4. PICK q : q = Announcing(o, managers, FALSE)
  OBVIOUS
<1>5. q \in Announcement /\ q \in Queries /\ q.people = managers
  BY <1>4, AnnouncingType DEF Queries, Announcing
<1>6. Sound(q)' /\ ~HoldsRow(q) /\ q.kind # "look" /\ q # Absent
  BY <1>5, OrgAssumption DEF Sound, HoldsRow, Announcement
<1>7. request' = [request EXCEPT ![r] = q]
  BY <1>2, <1>3, <1>4 DEF RemoveDept, Continue
<1>8. UNCHANGED <<org, lock, cache, generation, socket, overwritten>>
  BY DEF RemoveDept
<1>9. /\ person' = [p \in People |->
             IF person[p] = Absent THEN Absent
             ELSE [person[p] EXCEPT !.managed = @ \ {d}, !.dept = IF @ = d THEN Absent ELSE @]]
      /\ dept' = [dept EXCEPT ![d].live = FALSE]
  BY <1>2 DEF RemoveDept
<1>10. \A p \in People : person[p] # Absent =>
         /\ person'[p] \in PersonRow /\ person'[p] # Absent
         /\ person'[p].org = person[p].org /\ person'[p].role = person[p].role
         /\ person'[p].active = person[p].active /\ person'[p].gone = person[p].gone
         /\ person'[p].grant = person[p].grant /\ person'[p].managed = person[p].managed \ {d}
  <2> SUFFICES ASSUME NEW p \in People, person[p] # Absent
               PROVE  /\ person'[p] \in PersonRow /\ person'[p] # Absent
                      /\ person'[p].org = person[p].org /\ person'[p].role = person[p].role
                      /\ person'[p].active = person[p].active /\ person'[p].gone = person[p].gone
                      /\ person'[p].grant = person[p].grant
                      /\ person'[p].managed = person[p].managed \ {d}
    OBVIOUS
  <2>1. PICK row \in PersonRow : row = person[p]
    BY DEF OrgInv, OrgTypes, RowTypes
  <2>2. person'[p] = [row EXCEPT !.managed = @ \ {d}, !.dept = IF @ = d THEN Absent ELSE @]
    BY <1>9, <2>1
  <2>3. person'[p] \in PersonRow
    BY <2>2 DEF PersonRow
  <2> QED
    BY <2>1, <2>2, <2>3, OrgAssumption DEF PersonRow
<1>11. \A p \in People : person[p] = Absent => person'[p] = Absent
  BY <1>9
<1>12. /\ dept' \in [Depts -> DeptRow]
       /\ \A e \in Depts : /\ dept'[e].org = dept[e].org /\ (dept'[e].live => dept[e].live)
                           /\ e # d => dept'[e] = dept[e]
  BY <1>9 DEF OrgInv, OrgTypes, RowTypes, DeptRow
<1>13. RowTypes'
  BY <1>8, <1>9, <1>10, <1>11, <1>12 DEF OrgInv, OrgTypes, RowTypes
<1>14. Grows
  BY <1>8, <1>10, <1>12 DEF Grows, IsSuper
<1>15. /\ \A h \in OrgRequests : request'[h] = IF h = r THEN q ELSE request[h]
       /\ \A x : IsUnannounced(x) => IsUnannounced(x)'
       /\ \A h \in OrgRequests : AtStage(h, "announce", "announce") => request'[h] = request[h]
  BY <1>1, <1>7, MovesAlone DEF OrgInv
<1>16. OrgTypes' /\ RequestsSound'
  BY <1>5, <1>6, <1>7, <1>8, <1>13, <1>14, RequestsAfter DEF OrgInv, OrgTypes, MemoryTypes
<1>17. PlacesInv'
  <2>1. \A x \in Orgs : /\ PeopleOf(x)' = PeopleOf(x) /\ AdminsOf(x)' = AdminsOf(x)
                        /\ DeptsOf(x)' \subseteq DeptsOf(x)
    BY <1>10, <1>11, <1>12 DEF PeopleOf, AdminsOf, DeptsOf, Exists
  <2>2. \A h \in OrgRequests : request'[h] # Absent /\ HoldsRow(request'[h]) =>
          request'[h] = request[h]
    BY <1>6, <1>15
  <2>3. \A h \in OrgRequests : request[h] # Absent /\ request[h].kind = "assign" =>
          person'[request[h].person].role = person[request[h].person].role
    <3> SUFFICES ASSUME NEW h \in OrgRequests, request[h] # Absent, request[h].kind = "assign"
                 PROVE  person'[request[h].person].role = person[request[h].person].role
      OBVIOUS
    <3>1. request[h] \in Assigns
      BY AtKind DEF AtStage, OrgInv
    <3>2. person[request[h].person] # Absent
      BY DEF OrgInv, RequestsSound, Sound
    <3> QED
      BY <1>10, <3>1, <3>2 DEF Assigns
  <2> QED
    BY <1>8, <2>1, <2>2, <2>3, PlacesAfter DEF OrgInv, OrgLive
<1>18. NoticeInv'
  BY <1>6, <1>8, <1>15, NoticeAfter DEF OrgInv
<1>19. RoomsInv'
  <2>1. PeopleHold'
    BY <1>8, <1>10, <1>11, <1>12
       DEF OrgInv, RoomsInv, PeopleHold, OrgTypes, RowTypes, PersonRow, IsSuper
  <2>2. ASSUME NEW p \in People \ overwritten, NEW n \in Namespaces, NEW room \in Rooms(p, n),
               ~IsUnannounced(p)'
        PROVE  room \in Rooms(p, n)'
    <3>1. person[p] # Absent /\ person[p] \in PersonRow /\ Exists(p)
      BY <2>2 DEF Rooms, Exists, OrgInv, OrgTypes, RowTypes
    <3>2. d \notin person[p].managed
      <4>1. p \notin managers
        BY <1>5, <1>6, <1>15, <2>2 DEF IsUnannounced, AtStage, Announcement
      <4> QED
        BY <1>3, <3>1, <4>1
    <3>3. person'[p].managed = person[p].managed /\ person[p].managed \subseteq Depts
      <4>1. person'[p].managed = person[p].managed \ {d}
        BY <1>10, <3>1
      <4>2. person[p].managed \subseteq Depts
        BY <3>1 DEF PersonRow
      <4> QED
        BY <3>2, <4>1, <4>2
    <3>4. \A e \in person[p].managed : dept'[e] = dept[e]
      BY <1>12, <3>2, <3>3
    <3> QED
      BY <1>8, <1>10, <2>2, <3>1, <3>3, <3>4 DEF Rooms, Exists, OrgLive
  <2> QED
    BY <1>8, <1>10, <1>11, <1>12, <1>14, <1>15, <2>1, <2>2, RoomsAfter DEF OrgInv
<1> QED
  BY <1>16, <1>17, <1>18, <1>19 DEF OrgInv

-----------------------------------------------------------------------------
(* The invariant holds, and with it the properties *)

LEMMA InitKeepsInv ==
  ASSUME OrgInit
  PROVE  OrgInv
<1>1. OrgTypes
  BY DatabaseAssumption
     DEF OrgInit, OrgTypes, RowTypes, MemoryTypes, Closed, Socket, Namespaces
<1>2. \A p \in People : person[p] # Absent => person[p] \in PersonRow
  BY <1>1 DEF OrgTypes, RowTypes
<1>3. \A r \in OrgRequests : request[r] = Absent
  BY DEF OrgInit
<1>4. RequestsSound /\ LocksHold /\ AssignsHold /\ LooksHold
  BY <1>3 DEF RequestsSound, LocksHold, AssignsHold, LooksHold, AtStage
<1>5. OneAdminEach
  BY DatabaseAssumption DEF OrgInit, OneAdminEach, AdminsOf, PeopleOf, Exists
<1>6. NobodyLeftBehind
  BY DatabaseAssumption DEF OrgInit, NobodyLeftBehind, PeopleOf, DeptsOf, Exists
<1>7. DeletionIsNoticed
  BY OrgAssumption DEF OrgInit, DeletionIsNoticed
<1>8. PeopleHold
  BY DatabaseAssumption DEF OrgInit, PeopleHold, IsSuper
<1>9. SocketsHold /\ RoomsKnown /\ RoomsHold
  BY DEF OrgInit, SocketsHold, RoomsKnown, RoomsHold, Closed
<1> QED
  BY <1>1, <1>4, <1>5, <1>6, <1>7, <1>8, <1>9 DEF OrgInv, PlacesInv, NoticeInv, RoomsInv

LEMMA StandingKeepsInv ==
  ASSUME OrgInv, UNCHANGED orgVars
  PROVE  OrgInv'
<1>1. /\ UNCHANGED <<org, dept, person, overwritten>> /\ lock' = lock /\ cache' = cache
      /\ generation' = generation /\ request' = request /\ socket' = socket
  BY DEF orgVars
<1>2. Grows /\ RowTypes' /\ PeopleHold'
  BY <1>1, SameRows DEF OrgInv, OrgTypes, RoomsInv
<1>3. OrgTypes'
  BY <1>1, <1>2 DEF OrgInv, OrgTypes, MemoryTypes
<1>4. RequestsSound'
  <2> SUFFICES ASSUME NEW h \in OrgRequests, request[h] # Absent
               PROVE  Sound(request[h])'
    BY <1>1 DEF RequestsSound
  <2>1. PICK n \in Queries : n = request[h]
    BY DEF OrgInv, OrgTypes
  <2>2. Sound(n)'
    BY <1>2, <2>1, SoundStays DEF OrgInv, RequestsSound
  <2> QED
    BY <1>1, <2>1, <2>2
<1>5. PlacesInv'
  BY <1>1, SameRows, PlacesAfter DEF OrgInv, OrgLive
<1>6. NoticeInv'
  BY <1>1, NoticeAfter DEF OrgInv
<1>7. RoomsInv'
  <2>1. \A p : IsUnannounced(p) => IsUnannounced(p)'
    BY <1>1 DEF IsUnannounced, AtStage
  <2> QED
    BY <1>1, <1>2, <2>1, SameRows, RoomsAfter DEF OrgInv
<1> QED
  BY <1>3, <1>4, <1>5, <1>6, <1>7 DEF OrgInv

LEMMA OrganisationStep ==
  ASSUME OrgInv, [OrgNext]_orgVars
  PROVE  OrgInv'
<1>1. ASSUME NEW r \in OrgRequests, Handle(r)
      PROVE  OrgInv'
  BY <1>1, AnnounceKeepsInv, CreateOrgKeepsInv, AskingKeepsInv, CountDeleteOrgKeepsInv,
     DeleteOrgKeepsInv, CreateAdminKeepsInv, ChoosingKeepsInv, ReadAssignKeepsInv,
     AssignKeepsInv, CreateDeptKeepsInv, RemoveDeptKeepsInv, CreateUserKeepsInv,
     EditingKeepsInv, SaveUserKeepsInv, DeleteUserKeepsInv, KeepOrgKeepsInv
     DEF Handle
<1> QED
  BY <1>1, ForgetOrgKeepsInv, SocketKeepsInv, StandingKeepsInv DEF OrgNext

(* Whatever the requests and the sockets interleave, OrgInv holds. *)
THEOREM OrganisationInvariant == OrgSpec => []OrgInv
<1>1. OrgInit => OrgInv
  BY InitKeepsInv
<1>2. OrgInv /\ [OrgNext]_orgVars => OrgInv'
  BY OrganisationStep
<1> QED
  BY <1>1, <1>2, PTL DEF OrgSpec

(* Creating and assigning Admins, adding people and deleting the organisation *)
(* (prisma-organisation.store.ts, org-lock.ts) leave one Admin at most in     *)
(* each organisation, and in a deleted one nobody and no department, apart    *)
(* from who a whole-row save (prisma-user.repository.ts) wrote back.          *)
THEOREM PlacesAreKept == OrgSpec => []PlacesHold
<1>1. OrgInv => PlacesHold
  <2> SUFFICES ASSUME OrgInv, NEW o \in Orgs
               PROVE  Cardinality(AdminsOf(o) \ overwritten) <= 1
    BY DEF PlacesHold, OneAdmin, OrgInv, PlacesInv
  <2>1. CASE AdminsOf(o) \ overwritten = {}
    BY <2>1, FS_EmptySet
  <2>2. CASE AdminsOf(o) \ overwritten # {}
    <3>1. PICK p : AdminsOf(o) \ overwritten = {p}
      BY <2>2 DEF OrgInv, PlacesInv, OneAdminEach
    <3>2. Cardinality({p}) = 1
      BY FS_Singleton
    <3> QED
      BY <3>1, <3>2
  <2> QED
    BY <2>1, <2>2
<1> QED
  BY <1>1, OrganisationInvariant, PTL

(* Once the deletion of an organisation was announced, no read of it for the  *)
(* X-Org-Id check that began before is kept as "exists": every announcement   *)
(* moves the generation (prisma-auth-user-reader.ts orgExists).               *)
THEOREM DeletionStaysNoticed == OrgSpec => []DeletionIsNoticed
<1>1. OrgInv => DeletionIsNoticed
  BY DEF OrgInv, NoticeInv
<1> QED
  BY <1>1, OrganisationInvariant, PTL

(* An open socket hears only live rooms its account may see, once the last    *)
(* change of the account's access is announced (socket-access.service.ts):    *)
(* the socket joins the account's room before it reads the team's.            *)
THEOREM SocketsFollowAccess == OrgSpec => []LiveRoomsFollowAccess
<1>1. OrgInv => LiveRoomsFollowAccess
  BY DEF OrgInv, RoomsInv, RoomsHold, LiveRoomsFollowAccess
<1> QED
  BY <1>1, OrganisationInvariant, PTL
=============================================================================
