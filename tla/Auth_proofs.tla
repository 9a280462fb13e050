------------------------------ MODULE Auth_proofs ------------------------------
(***************************************************************************)
(* Proofs about Auth for any users, passkeys and requests side by side:    *)
(* what a challenge may do it does once, passkeys and sessions belong to   *)
(* who proved them, and, as long as a user sends one delete at a time,     *)
(* nobody is left without a passkey.                                       *)
(***************************************************************************)
EXTENDS Auth, FiniteSetTheorems, TLAPS

-----------------------------------------------------------------------------
(* Types, and the accounts that requests, passkeys and sessions name.      *)

Accounts == {u \in Users : UserExists(u)}

ChallengeRows == [state : {"unused", "live", "gone"}, email : Emails \cup {NULL},
                  user : Users \cup {NULL}]

\* What a request has read by the statement it runs next; users are the
\* accounts there are.
ReqTyped(r, users) ==
  /\ r \in ReqRecords
  /\ r.pc = "idle" <=> r.op = "none"
  /\ r.op \in {"begin_add", "add", "update", "delete"} => r.user \in users
  /\ r.pc = "update" => r.email \in Emails /\ r.op = "update"
  /\ r.pc \in {"verify", "issue"} => r.c \in Challenges
  /\ r.pc \in {"pop", "verify"} => r.op \in {"register", "login", "add"}
  /\ r.pc = "issue" => /\ r.op \in {"register", "login"}
                       /\ r.user \in users /\ r.passkey \in Passkeys
  /\ r.pc \in {"count", "delete"} => r.op = "delete"
  /\ r.pc = "delete" => r.passkey \in Passkeys

Types ==
  /\ TypeOK
  /\ \A s \in Slots : ReqTyped(req[s], Accounts)
  /\ \A p \in Passkeys : owner[p] # NULL => owner[p] \in Accounts
  /\ \A t \in Tokens : session[t] # NULL => session[t] \in Accounts
  /\ \A x \in log : x.user \in Accounts

\* The request of slot s goes on as r, or is answered: r is then IdleReq.
Moves(s, r) == req' = [req EXCEPT ![s] = r] /\ ReqTyped(r, Accounts')

LEMMA IdleReqTyped == ASSUME NEW users PROVE ReqTyped(IdleReq, users)
  BY DEF IdleReq, ReqRecords, ReqTyped

\* A request that goes on, beside others that wait.
LEMMA ReqMoves ==
  ASSUME Types, NEW s \in Slots, NEW r, Moves(s, r), Accounts \subseteq Accounts'
  PROVE  /\ req' \in [Slots -> ReqRecords]
         /\ \A z \in Slots : ReqTyped(req'[z], Accounts')
<1>1. r \in ReqRecords
  BY DEF Moves, ReqTyped
<1>2. /\ req' \in [Slots -> ReqRecords] /\ req'[s] = r
      /\ \A z \in Slots : z # s => req'[z] = req[z]
  BY <1>1 DEF Types, TypeOK, Moves
<1>3. ASSUME NEW z \in Slots, z # s
      PROVE  ReqTyped(req'[z], Accounts')
  <2>1. ReqTyped(req[z], Accounts)
    BY DEF Types
  <2>2. ReqTyped(req[z], Accounts')
    BY <2>1 DEF ReqTyped
  <2> QED
    BY <1>2, <1>3, <2>2
<1> QED
  BY <1>2, <1>3 DEF Moves

\* A statement that leaves the accounts, passkeys and sessions alone.
LEMMA GoesOn ==
  ASSUME Types, NEW s \in Slots, NEW r, Moves(s, r),
         UNCHANGED <<email, owner, session, issued, log>>,
         challenge' \in [Challenges -> ChallengeRows]
  PROVE  Types'
<1>1. Accounts' = Accounts
  BY DEF Accounts, UserExists
<1>2. /\ req' \in [Slots -> ReqRecords]
      /\ \A z \in Slots : ReqTyped(req'[z], Accounts')
  BY <1>1, ReqMoves
<1> QED
  BY <1>1, <1>2 DEF Types, TypeOK, ChallengeRows

-----------------------------------------------------------------------------
(* Where a request goes on from each statement that only reads or stores.  *)

LEMMA BeginMoves ==
  ASSUME Types, NEW s \in Slots, Accounts' = Accounts,
         \/ BeginRegistration(s) \/ BeginLogin(s) \/ FinishWithoutSession(s)
  PROVE  \E r : Moves(s, r) /\ r.pc \in {"store", "pop"} /\ r.op # "delete"
<1>1. CASE BeginRegistration(s)
  <2> DEFINE r(m) == [IdleReq EXCEPT !.pc = "store", !.op = "register", !.email = m]
  <2>1. PICK m \in Emails : req' = [req EXCEPT ![s] = r(m)]
    BY <1>1 DEF BeginRegistration, Continue
  <2>2. ReqTyped(r(m), Accounts') /\ r(m).pc = "store" /\ r(m).op = "register"
    BY DEF IdleReq, ReqRecords, ReqTyped
  <2> HIDE DEF r
  <2> QED
    BY <2>1, <2>2 DEF Moves
<1>2. CASE BeginLogin(s)
  <2> DEFINE r == [IdleReq EXCEPT !.pc = "store", !.op = "login"]
  <2>1. req' = [req EXCEPT ![s] = r]
    BY <1>2 DEF BeginLogin, Continue
  <2>2. ReqTyped(r, Accounts') /\ r.pc = "store" /\ r.op = "login"
    BY DEF IdleReq, ReqRecords, ReqTyped
  <2> HIDE DEF r
  <2> QED
    BY <2>1, <2>2 DEF Moves
<1>3. CASE FinishWithoutSession(s)
  <2> DEFINE r(op) == [IdleReq EXCEPT !.pc = "pop", !.op = op]
  <2>1. PICK op \in {"register", "login"} : req' = [req EXCEPT ![s] = r(op)]
    BY <1>3 DEF FinishWithoutSession, Continue
  <2>2. ReqTyped(r(op), Accounts') /\ r(op).pc = "pop" /\ r(op).op = op
    BY DEF IdleReq, ReqRecords, ReqTyped
  <2> HIDE DEF r
  <2> QED
    BY <2>1, <2>2 DEF Moves
<1> QED
  BY <1>1, <1>2, <1>3

LEMMA SignedInMoves ==
  ASSUME Types, NEW s \in Slots, Accounts' = Accounts,
         ResolveSession(s) \/ ResolveForUpdate(s)
  PROVE  \E r : /\ Moves(s, r) /\ r.pc \in {"store", "pop", "count", "update"}
                /\ r.op = "delete" /\ SerialDeletes =>
                     \A z \in Slots : req[z].op = "delete" => req[z].user # r.user
<1>1. CASE ResolveSession(s)
  <2> DEFINE r(t, op) == [IdleReq EXCEPT !.pc = First[op], !.op = op,
                                         !.user = session[t]]
  <2>1. PICK t \in Tokens, op \in DOMAIN First :
          /\ session[t] # NULL
          /\ op = "delete" /\ SerialDeletes =>
               \A z \in Slots : req[z].op = "delete" => req[z].user # session[t]
          /\ req' = [req EXCEPT ![s] = r(t, op)]
    BY <1>1 DEF ResolveSession, Continue
  <2>2. /\ op \in {"begin_add", "add", "delete"}
        /\ First[op] \in {"store", "pop", "count"}
        /\ First[op] = "count" => op = "delete"
        /\ First[op] = "pop" => op = "add"
    BY DEF First
  <2>3. session[t] \in Accounts' /\ session[t] \in Users
    BY <2>1 DEF Types, Accounts
  <2>4. /\ r(t, op) \in ReqRecords /\ r(t, op).pc = First[op]
        /\ r(t, op).op = op /\ r(t, op).user = session[t]
    BY <2>2, <2>3 DEF IdleReq, ReqRecords
  <2> HIDE DEF r
  <2>5. ReqTyped(r(t, op), Accounts')
    BY <2>2, <2>3, <2>4 DEF ReqTyped
  <2> QED
    BY <2>1, <2>2, <2>4, <2>5 DEF Moves
<1>2. CASE ResolveForUpdate(s)
  <2> DEFINE r(t, m) == [IdleReq EXCEPT !.pc = "update", !.op = "update",
                                        !.user = session[t], !.email = m]
  <2>1. PICK t \in Tokens, m \in Emails :
          session[t] # NULL /\ req' = [req EXCEPT ![s] = r(t, m)]
    BY <1>2 DEF ResolveForUpdate, Continue
  <2>2. session[t] \in Accounts' /\ session[t] \in Users
    BY <2>1 DEF Types, Accounts
  <2>3. /\ r(t, m) \in ReqRecords /\ r(t, m).pc = "update" /\ r(t, m).email = m
        /\ r(t, m).op = "update" /\ r(t, m).user = session[t]
    BY <2>2 DEF IdleReq, ReqRecords
  <2> HIDE DEF r
  <2>4. ReqTyped(r(t, m), Accounts')
    BY <2>2, <2>3 DEF ReqTyped
  <2> QED
    BY <2>1, <2>3, <2>4 DEF Moves
<1> QED
  BY <1>1, <1>2

LEMMA PopMoves ==
  ASSUME Types, NEW s \in Slots, Accounts' = Accounts, PopChallenge(s)
  PROVE  \E r : \E c \in Challenges :
           /\ Moves(s, r) /\ r.pc = "verify" /\ r.c = c
           /\ r.op = req[s].op /\ r.op # "delete"
           /\ challenge[c].state = "live"
           /\ challenge' = [challenge EXCEPT ![c].state = "gone"]
<1> DEFINE r(c) == [req[s] EXCEPT !.pc = "verify", !.c = c]
<1>1. PICK c \in Challenges :
        /\ challenge[c].state = "live"
        /\ challenge' = [challenge EXCEPT ![c].state = "gone"]
        /\ req' = [req EXCEPT ![s] = r(c)]
  BY DEF PopChallenge, Continue
<1>2. req[s] \in ReqRecords /\ ReqTyped(req[s], Accounts) /\ req[s].pc = "pop"
  BY DEF Types, TypeOK, PopChallenge
<1>3. /\ r(c) \in ReqRecords /\ r(c).pc = "verify" /\ r(c).c = c
      /\ r(c).op = req[s].op /\ r(c).user = req[s].user
  BY <1>2 DEF ReqRecords
<1>4. req[s].op \in {"register", "login", "add"}
  BY <1>2 DEF ReqTyped
<1> HIDE DEF r
<1>5. ReqTyped(r(c), Accounts')
  BY <1>2, <1>3, <1>4 DEF ReqTyped
<1> QED
  BY <1>1, <1>3, <1>4, <1>5 DEF Moves

LEMMA LookUpMoves ==
  ASSUME Types, NEW s \in Slots, Accounts' = Accounts, LookUpPasskey(s)
  PROVE  \E r : \E p \in Passkeys :
           /\ Moves(s, r) /\ owner[p] # NULL
           /\ r.pc = "issue" /\ r.c = req[s].c /\ r.op = "login"
           /\ r.user = owner[p] /\ r.passkey = p
<1> DEFINE r(p) == [req[s] EXCEPT !.pc = "issue", !.user = owner[p], !.passkey = p]
<1>1. PICK p \in Passkeys : owner[p] # NULL /\ req' = [req EXCEPT ![s] = r(p)]
  BY DEF LookUpPasskey, Continue
<1>2. /\ req[s] \in ReqRecords /\ ReqTyped(req[s], Accounts)
      /\ req[s].pc = "verify" /\ req[s].op = "login"
  BY DEF Types, TypeOK, LookUpPasskey
<1>3. owner[p] \in Accounts' /\ owner[p] \in Users
  BY <1>1 DEF Types, Accounts
<1>4. /\ r(p) \in ReqRecords /\ r(p).pc = "issue" /\ r(p).c = req[s].c
      /\ r(p).op = "login" /\ r(p).user = owner[p] /\ r(p).passkey = p
  BY <1>2, <1>3 DEF ReqRecords
<1> HIDE DEF r
<1>5. ReqTyped(r(p), Accounts')
  BY <1>2, <1>3, <1>4 DEF ReqTyped
<1> QED
  BY <1>1, <1>4, <1>5 DEF Moves

LEMMA CountMoves ==
  ASSUME Types, NEW s \in Slots, Accounts' = Accounts, CountPasskeys(s)
  PROVE  \E r : \E p \in PasskeysOf(req[s].user) :
           /\ Moves(s, r)
           /\ r.pc = "delete" /\ r.op = "delete" /\ req[s].op = "delete"
           /\ r.user = req[s].user /\ r.passkey = p
           /\ r.count = Cardinality(PasskeysOf(req[s].user))
<1> DEFINE n == Cardinality(PasskeysOf(req[s].user))
           r(p) == [req[s] EXCEPT !.pc = "delete", !.passkey = p, !.count = n]
<1>1. PICK p \in PasskeysOf(req[s].user) : req' = [req EXCEPT ![s] = r(p)]
  BY DEF CountPasskeys, Continue
<1>2. req[s] \in ReqRecords /\ ReqTyped(req[s], Accounts) /\ req[s].pc = "count"
  BY DEF Types, TypeOK, CountPasskeys
<1>3. n \in Nat /\ p \in Passkeys
  BY PasskeysAssumption, FS_Subset, FS_CardinalityType DEF PasskeysOf
<1> HIDE DEF n
<1>4. /\ r(p) \in ReqRecords /\ r(p).pc = "delete" /\ r(p).op = req[s].op
      /\ r(p).user = req[s].user /\ r(p).passkey = p /\ r(p).count = n
  BY <1>2, <1>3 DEF ReqRecords
<1>5. req[s].op = "delete"
  BY <1>2 DEF ReqTyped
<1> HIDE DEF r
<1>6. ReqTyped(r(p), Accounts')
  BY <1>2, <1>3, <1>4, <1>5 DEF ReqTyped
<1> QED
  BY <1>1, <1>4, <1>5, <1>6 DEF Moves, n

LEMMA AnswerMoves ==
  ASSUME Types, NEW s \in Slots, Answer(s)
  PROVE  Moves(s, IdleReq) /\ IdleReq.pc = "idle" /\ IdleReq.op = "none"
  BY IdleReqTyped DEF Answer, Moves, IdleReq

-----------------------------------------------------------------------------
(* Every step keeps the types.                                             *)

\* The steps of a request that only move it on, or store or pop a challenge.
Reads(s) ==
  \/ BeginRegistration(s) \/ BeginLogin(s) \/ ResolveSession(s)
  \/ ResolveForUpdate(s) \/ StoreChallenge(s) \/ FinishWithoutSession(s)
  \/ PopChallenge(s) \/ LookUpPasskey(s) \/ CountPasskeys(s)
  \/ RequestFails(s)

LEMMA ReadsFrame ==
  ASSUME Types, NEW s \in Slots, Reads(s)
  PROVE  /\ UNCHANGED <<email, owner, session, issued, log>>
         /\ Accounts' = Accounts
         /\ challenge' \in [Challenges -> ChallengeRows]
<1>1. UNCHANGED <<email, owner, session, issued, log>>
  BY DEF Reads, BeginRegistration, BeginLogin, ResolveSession, ResolveForUpdate,
         StoreChallenge, FinishWithoutSession, PopChallenge, LookUpPasskey,
         CountPasskeys, RequestFails
<1>2. challenge \in [Challenges -> ChallengeRows]
  BY DEF Types, TypeOK, ChallengeRows
<1>3. CASE StoreChallenge(s)
  <2>1. req[s].email \in Emails \cup {NULL} /\ req[s].user \in Users \cup {NULL}
    BY DEF Types, ReqTyped, ReqRecords
  <2> QED
    BY <1>1, <1>2, <1>3, <2>1 DEF StoreChallenge, ChallengeRows, Accounts, UserExists
<1>4. CASE PopChallenge(s)
  BY <1>1, <1>2, <1>4 DEF PopChallenge, ChallengeRows, Accounts, UserExists
<1>5. CASE UNCHANGED challenge
  BY <1>1, <1>2, <1>5 DEF Accounts, UserExists
<1> QED
  BY <1>3, <1>4, <1>5
     DEF Reads, BeginRegistration, BeginLogin, ResolveSession, ResolveForUpdate,
         FinishWithoutSession, LookUpPasskey, CountPasskeys, RequestFails

LEMMA ReadsTyped ==
  ASSUME Types, NEW s \in Slots, Reads(s)
  PROVE  Types'
<1>1. /\ UNCHANGED <<email, owner, session, issued, log>>
      /\ Accounts' = Accounts
      /\ challenge' \in [Challenges -> ChallengeRows]
  BY ReadsFrame
<1>2. CASE BeginRegistration(s) \/ BeginLogin(s) \/ FinishWithoutSession(s)
  BY <1>1, <1>2, BeginMoves, GoesOn
<1>3. CASE ResolveSession(s) \/ ResolveForUpdate(s)
  BY <1>1, <1>3, SignedInMoves, GoesOn
<1>4. CASE PopChallenge(s)
  BY <1>1, <1>4, PopMoves, GoesOn
<1>5. CASE LookUpPasskey(s)
  BY <1>1, <1>5, LookUpMoves, GoesOn
<1>6. CASE CountPasskeys(s)
  BY <1>1, <1>6, CountMoves, GoesOn
<1>7. CASE StoreChallenge(s) \/ RequestFails(s)
  BY <1>1, <1>7, AnswerMoves, GoesOn DEF StoreChallenge, RequestFails
<1> QED
  BY <1>2, <1>3, <1>4, <1>5, <1>6, <1>7 DEF Reads

\* What CreateAccount writes, and where the request goes on.
LEMMA CreateFacts ==
  ASSUME Types, NEW s \in Slots, CreateAccount(s)
  PROVE  \E r : \E u \in Users, p \in Passkeys :
           /\ req[s].pc = "verify" /\ req[s].c \in Challenges
           /\ challenge[req[s].c].email \in Emails
           /\ u \notin Accounts /\ owner[p] = NULL
           /\ email' = [email EXCEPT ![u] = challenge[req[s].c].email]
           /\ Accounts' = Accounts \cup {u}
           /\ owner' = [owner EXCEPT ![p] = u]
           /\ Moves(s, r) /\ r.pc = "issue" /\ r.c = req[s].c
           /\ r.op = "register" /\ r.user = u /\ r.passkey = p
           /\ log' = log \cup {[what |-> "register", c |-> req[s].c, user |-> u,
                                passkey |-> p, token |-> NULL]}
           /\ UNCHANGED <<challenge, session, issued>>
<1>1. PICK u \in Users, p \in Passkeys :
        /\ ~UserExists(u)
        /\ owner[p] = NULL
        /\ email' = [email EXCEPT ![u] = challenge[req[s].c].email]
        /\ owner' = [owner EXCEPT ![p] = u]
        /\ Continue(s, [req[s] EXCEPT !.pc = "issue", !.user = u, !.passkey = p])
        /\ log' = log \cup {[what |-> "register", c |-> req[s].c, user |-> u,
                             passkey |-> p, token |-> NULL]}
  BY DEF CreateAccount
<1>2. /\ req[s].pc = "verify" /\ req[s].op = "register"
      /\ challenge[req[s].c].email # NULL
      /\ UNCHANGED <<challenge, session, issued>>
  BY DEF CreateAccount
<1>3. req[s].c \in Challenges
  BY <1>2 DEF Types, ReqTyped
<1>4. challenge[req[s].c].email \in Emails
  BY <1>2, <1>3 DEF Types, TypeOK
<1>5. Accounts' = Accounts \cup {u} /\ u \notin Accounts
  BY <1>1, <1>4, NullAssumption DEF Accounts, UserExists, Types, TypeOK
<1> DEFINE r == [req[s] EXCEPT !.pc = "issue", !.user = u, !.passkey = p]
<1>6. req' = [req EXCEPT ![s] = r]
  BY <1>1 DEF Continue
<1>7. req[s] \in ReqRecords /\ ReqTyped(req[s], Accounts)
  BY DEF Types, TypeOK
<1>8. /\ r \in ReqRecords /\ r.pc = "issue" /\ r.c = req[s].c
      /\ r.op = "register" /\ r.user = u /\ r.passkey = p
  BY <1>2, <1>7 DEF ReqRecords
<1> HIDE DEF r
<1>9. ReqTyped(r, Accounts')
  BY <1>3, <1>5, <1>8 DEF ReqTyped
<1> QED
  BY <1>1, <1>2, <1>3, <1>4, <1>5, <1>6, <1>8, <1>9 DEF Moves

\* What IssueSession writes.
LEMMA IssueFacts ==
  ASSUME Types, NEW s \in Slots, IssueSession(s)
  PROVE  \E t \in Tokens \ issued :
           /\ req[s].pc = "issue" /\ req[s].c \in Challenges
           /\ req[s].user \in Accounts /\ req[s].passkey \in Passkeys
           /\ session' = [session EXCEPT ![t] = req[s].user]
           /\ issued' = issued \cup {t}
           /\ log' = log \cup {[what |-> "login", c |-> req[s].c,
                                user |-> req[s].user, passkey |-> req[s].passkey,
                                token |-> t]}
           /\ Moves(s, IdleReq)
           /\ UNCHANGED <<email, owner, challenge>> /\ Accounts' = Accounts
  BY AnswerMoves DEF IssueSession, Types, ReqTyped, Accounts, UserExists

\* What AddPasskey writes.
LEMMA AddFacts ==
  ASSUME Types, NEW s \in Slots, AddPasskey(s)
  PROVE  \E p \in Passkeys :
           /\ req[s].pc = "verify" /\ req[s].c \in Challenges
           /\ req[s].user \in Accounts /\ owner[p] = NULL
           /\ challenge[req[s].c].user = req[s].user
           /\ owner' = [owner EXCEPT ![p] = req[s].user]
           /\ log' = log \cup {[what |-> "add", c |-> req[s].c,
                                user |-> req[s].user, passkey |-> p,
                                token |-> NULL]}
           /\ Moves(s, IdleReq)
           /\ UNCHANGED <<email, challenge, session, issued>>
           /\ Accounts' = Accounts
  BY AnswerMoves DEF AddPasskey, Types, ReqTyped, Accounts, UserExists

\* What UpdateAccount writes.
LEMMA UpdateFacts ==
  ASSUME Types, NEW s \in Slots, UpdateAccount(s)
  PROVE  /\ email' \in [Users -> Emails \cup {NULL}] /\ Accounts' = Accounts
         /\ Moves(s, IdleReq)
         /\ UNCHANGED <<owner, challenge, session, issued, log>>
<1>1. req[s].user \in Accounts /\ req[s].email \in Emails
  BY DEF Types, ReqTyped, UpdateAccount
<1>2. email' = [email EXCEPT ![req[s].user] = req[s].email]
      /\ email \in [Users -> Emails \cup {NULL}]
  BY DEF Types, TypeOK, UpdateAccount
<1>3. email' \in [Users -> Emails \cup {NULL}] /\ Accounts' = Accounts
  BY <1>1, <1>2, NullAssumption DEF Accounts, UserExists
<1> QED
  BY <1>3, AnswerMoves DEF UpdateAccount

\* What DeleteCredential writes.
LEMMA DeleteFacts ==
  ASSUME Types, NEW s \in Slots, DeleteCredential(s)
  PROVE  /\ req[s].pc = "delete" /\ req[s].count > 1 /\ req[s].passkey \in Passkeys
         /\ owner[req[s].passkey] = req[s].user
         /\ owner' = [owner EXCEPT ![req[s].passkey] = NULL]
         /\ Moves(s, IdleReq)
         /\ UNCHANGED <<email, challenge, session, issued, log>>
         /\ Accounts' = Accounts
  BY AnswerMoves DEF DeleteCredential, Types, ReqTyped, Accounts, UserExists

LEMMA TypesHandle ==
  ASSUME Types, NEW s \in Slots, Handle(s)
  PROVE  Types'
<1> USE DEF ChallengeRows
<1>1. CASE Reads(s)
  BY <1>1, ReadsTyped
<1>2. CASE CreateAccount(s)
  BY <1>2, CreateFacts, ReqMoves DEF Types, TypeOK
<1>3. CASE IssueSession(s)
  <2>1. PICK t \in Tokens \ issued :
           /\ req[s].pc = "issue" /\ req[s].c \in Challenges
           /\ req[s].user \in Accounts /\ req[s].passkey \in Passkeys
           /\ session' = [session EXCEPT ![t] = req[s].user]
           /\ issued' = issued \cup {t}
           /\ log' = log \cup {[what |-> "login", c |-> req[s].c,
                                user |-> req[s].user, passkey |-> req[s].passkey,
                                token |-> t]}
           /\ Moves(s, IdleReq)
           /\ UNCHANGED <<email, owner, challenge>> /\ Accounts' = Accounts
    BY <1>3, IssueFacts
  <2>2. /\ req' \in [Slots -> ReqRecords]
        /\ \A z \in Slots : ReqTyped(req'[z], Accounts')
    BY <2>1, ReqMoves
  <2>3. req[s].user \in Users
    BY <2>1 DEF Accounts
  <2> QED
    BY <2>1, <2>2, <2>3 DEF Types, TypeOK
<1>4. CASE AddPasskey(s)
  <2>1. PICK p \in Passkeys :
           /\ req[s].pc = "verify" /\ req[s].c \in Challenges
           /\ req[s].user \in Accounts
           /\ owner' = [owner EXCEPT ![p] = req[s].user]
           /\ log' = log \cup {[what |-> "add", c |-> req[s].c,
                                user |-> req[s].user, passkey |-> p,
                                token |-> NULL]}
           /\ Moves(s, IdleReq)
           /\ UNCHANGED <<email, challenge, session, issued>>
           /\ Accounts' = Accounts
    BY <1>4, AddFacts
  <2>2. /\ req' \in [Slots -> ReqRecords]
        /\ \A z \in Slots : ReqTyped(req'[z], Accounts')
    BY <2>1, ReqMoves
  <2>3. req[s].user \in Users
    BY <2>1 DEF Accounts
  <2> QED
    BY <2>1, <2>2, <2>3 DEF Types, TypeOK
<1>5. CASE UpdateAccount(s)
  BY <1>5, UpdateFacts, ReqMoves DEF Types, TypeOK
<1>6. CASE DeleteCredential(s)
  BY <1>6, DeleteFacts, ReqMoves DEF Types, TypeOK
<1> QED
  BY <1>1, <1>2, <1>3, <1>4, <1>5, <1>6 DEF Handle, Reads

LEMMA TypesNext ==
  ASSUME Types, [Next]_vars
  PROVE  Types'
<1>1. ASSUME NEW s \in Slots, Handle(s) PROVE Types'
  BY <1>1, TypesHandle
<1>2. ASSUME NEW c \in Challenges, ChallengeExpires(c) PROVE Types'
  BY <1>2 DEF ChallengeExpires, Types, TypeOK, Accounts, UserExists
<1>3. ASSUME NEW t \in Tokens, SessionEnds(t) PROVE Types'
  BY <1>3 DEF SessionEnds, Types, TypeOK, Accounts, UserExists
<1>4. CASE UNCHANGED vars
  BY <1>4 DEF vars, Types, TypeOK, Accounts, UserExists
<1> QED
  BY <1>1, <1>2, <1>3, <1>4 DEF Next

LEMMA TypesInit == Init => Types
  BY DEF Init, Types, TypeOK, Accounts, UserExists, IdleReq, NoChallenge,
         ReqTyped, ReqRecords

-----------------------------------------------------------------------------
(* A challenge is used once: a request that holds it is alone with it, and *)
(* the log has nothing more for it than the registration it completes.     *)

Holds(r, c) == r.pc \in {"verify", "issue"} /\ r.c = c

Once ==
  /\ \A s \in Slots, c \in Challenges :
       Holds(req[s], c) => challenge[c].state = "gone"
  /\ \A s, z \in Slots, c \in Challenges :
       Holds(req[s], c) /\ Holds(req[z], c) => s = z
  /\ \A x \in log : challenge[x.c].state = "gone"
  /\ \A s \in Slots, x \in log : Holds(req[s], x.c) =>
       /\ req[s].pc = "issue" /\ req[s].op = "register"
       /\ x.what = "register" /\ x.user = req[s].user
       /\ x.passkey = req[s].passkey
  /\ ChallengeUsedOnce

\* What a row said when it went is not rewritten.
GoneStays == \A c \in Challenges :
               challenge[c].state = "gone" => challenge'[c] = challenge[c]

LEMMA GoneStaysNext ==
  ASSUME Types, [Next]_vars
  PROVE  GoneStays
<1>1. CASE UNCHANGED challenge
  BY <1>1 DEF GoneStays
<1>2. ASSUME NEW s \in Slots, Handle(s) PROVE GoneStays
  <2>1. CASE StoreChallenge(s)
    BY <2>1 DEF StoreChallenge, GoneStays, Types, TypeOK
  <2>2. CASE PopChallenge(s)
    BY <2>2 DEF PopChallenge, GoneStays, Types, TypeOK
  <2>3. CASE ~(StoreChallenge(s) \/ PopChallenge(s))
    BY <1>1, <1>2, <2>3
       DEF Handle, BeginRegistration, BeginLogin, ResolveSession, ResolveForUpdate,
           FinishWithoutSession, CreateAccount, LookUpPasskey, IssueSession,
           AddPasskey, UpdateAccount, CountPasskeys, DeleteCredential, RequestFails
  <2> QED
    BY <2>1, <2>2, <2>3
<1>3. ASSUME NEW c \in Challenges, ChallengeExpires(c) PROVE GoneStays
  BY <1>3 DEF ChallengeExpires, GoneStays, Types, TypeOK
<1> QED
  BY <1>1, <1>2, <1>3 DEF Next, SessionEnds, vars

\* The request that moves, and those that do not.
LEMMA MovesAlone ==
  ASSUME Types, NEW s \in Slots, NEW r, Moves(s, r)
  PROVE  req'[s] = r /\ \A z \in Slots : z # s => req'[z] = req[z]
  BY DEF Types, TypeOK, Moves

\* A request that moves without taking a challenge, or is answered.
LEMMA OnceIdles ==
  ASSUME Types, Once, GoneStays, NEW s \in Slots, NEW r, Moves(s, r),
         r.pc \notin {"verify", "issue"}, log' = log
  PROVE  Once'
<1>1. req'[s] = r /\ \A z \in Slots : z # s => req'[z] = req[z]
  BY MovesAlone
<1>2. \A c : \A z \in Slots : Holds(req'[z], c) => z # s /\ Holds(req[z], c)
  BY <1>1 DEF Holds
<1>3. \A x \in log : x.c \in Challenges
  BY DEF Types, TypeOK
<1>4. ChallengeUsedOnce'
  BY DEF Once, ChallengeUsedOnce
<1>5. /\ \A z \in Slots, c \in Challenges :
           Holds(req'[z], c) => challenge'[c].state = "gone"
      /\ \A x \in log : challenge'[x.c].state = "gone"
  BY <1>2, <1>3 DEF Once, GoneStays
<1>6. \A y, z \in Slots, c \in Challenges :
        Holds(req'[y], c) /\ Holds(req'[z], c) => y = z
  BY <1>2 DEF Once
<1>7. \A z \in Slots, x \in log : Holds(req'[z], x.c) =>
        /\ req'[z].pc = "issue" /\ req'[z].op = "register"
        /\ x.what = "register" /\ x.user = req'[z].user
        /\ x.passkey = req'[z].passkey
  <2> TAKE z \in Slots, x \in log
  <2> HAVE Holds(req'[z], x.c)
  <2>1. z # s /\ Holds(req[z], x.c)
    BY <1>2
  <2>2. req'[z] = req[z]
    BY <1>1, <2>1
  <2> QED
    BY <2>1, <2>2 DEF Once
<1> QED
  BY <1>4, <1>5, <1>6, <1>7 DEF Once

LEMMA OnceReads ==
  ASSUME Types, Once, GoneStays, NEW s \in Slots, Reads(s)
  PROVE  Once'
<1>1. log' = log /\ Accounts' = Accounts
  BY ReadsFrame
<1>2. CASE BeginRegistration(s) \/ BeginLogin(s) \/ FinishWithoutSession(s)
  BY <1>1, <1>2, BeginMoves, OnceIdles
<1>3. CASE ResolveSession(s) \/ ResolveForUpdate(s)
  BY <1>1, <1>3, SignedInMoves, OnceIdles
<1>4. CASE PopChallenge(s)
  <2>1. PICK r : \E c \in Challenges :
          /\ Moves(s, r) /\ r.pc = "verify" /\ r.c = c
          /\ challenge[c].state = "live"
          /\ challenge' = [challenge EXCEPT ![c].state = "gone"]
    BY <1>1, <1>4, PopMoves
  <2>2. PICK c \in Challenges :
          /\ Moves(s, r) /\ r.pc = "verify" /\ r.c = c
          /\ challenge[c].state = "live"
          /\ challenge' = [challenge EXCEPT ![c].state = "gone"]
    BY <2>1
  <2>3. req'[s] = r /\ \A z \in Slots : z # s => req'[z] = req[z]
    BY <2>2, MovesAlone
  <2>4. challenge'[c].state = "gone" /\ challenge[c].state # "gone"
    BY <2>2 DEF Types, TypeOK
  <2>5. \A x \in log : x.c \in Challenges /\ x.c # c
    BY <2>4 DEF Once, Types, TypeOK
  <2>6. \A z \in Slots : ~Holds(req[z], c)
    BY <2>4 DEF Once
  <2>7. \A d : \A z \in Slots : Holds(req'[z], d) =>
          (z = s /\ d = c) \/ (z # s /\ Holds(req[z], d))
    BY <2>2, <2>3 DEF Holds
  <2>8. ChallengeUsedOnce'
    BY <1>1 DEF Once, ChallengeUsedOnce
  <2>9. \A z \in Slots, d \in Challenges :
          Holds(req'[z], d) => challenge'[d].state = "gone"
    BY <2>4, <2>7 DEF Once, GoneStays
  <2>10. \A y, z \in Slots, d \in Challenges :
           Holds(req'[y], d) /\ Holds(req'[z], d) => y = z
    BY <2>6, <2>7 DEF Once
  <2>11. \A x \in log : challenge'[x.c].state = "gone"
    BY <2>5 DEF Once, GoneStays
  <2>12. \A z \in Slots, x \in log : Holds(req'[z], x.c) =>
           z # s /\ Holds(req[z], x.c)
    BY <2>5, <2>7
  <2> QED
    BY <1>1, <2>3, <2>8, <2>9, <2>10, <2>11, <2>12 DEF Once
<1>5. CASE LookUpPasskey(s)
  <2>1. PICK r : /\ Moves(s, r) /\ r.pc = "issue" /\ r.c = req[s].c
    BY <1>1, <1>5, LookUpMoves
  <2>2. req'[s] = r /\ \A z \in Slots : z # s => req'[z] = req[z]
    BY <2>1, MovesAlone
  <2>3. req[s].pc = "verify"
    BY <1>5 DEF LookUpPasskey
  <2>4. \A c : \A z \in Slots : Holds(req'[z], c) => Holds(req[z], c)
    BY <2>1, <2>2, <2>3 DEF Holds
  <2>5. \A x \in log : x.c \in Challenges /\ ~Holds(req[s], x.c)
    BY <2>3 DEF Once, Types, TypeOK
  <2>6. ChallengeUsedOnce'
    BY <1>1 DEF Once, ChallengeUsedOnce
  <2>7. \A z \in Slots, x \in log : Holds(req'[z], x.c) =>
           z # s /\ Holds(req[z], x.c)
    BY <2>4, <2>5
  <2> QED
    BY <1>1, <2>2, <2>4, <2>5, <2>6, <2>7 DEF Once, GoneStays
<1>6. CASE CountPasskeys(s)
  BY <1>1, <1>6, CountMoves, OnceIdles
<1>7. CASE StoreChallenge(s) \/ RequestFails(s)
  BY <1>1, <1>7, AnswerMoves, OnceIdles DEF StoreChallenge, RequestFails
<1> QED
  BY <1>2, <1>3, <1>4, <1>5, <1>6, <1>7 DEF Reads

\* A request that writes to the log a ceremony of the challenge it holds: it
\* is answered, or it goes on to issue the session of its registration.
LEMMA OnceLogs ==
  ASSUME Types, Once, GoneStays, NEW s \in Slots, NEW r, NEW n,
         Moves(s, r), log' = log \cup {n},
         req[s].pc \in {"verify", "issue"}, n.c = req[s].c, n.c \in Challenges,
         req[s].pc = "issue" => /\ n.what = "login" /\ n.user = req[s].user
                                /\ n.passkey = req[s].passkey,
         \/ r.pc = "idle"
         \/ /\ req[s].pc = "verify" /\ r.pc = "issue" /\ r.c = req[s].c
            /\ r.op = "register" /\ n.what = "register"
            /\ n.user = r.user /\ n.passkey = r.passkey
  PROVE  Once'
<1>1. req'[s] = r /\ \A z \in Slots : z # s => req'[z] = req[z]
  BY MovesAlone
<1>2. Holds(req[s], n.c) /\ challenge[n.c].state = "gone"
      /\ \A x \in log : x.c \in Challenges
  BY DEF Holds, Once, Types, TypeOK
<1>3. \A z \in Slots, c \in Challenges : Holds(req'[z], c) => Holds(req[z], c)
  BY <1>1, <1>2 DEF Holds
<1>4. \A z \in Slots : Holds(req'[z], n.c) => z = s
  BY <1>2, <1>3 DEF Once
<1>5. \A x \in log : x.c = n.c => /\ req[s].pc = "issue" /\ x.what = "register"
                                  /\ x.user = n.user /\ x.passkey = n.passkey
                                  /\ n.what = "login"
  BY <1>2 DEF Once
<1>6. ChallengeUsedOnce'
  <2>1. \A x, y \in log : x.c = y.c /\ x # y =>
          /\ {x.what, y.what} = {"register", "login"}
          /\ x.user = y.user /\ x.passkey = y.passkey
    BY DEF Once, ChallengeUsedOnce
  <2>2. \A x \in log : x.c = n.c =>
          /\ {x.what, n.what} = {"register", "login"}
          /\ {n.what, x.what} = {"register", "login"}
          /\ x.user = n.user /\ x.passkey = n.passkey
    BY <1>5
  <2> QED
    BY <2>1, <2>2 DEF ChallengeUsedOnce
<1>7. \A z \in Slots, x \in log' : Holds(req'[z], x.c) =>
        /\ req'[z].pc = "issue" /\ req'[z].op = "register"
        /\ x.what = "register" /\ x.user = req'[z].user
        /\ x.passkey = req'[z].passkey
  <2> TAKE z \in Slots, x \in log'
  <2> HAVE Holds(req'[z], x.c)
  <2>1. CASE z = s
    <3>1. r.pc = "issue" /\ r.c = req[s].c /\ x.c = n.c
      BY <1>1, <2>1 DEF Holds
    <3>2. x \notin log
      BY <1>5, <3>1
    <3> QED
      BY <1>1, <2>1, <3>1, <3>2
  <2>2. CASE z # s
    <3>1. x.c # n.c
      BY <1>4, <2>2
    <3>2. x \in log /\ Holds(req[z], x.c)
      BY <1>1, <2>2, <3>1 DEF Holds
    <3> QED
      BY <1>1, <2>2, <3>2 DEF Once
  <2> QED
    BY <2>1, <2>2
<1>8. \A x \in log' : challenge'[x.c].state = "gone"
  BY <1>2 DEF Once, GoneStays
<1> QED
  BY <1>3, <1>6, <1>7, <1>8 DEF Once, GoneStays

LEMMA OnceNext ==
  ASSUME Types, Once, [Next]_vars
  PROVE  Once'
<1>1. GoneStays
  BY GoneStaysNext
<1>2. CASE UNCHANGED <<req, log>>
  <2>1. \A x \in log : x.c \in Challenges
    BY DEF Types, TypeOK
  <2> QED
    BY <1>1, <1>2, <2>1 DEF Once, GoneStays, ChallengeUsedOnce
<1>3. ASSUME NEW s \in Slots, Handle(s) PROVE Once'
  <2>1. CASE Reads(s)
    BY <1>1, <2>1, OnceReads
  <2>2. CASE CreateAccount(s)
    <3>1. PICK r : \E u \in Users, p \in Passkeys :
            /\ req[s].pc = "verify" /\ req[s].c \in Challenges
            /\ Moves(s, r) /\ r.pc = "issue" /\ r.c = req[s].c
            /\ r.op = "register" /\ r.user = u /\ r.passkey = p
            /\ log' = log \cup {[what |-> "register", c |-> req[s].c, user |-> u,
                                 passkey |-> p, token |-> NULL]}
      BY <2>2, CreateFacts
    <3> DEFINE n == [what |-> "register", c |-> req[s].c, user |-> r.user,
                     passkey |-> r.passkey, token |-> NULL]
    <3>2. /\ n.c = req[s].c /\ n.what = "register" /\ n.user = r.user
          /\ n.passkey = r.passkey /\ log' = log \cup {n}
      BY <3>1
    <3> HIDE DEF n
    <3> QED
      BY <1>1, <3>1, <3>2, OnceLogs
  <2>3. CASE IssueSession(s)
    <3>1. PICK t \in Tokens :
            /\ req[s].pc = "issue" /\ req[s].c \in Challenges
            /\ log' = log \cup {[what |-> "login", c |-> req[s].c,
                                 user |-> req[s].user,
                                 passkey |-> req[s].passkey, token |-> t]}
            /\ Moves(s, IdleReq)
      BY <2>3, IssueFacts
    <3> DEFINE n == [what |-> "login", c |-> req[s].c, user |-> req[s].user,
                     passkey |-> req[s].passkey, token |-> t]
    <3>2. /\ n.c = req[s].c /\ n.what = "login" /\ n.user = req[s].user
          /\ n.passkey = req[s].passkey /\ log' = log \cup {n}
      BY <3>1
    <3>3. IdleReq.pc = "idle"
      BY DEF IdleReq
    <3> HIDE DEF n
    <3> QED
      BY <1>1, <3>1, <3>2, <3>3, OnceLogs
  <2>4. CASE AddPasskey(s)
    <3>1. PICK p \in Passkeys :
            /\ req[s].pc = "verify" /\ req[s].c \in Challenges
            /\ log' = log \cup {[what |-> "add", c |-> req[s].c,
                                 user |-> req[s].user, passkey |-> p,
                                 token |-> NULL]}
            /\ Moves(s, IdleReq)
      BY <2>4, AddFacts
    <3> DEFINE n == [what |-> "add", c |-> req[s].c, user |-> req[s].user,
                     passkey |-> p, token |-> NULL]
    <3>2. n.c = req[s].c /\ log' = log \cup {n}
      BY <3>1
    <3>3. IdleReq.pc = "idle"
      BY DEF IdleReq
    <3> HIDE DEF n
    <3> QED
      BY <1>1, <3>1, <3>2, <3>3, OnceLogs
  <2>5. CASE UpdateAccount(s) \/ DeleteCredential(s)
    <3>1. Moves(s, IdleReq) /\ log' = log
      BY <2>5, UpdateFacts, DeleteFacts
    <3>2. IdleReq.pc \notin {"verify", "issue"}
      BY DEF IdleReq
    <3> QED
      BY <1>1, <3>1, <3>2, OnceIdles
  <2> QED
    BY <1>3, <2>1, <2>2, <2>3, <2>4, <2>5 DEF Handle, Reads
<1> QED
  BY <1>2, <1>3 DEF Next, ChallengeExpires, SessionEnds, vars

LEMMA OnceInit == Init => Once
  BY DEF Init, Once, Holds, IdleReq, ChallengeUsedOnce

-----------------------------------------------------------------------------
(* Passkeys and sessions belong to who proved them.                        *)

\* x is the ceremony that made p a passkey of u.
Proves(x, p, u, rows) ==
  /\ x.passkey = p /\ x.user = u
  /\ \/ x.what = "register" /\ rows[x.c].email # NULL
     \/ x.what = "add" /\ rows[x.c].user = u

\* Some ceremony made p a passkey of u, whoever owns it now.
Registered(p, u, entries) ==
  \E y \in entries : y.what # "login" /\ y.passkey = p /\ y.user = u

Proven ==
  /\ PasskeysAreOwners
  /\ SessionsAreProven
  /\ \A s \in Slots :
       req[s].pc = "issue" => Registered(req[s].passkey, req[s].user, log)

\* Steps that complete no ceremony.
LEMMA ProvenRests ==
  ASSUME Types, Once, GoneStays, Proven, log' = log,
         \A p \in Passkeys : owner'[p] # NULL => owner'[p] = owner[p],
         \A t \in Tokens : session'[t] # NULL => session'[t] = session[t],
         \A s \in Slots : req'[s].pc = "issue" =>
           Registered(req'[s].passkey, req'[s].user, log)
  PROVE  Proven'
<1>2. \A p \in Passkeys : owner[p] # NULL =>
        \E x \in log : Proves(x, p, owner[p], challenge)
  BY DEF Proven, PasskeysAreOwners, Proves
<1>3. \A p \in Passkeys : owner'[p] # NULL =>
        \E x \in log : Proves(x, p, owner'[p], challenge')
  <2> TAKE p \in Passkeys
  <2> HAVE owner'[p] # NULL
  <2>1. owner'[p] = owner[p]
    OBVIOUS
  <2>2. PICK x \in log : Proves(x, p, owner[p], challenge)
    BY <1>2, <2>1
  <2>3. x.passkey = p /\ x.user = owner[p] /\ challenge'[x.c] = challenge[x.c]
    BY <2>2 DEF Proves, Once, GoneStays, Types, TypeOK
  <2> QED
    BY <2>1, <2>2, <2>3 DEF Proves
<1>4. PasskeysAreOwners'
  BY <1>3 DEF Proven, PasskeysAreOwners, Proves
<1>5. SessionsAreProven'
  BY DEF Proven, SessionsAreProven
<1>6. \A s \in Slots : req'[s].pc = "issue" =>
        Registered(req'[s].passkey, req'[s].user, log')
  BY DEF Registered
<1> QED
  BY <1>4, <1>5, <1>6 DEF Proven

\* A request that moves to a statement other than IssueSession.
LEMMA IssuesStay ==
  ASSUME Types, Proven, NEW s \in Slots, NEW r, Moves(s, r),
         r.pc = "issue" => Registered(r.passkey, r.user, log)
  PROVE  \A z \in Slots : req'[z].pc = "issue" =>
           Registered(req'[z].passkey, req'[z].user, log)
<1>1. req'[s] = r /\ \A z \in Slots : z # s => req'[z] = req[z]
  BY MovesAlone
<1> TAKE z \in Slots
<1>2. CASE z = s
  BY <1>1, <1>2
<1>3. CASE z # s
  <2>1. req'[z] = req[z]
    BY <1>1, <1>3
  <2> QED
    BY <2>1 DEF Proven
<1> QED
  BY <1>2, <1>3

LEMMA ProvenReads ==
  ASSUME Types, Once, GoneStays, Proven, NEW s \in Slots, Reads(s)
  PROVE  Proven'
<1>1. UNCHANGED <<owner, session, log>> /\ Accounts' = Accounts
  BY ReadsFrame
<1>2. ASSUME NEW r, Moves(s, r),
             r.pc = "issue" => Registered(r.passkey, r.user, log)
      PROVE  Proven'
  BY <1>1, <1>2, IssuesStay, ProvenRests
<1>3. CASE BeginRegistration(s) \/ BeginLogin(s) \/ FinishWithoutSession(s)
  <2>1. PICK r : Moves(s, r) /\ r.pc \in {"store", "pop"}
    BY <1>1, <1>3, BeginMoves
  <2> QED
    BY <1>2, <2>1
<1>4. CASE ResolveSession(s) \/ ResolveForUpdate(s)
  <2>1. PICK r : Moves(s, r) /\ r.pc \in {"store", "pop", "count", "update"}
    BY <1>1, <1>4, SignedInMoves
  <2> QED
    BY <1>2, <2>1
<1>5. CASE PopChallenge(s)
  <2>1. PICK r : Moves(s, r) /\ r.pc = "verify"
    BY <1>1, <1>5, PopMoves
  <2> QED
    BY <1>2, <2>1
<1>6. CASE LookUpPasskey(s)
  <2>1. PICK r : \E p \in Passkeys : /\ Moves(s, r) /\ owner[p] # NULL
                                     /\ r.user = owner[p] /\ r.passkey = p
    BY <1>1, <1>6, LookUpMoves
  <2>2. Registered(r.passkey, r.user, log)
    BY <2>1 DEF Proven, PasskeysAreOwners, Registered
  <2> QED
    BY <1>2, <2>1, <2>2
<1>7. CASE CountPasskeys(s)
  <2>1. PICK r : Moves(s, r) /\ r.pc = "delete"
    BY <1>1, <1>7, CountMoves
  <2> QED
    BY <1>2, <2>1
<1>8. CASE StoreChallenge(s) \/ RequestFails(s)
  BY <1>2, <1>8, AnswerMoves DEF StoreChallenge, RequestFails
<1> QED
  BY <1>3, <1>4, <1>5, <1>6, <1>7, <1>8 DEF Reads

\* CreateAccount and AddPasskey: n is the ceremony that makes p a passkey of
\* u, the only registration u can have.
LEMMA ProvenAdds ==
  ASSUME Types, Once, GoneStays, Proven, NEW s \in Slots, NEW r, Moves(s, r),
         NEW u \in Users, NEW p \in Passkeys, NEW n,
         owner' = [owner EXCEPT ![p] = u], log' = log \cup {n},
         session' = session,
         Proves(n, p, u, challenge'),
         n.what = "register" => u \notin Accounts,
         r.pc = "issue" => r.passkey = p /\ r.user = u
  PROVE  Proven'
<1>2. n.passkey = p /\ n.user = u /\ n.what # "login"
  BY DEF Proves
<1>3. Registered(p, u, log')
  BY <1>2 DEF Registered
<1>4. \A q \in Passkeys : owner'[q] # NULL =>
        \E x \in log' : /\ x.passkey = q /\ x.user = owner'[q]
                        /\ \/ x.what = "register" /\ challenge'[x.c].email # NULL
                           \/ x.what = "add" /\ challenge'[x.c].user = owner'[q]
  <2> TAKE q \in Passkeys
  <2> HAVE owner'[q] # NULL
  <2>1. CASE q = p
    <3>1. owner'[q] = u
      BY <2>1 DEF Types, TypeOK
    <3> QED
      BY <2>1, <3>1 DEF Proves
  <2>2. CASE q # p
    <3>1. owner'[q] = owner[q]
      BY <2>2 DEF Types, TypeOK
    <3>2. PICK x \in log : Proves(x, q, owner[q], challenge)
      BY <3>1 DEF Proven, PasskeysAreOwners, Proves
    <3>3. challenge'[x.c] = challenge[x.c]
      BY DEF Once, GoneStays, Types, TypeOK
    <3> QED
      BY <3>1, <3>2, <3>3 DEF Proves
  <2> QED
    BY <2>1, <2>2
<1>5. \A x, y \in log' : x.what = "register" /\ y.what = "register"
                           /\ x.user = y.user => x = y
  <2>1. \A x, y \in log : x.what = "register" /\ y.what = "register"
                           /\ x.user = y.user => x = y
    BY DEF Proven, PasskeysAreOwners
  <2>2. \A x \in log : n.what = "register" => x.user # n.user
    BY <1>2 DEF Types
  <2> QED
    BY <2>1, <2>2
<1>6. PasskeysAreOwners'
  BY <1>4, <1>5 DEF PasskeysAreOwners
<1>7. SessionsAreProven'
  BY DEF Proven, SessionsAreProven
<1>8. \A z \in Slots : req'[z].pc = "issue" =>
        Registered(req'[z].passkey, req'[z].user, log')
  <2>1. req'[s] = r /\ \A z \in Slots : z # s => req'[z] = req[z]
    BY MovesAlone
  <2> TAKE z \in Slots
  <2>2. CASE z = s
    BY <1>3, <2>1, <2>2 DEF Registered
  <2>3. CASE z # s
    <3>1. req'[z] = req[z]
      BY <2>1, <2>3
    <3>2. req[z].pc = "issue" => Registered(req[z].passkey, req[z].user, log)
      BY DEF Proven
    <3> QED
      BY <3>1, <3>2 DEF Registered
  <2> QED
    BY <2>2, <2>3
<1> QED
  BY <1>6, <1>7, <1>8 DEF Proven

LEMMA ProvenIssues ==
  ASSUME Types, Once, GoneStays, Proven, NEW s \in Slots, IssueSession(s)
  PROVE  Proven'
<1> DEFINE n(t) == [what |-> "login", c |-> req[s].c, user |-> req[s].user,
                    passkey |-> req[s].passkey, token |-> t]
<1>1. PICK t \in Tokens \ issued :
         /\ req[s].pc = "issue"
         /\ session' = [session EXCEPT ![t] = req[s].user]
         /\ log' = log \cup {n(t)}
         /\ Moves(s, IdleReq)
         /\ owner' = owner
  BY IssueFacts
<1>2. /\ n(t).what = "login" /\ n(t).user = req[s].user
      /\ n(t).passkey = req[s].passkey /\ n(t).token = t
  OBVIOUS
<1> HIDE DEF n
<1>3. PICK y \in log : /\ y.what # "login" /\ y.passkey = req[s].passkey
                       /\ y.user = req[s].user
  BY <1>1 DEF Proven, Registered
<1>4. PasskeysAreOwners'
  <2>1. \A p \in Passkeys : owner'[p] # NULL =>
          \E x \in log' : /\ x.passkey = p /\ x.user = owner'[p]
                          /\ \/ x.what = "register" /\ challenge'[x.c].email # NULL
                             \/ x.what = "add" /\ challenge'[x.c].user = owner'[p]
    <3> TAKE p \in Passkeys
    <3> HAVE owner'[p] # NULL
    <3>1. PICK x \in log : Proves(x, p, owner[p], challenge)
      BY <1>1 DEF Proven, PasskeysAreOwners, Proves
    <3>2. challenge'[x.c] = challenge[x.c]
      BY DEF Once, GoneStays, Types, TypeOK
    <3> QED
      BY <1>1, <3>1, <3>2 DEF Proves
  <2>2. \A x, z \in log' : x.what = "register" /\ z.what = "register"
                             /\ x.user = z.user => x = z
    BY <1>1, <1>2 DEF Proven, PasskeysAreOwners
  <2> QED
    BY <2>1, <2>2 DEF PasskeysAreOwners
<1>5. SessionsAreProven'
  <2> SUFFICES ASSUME NEW k \in Tokens, session'[k] # NULL
               PROVE  \E x \in log' : /\ x.token = k /\ x.user = session'[k]
                                      /\ \E z \in log' : /\ z.what # "login"
                                                         /\ z.passkey = x.passkey
                                                         /\ z.user = x.user
    BY DEF SessionsAreProven
  <2>1. CASE k = t
    <3>1. session'[k] = req[s].user
      BY <1>1, <2>1 DEF Types, TypeOK
    <3> QED
      BY <1>1, <1>2, <1>3, <2>1, <3>1
  <2>2. CASE k # t
    <3>1. session'[k] = session[k]
      BY <1>1, <2>2 DEF Types, TypeOK
    <3> QED
      BY <1>1, <3>1 DEF Proven, SessionsAreProven
  <2> QED
    BY <2>1, <2>2
<1>6. \A z \in Slots : req'[z].pc = "issue" =>
        Registered(req'[z].passkey, req'[z].user, log)
  <2>1. IdleReq.pc # "issue"
    BY DEF IdleReq
  <2> QED
    BY <1>1, <2>1, IssuesStay
<1>7. \A z \in Slots : req'[z].pc = "issue" =>
        Registered(req'[z].passkey, req'[z].user, log')
  BY <1>1, <1>6 DEF Registered
<1> QED
  BY <1>4, <1>5, <1>7 DEF Proven

LEMMA ProvenNext ==
  ASSUME Types, Once, Proven, [Next]_vars
  PROVE  Proven'
<1>1. GoneStays
  BY GoneStaysNext
<1>2. ASSUME NEW s \in Slots, Handle(s) PROVE Proven'
  <2>1. CASE Reads(s)
    BY <1>1, <2>1, ProvenReads
  <2>2. CASE CreateAccount(s)
    <3>1. PICK r : \E u \in Users, p \in Passkeys :
            /\ req[s].c \in Challenges /\ challenge[req[s].c].email \in Emails
            /\ u \notin Accounts /\ owner' = [owner EXCEPT ![p] = u]
            /\ Moves(s, r) /\ r.user = u /\ r.passkey = p
            /\ log' = log \cup {[what |-> "register", c |-> req[s].c, user |-> u,
                                 passkey |-> p, token |-> NULL]}
            /\ UNCHANGED <<challenge, session>>
      BY <2>2, CreateFacts
    <3>2. PICK u \in Users, p \in Passkeys :
            /\ req[s].c \in Challenges /\ challenge[req[s].c].email \in Emails
            /\ u \notin Accounts /\ owner' = [owner EXCEPT ![p] = u]
            /\ Moves(s, r) /\ r.user = u /\ r.passkey = p
            /\ log' = log \cup {[what |-> "register", c |-> req[s].c, user |-> u,
                                 passkey |-> p, token |-> NULL]}
            /\ UNCHANGED <<challenge, session>>
      BY <3>1
    <3> DEFINE n == [what |-> "register", c |-> req[s].c, user |-> u,
                     passkey |-> p, token |-> NULL]
    <3>3. /\ n.c = req[s].c /\ n.what = "register" /\ n.user = u /\ n.passkey = p
          /\ log' = log \cup {n}
      BY <3>2
    <3> HIDE DEF n
    <3>4. \E m : /\ m.c = req[s].c /\ m.what = "register" /\ m.user = u
                 /\ m.passkey = p /\ log' = log \cup {m}
      BY <3>3
    <3>5. PICK m : /\ m.c = req[s].c /\ m.what = "register" /\ m.user = u
                   /\ m.passkey = p /\ log' = log \cup {m}
      BY <3>4
    <3>6. Proves(m, p, u, challenge')
      BY <3>2, <3>5, NullAssumption DEF Proves
    <3> QED
      BY <1>1, <3>2, <3>5, <3>6, ProvenAdds
  <2>3. CASE IssueSession(s)
    BY <1>1, <2>3, ProvenIssues
  <2>4. CASE AddPasskey(s)
    <3>1. PICK p \in Passkeys :
            /\ req[s].user \in Accounts
            /\ challenge[req[s].c].user = req[s].user
            /\ owner' = [owner EXCEPT ![p] = req[s].user]
            /\ log' = log \cup {[what |-> "add", c |-> req[s].c,
                                 user |-> req[s].user, passkey |-> p,
                                 token |-> NULL]}
            /\ Moves(s, IdleReq)
            /\ UNCHANGED <<challenge, session>>
      BY <2>4, AddFacts
    <3>2. PICK u \in Users : u = req[s].user
      BY <3>1 DEF Accounts
    <3>3. \E m : /\ m.c = req[s].c /\ m.what = "add" /\ m.user = u
                 /\ m.passkey = p /\ log' = log \cup {m}
      BY <3>1, <3>2
    <3>4. PICK m : /\ m.c = req[s].c /\ m.what = "add" /\ m.user = u
                   /\ m.passkey = p /\ log' = log \cup {m}
      BY <3>3
    <3>5. Proves(m, p, u, challenge')
      BY <3>1, <3>2, <3>4 DEF Proves
    <3>6. IdleReq.pc # "issue"
      BY DEF IdleReq
    <3> QED
      BY <1>1, <3>1, <3>2, <3>4, <3>5, <3>6, ProvenAdds
  <2>5. CASE UpdateAccount(s) \/ DeleteCredential(s)
    <3>1. /\ Moves(s, IdleReq) /\ UNCHANGED <<session, log>>
          /\ \A p \in Passkeys : owner'[p] # NULL => owner'[p] = owner[p]
      BY <2>5, UpdateFacts, DeleteFacts DEF Types, TypeOK
    <3>2. IdleReq.pc # "issue"
      BY DEF IdleReq
    <3>3. \A z \in Slots : req'[z].pc = "issue" =>
            Registered(req'[z].passkey, req'[z].user, log)
      BY <3>1, <3>2, IssuesStay
    <3> QED
      BY <1>1, <3>1, <3>3, ProvenRests
  <2> QED
    BY <1>2, <2>1, <2>2, <2>3, <2>4, <2>5 DEF Handle, Reads
<1>3. CASE /\ UNCHANGED <<owner, req, log>>
           /\ \A t \in Tokens : session'[t] # NULL => session'[t] = session[t]
  <2>1. \A z \in Slots : req'[z].pc = "issue" =>
          Registered(req'[z].passkey, req'[z].user, log)
    BY <1>3 DEF Proven
  <2> QED
    BY <1>1, <1>3, <2>1, ProvenRests
<1>4. ASSUME NEW t \in Tokens, SessionEnds(t) PROVE Proven'
  BY <1>3, <1>4 DEF SessionEnds, Types, TypeOK
<1> QED
  BY <1>2, <1>3, <1>4 DEF Next, ChallengeExpires, vars

LEMMA ProvenInit == Init => Proven
  BY DEF Init, Proven, PasskeysAreOwners, SessionsAreProven, IdleReq

-----------------------------------------------------------------------------
(* With one delete per user at a time nobody deletes a last passkey.       *)

\* A delete that counted more than one passkey leaves another behind, for no
\* other request can be deleting that one.
Keeps ==
  /\ KeepsOnePasskey
  /\ \A s \in Slots : req[s].pc = "delete" /\ req[s].count > 1 =>
       \E q \in PasskeysOf(req[s].user) : q # req[s].passkey
  /\ \A s, z \in Slots : req[s].op = "delete" /\ req[z].op = "delete" /\ s # z =>
       req[s].user # req[z].user

LEMMA AnotherPasskey ==
  ASSUME NEW u, NEW p \in PasskeysOf(u), Cardinality(PasskeysOf(u)) > 1
  PROVE  \E q \in PasskeysOf(u) : q # p
<1> SUFFICES ASSUME \A q \in PasskeysOf(u) : q = p PROVE FALSE
  OBVIOUS
<1>1. PasskeysOf(u) = {p}
  OBVIOUS
<1>2. Cardinality({p}) = 1
  BY FS_Singleton
<1> QED
  BY <1>1, <1>2

LEMMA EveryAccountKeepsOne ==
  KeepsOnePasskey <=> \A u \in Accounts : \E p \in Passkeys : owner[p] = u
  BY DEF KeepsOnePasskey, Accounts, PasskeysOf

\* The deletes side by side stay those of different users.
LEMMA DeletesDiffer ==
  ASSUME Types, Keeps, NEW s \in Slots, NEW r, Moves(s, r),
         r.op = "delete" => \A z \in Slots \ {s} :
                              req[z].op = "delete" => req[z].user # r.user
  PROVE  \A y, z \in Slots :
           req'[y].op = "delete" /\ req'[z].op = "delete" /\ y # z =>
             req'[y].user # req'[z].user
<1>1. req'[s] = r /\ \A z \in Slots : z # s => req'[z] = req[z]
  BY MovesAlone
<1> QED
  BY <1>1 DEF Keeps

\* Steps that take no passkey away.
LEMMA KeepsMoves ==
  ASSUME Types, Keeps, NEW s \in Slots, NEW r, Moves(s, r),
         \A p \in Passkeys : owner[p] # NULL => owner'[p] = owner[p],
         \A u \in Accounts' \ Accounts : \E p \in Passkeys : owner'[p] = u,
         r.pc = "delete" /\ r.count > 1 =>
           \E q \in PasskeysOf(r.user) : q # r.passkey,
         r.op = "delete" => \A z \in Slots \ {s} :
                              req[z].op = "delete" => req[z].user # r.user
  PROVE  Keeps'
<1>1. req'[s] = r /\ \A z \in Slots : z # s => req'[z] = req[z]
  BY MovesAlone
<1>2. KeepsOnePasskey'
  <2>1. \A u \in Accounts : \E p \in Passkeys : owner[p] = u
    BY EveryAccountKeepsOne DEF Keeps
  <2>2. \A u \in Accounts : u # NULL
    BY NullAssumption DEF Accounts
  <2>3. \A u \in Accounts' : \E p \in Passkeys : owner'[p] = u
    BY <2>1, <2>2
  <2> QED
    BY <2>3 DEF KeepsOnePasskey, Accounts, PasskeysOf
<1>3. \A z \in Slots : req'[z].pc = "delete" /\ req'[z].count > 1 =>
        \E q \in Passkeys : owner'[q] = req'[z].user /\ q # req'[z].passkey
  <2> TAKE z \in Slots
  <2> HAVE req'[z].pc = "delete" /\ req'[z].count > 1
  <2>1. PICK q \in Passkeys : owner[q] = req'[z].user /\ q # req'[z].passkey
    <3>1. CASE z = s
      BY <1>1, <3>1 DEF PasskeysOf
    <3>2. CASE z # s
      <4>1. req'[z] = req[z]
        BY <1>1, <3>2
      <4> QED
        BY <4>1 DEF Keeps, PasskeysOf
    <3> QED
      BY <3>1, <3>2
  <2>2. req'[z].user \in Users
    <3>1. CASE z = s
      BY <1>1, <3>1 DEF Moves, ReqTyped, Accounts
    <3>2. CASE z # s
      <4>1. req'[z] = req[z] /\ ReqTyped(req[z], Accounts)
        BY <1>1, <3>2 DEF Types
      <4> QED
        BY <4>1 DEF ReqTyped, Accounts
    <3> QED
      BY <3>1, <3>2
  <2>3. owner[q] # NULL
    BY <2>1, <2>2, NullAssumption
  <2> QED
    BY <2>1, <2>3
<1>4. \A y, z \in Slots :
        req'[y].op = "delete" /\ req'[z].op = "delete" /\ y # z =>
          req'[y].user # req'[z].user
  BY DeletesDiffer
<1> QED
  BY <1>2, <1>3, <1>4 DEF Keeps, PasskeysOf

LEMMA KeepsReads ==
  ASSUME SerialDeletes, Types, Keeps, NEW s \in Slots, Reads(s)
  PROVE  Keeps'
<1>1. owner' = owner /\ Accounts' = Accounts
  BY ReadsFrame
<1>2. ASSUME NEW r, Moves(s, r),
             r.pc = "delete" /\ r.count > 1 =>
               \E q \in PasskeysOf(r.user) : q # r.passkey,
             r.op = "delete" => \A z \in Slots \ {s} :
                                  req[z].op = "delete" => req[z].user # r.user
      PROVE  Keeps'
  BY <1>1, <1>2, KeepsMoves
<1>3. CASE BeginRegistration(s) \/ BeginLogin(s) \/ FinishWithoutSession(s)
  <2>1. PICK r : Moves(s, r) /\ r.pc \in {"store", "pop"} /\ r.op # "delete"
    BY <1>1, <1>3, BeginMoves
  <2> QED
    BY <1>2, <2>1
<1>4. CASE ResolveSession(s) \/ ResolveForUpdate(s)
  <2>1. PICK r : /\ Moves(s, r) /\ r.pc \in {"store", "pop", "count", "update"}
                 /\ r.op = "delete" =>
                      \A z \in Slots : req[z].op = "delete" => req[z].user # r.user
    BY <1>1, <1>4, SignedInMoves
  <2> QED
    BY <1>2, <2>1
<1>5. CASE PopChallenge(s)
  <2>1. PICK r : Moves(s, r) /\ r.pc = "verify" /\ r.op # "delete"
    BY <1>1, <1>5, PopMoves
  <2> QED
    BY <1>2, <2>1
<1>6. CASE LookUpPasskey(s)
  <2>1. PICK r : Moves(s, r) /\ r.pc = "issue" /\ r.op = "login"
    BY <1>1, <1>6, LookUpMoves
  <2> QED
    BY <1>2, <2>1
<1>7. CASE CountPasskeys(s)
  <2>1. PICK r : \E p \in PasskeysOf(req[s].user) :
           /\ Moves(s, r) /\ r.op = "delete" /\ req[s].op = "delete"
           /\ r.user = req[s].user /\ r.passkey = p
           /\ r.count = Cardinality(PasskeysOf(req[s].user))
    BY <1>1, <1>7, CountMoves
  <2>2. r.count > 1 => \E q \in PasskeysOf(r.user) : q # r.passkey
    BY <2>1, AnotherPasskey
  <2>3. \A z \in Slots \ {s} : req[z].op = "delete" => req[z].user # r.user
    BY <2>1 DEF Keeps
  <2> QED
    BY <1>2, <2>1, <2>2, <2>3
<1>8. CASE StoreChallenge(s) \/ RequestFails(s)
  BY <1>2, <1>8, AnswerMoves DEF StoreChallenge, RequestFails
<1> QED
  BY <1>3, <1>4, <1>5, <1>6, <1>7, <1>8 DEF Reads

\* The row deleted is another user's, or the request that counted it leaves one.
LEMMA KeepsDelete ==
  ASSUME Types, Keeps, NEW s \in Slots, DeleteCredential(s)
  PROVE  Keeps'
<1>1. /\ req[s].pc = "delete" /\ req[s].count > 1 /\ req[s].passkey \in Passkeys
      /\ owner[req[s].passkey] = req[s].user
      /\ owner' = [owner EXCEPT ![req[s].passkey] = NULL]
      /\ Moves(s, IdleReq) /\ Accounts' = Accounts
  BY DeleteFacts
<1>2. \A q \in Passkeys : q # req[s].passkey => owner'[q] = owner[q]
  BY <1>1 DEF Types, TypeOK
<1>3. req'[s] = IdleReq /\ \A z \in Slots : z # s => req'[z] = req[z]
  BY <1>1, MovesAlone
<1>4. IdleReq.pc = "idle" /\ IdleReq.op = "none"
  BY DEF IdleReq
<1>5. KeepsOnePasskey'
  <2>1. PICK q \in Passkeys : owner[q] = req[s].user /\ q # req[s].passkey
    BY <1>1 DEF Keeps, PasskeysOf
  <2>2. \A u \in Accounts : \E p \in Passkeys : owner[p] = u
    BY EveryAccountKeepsOne DEF Keeps
  <2>3. \A u \in Accounts : \E p \in Passkeys : owner'[p] = u
    BY <1>1, <1>2, <2>1, <2>2
  <2>4. \A u \in Accounts' : \E p \in Passkeys : owner'[p] = u
    BY <1>1, <2>3
  <2> QED
    BY <2>4 DEF KeepsOnePasskey, Accounts, PasskeysOf
<1>6. \A z \in Slots : req'[z].pc = "delete" /\ req'[z].count > 1 =>
        \E q \in Passkeys : owner'[q] = req'[z].user /\ q # req'[z].passkey
  <2> TAKE z \in Slots
  <2> HAVE req'[z].pc = "delete" /\ req'[z].count > 1
  <2>1. z # s /\ req'[z] = req[z]
    BY <1>3, <1>4
  <2>2. PICK q \in Passkeys : owner[q] = req[z].user /\ q # req[z].passkey
    BY <2>1 DEF Keeps, PasskeysOf
  <2>3. req[s].op = "delete" /\ req[z].op = "delete"
    BY <1>1, <2>1 DEF Types, ReqTyped
  <2>4. req[s].user # req[z].user
    BY <2>1, <2>3 DEF Keeps
  <2>5. owner'[q] = owner[q]
    BY <1>1, <1>2, <2>2, <2>4
  <2> QED
    BY <2>1, <2>2, <2>5
<1>7. \A y, z \in Slots :
        req'[y].op = "delete" /\ req'[z].op = "delete" /\ y # z =>
          req'[y].user # req'[z].user
  BY <1>1, <1>4, DeletesDiffer
<1> QED
  BY <1>5, <1>6, <1>7 DEF Keeps, PasskeysOf

LEMMA KeepsNext ==
  ASSUME SerialDeletes, Types, Keeps, [Next]_vars
  PROVE  Keeps'
<1>1. ASSUME NEW s \in Slots, Handle(s) PROVE Keeps'
  <2>1. CASE Reads(s)
    BY <2>1, KeepsReads
  <2>2. CASE CreateAccount(s)
    <3>1. PICK r : \E u \in Users, p \in Passkeys :
            /\ owner[p] = NULL /\ Accounts' = Accounts \cup {u}
            /\ owner' = [owner EXCEPT ![p] = u]
            /\ Moves(s, r) /\ r.pc = "issue" /\ r.op = "register"
      BY <2>2, CreateFacts
    <3>2. /\ \A p \in Passkeys : owner[p] # NULL => owner'[p] = owner[p]
          /\ \A u \in Accounts' \ Accounts : \E p \in Passkeys : owner'[p] = u
      BY <3>1 DEF Types, TypeOK
    <3> QED
      BY <3>1, <3>2, KeepsMoves
  <2>3. CASE IssueSession(s) \/ UpdateAccount(s) \/ AddPasskey(s)
    <3>1. Moves(s, IdleReq) /\ Accounts' = Accounts
      BY <2>3, IssueFacts, UpdateFacts, AddFacts
    <3>2. \A p \in Passkeys : owner[p] # NULL => owner'[p] = owner[p]
      BY <2>3, IssueFacts, UpdateFacts, AddFacts DEF Types, TypeOK
    <3>3. IdleReq.pc = "idle" /\ IdleReq.op = "none"
      BY DEF IdleReq
    <3> QED
      BY <3>1, <3>2, <3>3, KeepsMoves
  <2>4. CASE DeleteCredential(s)
    BY <2>4, KeepsDelete
  <2> QED
    BY <1>1, <2>1, <2>2, <2>3, <2>4 DEF Handle, Reads
<1>2. CASE UNCHANGED <<email, owner, req>>
  BY <1>2 DEF Keeps, KeepsOnePasskey, UserExists, PasskeysOf
<1> QED
  BY <1>1, <1>2 DEF Next, ChallengeExpires, SessionEnds, vars

LEMMA KeepsInit == Init => Keeps
  BY DEF Init, Keeps, KeepsOnePasskey, UserExists, IdleReq

-----------------------------------------------------------------------------

AuthInv == Types /\ Once /\ Proven

LEMMA AuthInvariant == Spec => []AuthInv
<1>1. Init => AuthInv
  BY TypesInit, OnceInit, ProvenInit DEF AuthInv
<1>2. AuthInv /\ [Next]_vars => AuthInv'
  BY TypesNext, OnceNext, ProvenNext DEF AuthInv
<1> QED
  BY <1>1, <1>2, PTL DEF Spec

\* Every row and request has its type, for any users and any number of
\* requests served side by side.
THEOREM AuthTypes == Spec => []TypeOK
<1>1. AuthInv => TypeOK
  BY DEF AuthInv, Types
<1> QED
  BY <1>1, AuthInvariant, PTL

\* pop_challenge.sql, "single use": a challenge completes one ceremony, and
\* only the sign-in that ends a registration shares its challenge.
THEOREM ChallengesAreSingleUse == Spec => []ChallengeUsedOnce
<1>1. AuthInv => ChallengeUsedOnce
  BY DEF AuthInv, Once
<1> QED
  BY <1>1, AuthInvariant, PTL

\* finish_registration and finish_add_passkey: a passkey is its owner's by a
\* ceremony of that very user, and no second registration takes an account.
THEOREM PasskeysStayOwners == Spec => []PasskeysAreOwners
<1>1. AuthInv => PasskeysAreOwners
  BY DEF AuthInv, Proven
<1> QED
  BY <1>1, AuthInvariant, PTL

\* finish_login: a session belongs to the user the passkey shown was
\* registered to.
THEOREM SessionsStayProven == Spec => []SessionsAreProven
<1>1. AuthInv => SessionsAreProven
  BY DEF AuthInv, Proven
<1> QED
  BY <1>1, AuthInvariant, PTL

\* delete_credential.sql keeps a user's last passkey as long as the user sends
\* one delete at a time: another passkey it counted is still there as the row
\* goes.
THEOREM LastPasskeyStays ==
  ASSUME SerialDeletes
  PROVE  Spec => []KeepsOnePasskey
<1>1. Init => Types /\ Keeps
  BY TypesInit, KeepsInit
<1>2. Types /\ Keeps /\ [Next]_vars => (Types /\ Keeps)'
  BY TypesNext, KeepsNext
<1>3. Types /\ Keeps => KeepsOnePasskey
  BY DEF Keeps
<1> QED
  BY <1>1, <1>2, <1>3, PTL DEF Spec
===============================================================================
