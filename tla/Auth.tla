--------------------------------- MODULE Auth ---------------------------------
(***************************************************************************)
(* Passkey accounts: backend/app/auth (router.py, service.py, ceremony.py, *)
(* sessions.py and the statements under sql/).  A begin request stores a   *)
(* challenge; the finish request pops it and only then verifies and        *)
(* writes.  Handlers await Postgres between statements, so each statement  *)
(* is an action, except DELETE ... AND (SELECT count) > 1, which reads its *)
(* snapshot before it removes the row and is two.  What WebAuthn verifies  *)
(* is abstracted to success or failure.                                    *)
(***************************************************************************)
EXTENDS Integers, FiniteSets

CONSTANTS
  Users,          \* ids of users rows
  Emails,         \* normalised email addresses
  Passkeys,       \* authenticator credential ids
  Challenges,     \* ids of webauthn_challenges rows
  Tokens,         \* session tokens
  Slots,          \* requests the gateway serves side by side
  SerialDeletes,  \* a user sends one delete of a passkey at a time
  NULL            \* SQL NULL

ASSUME NullAssumption == NULL \notin Users \cup Emails \cup Passkeys \cup Tokens
                                       \cup Challenges
ASSUME PasskeysAssumption == IsFiniteSet(Passkeys)
ASSUME FlagAssumption == SerialDeletes \in BOOLEAN

VARIABLES
  email,      \* the users table: the email per id, NULL where there is no row
  owner,      \* webauthn_credentials: the user of a passkey, NULL if none
  challenge,  \* webauthn_challenges, and what its rows said before they went
  session,    \* sessions: the user of a token, NULL if none
  issued,     \* tokens ever issued
  req,        \* the requests being served
  log         \* history: the ceremonies that completed

vars == <<email, owner, challenge, session, issued, req, log>>

-----------------------------------------------------------------------------

\* email is set for a registration, user for an added passkey, neither for a
\* login.  A popped or expired row is gone.
NoChallenge == [state |-> "unused", email |-> NULL, user |-> NULL]

IdleReq == [pc |-> "idle", op |-> "none", user |-> NULL, email |-> NULL,
            c |-> NULL, passkey |-> NULL, count |-> 0]

UserExists(u) == email[u] # NULL
PasskeysOf(u) == {p \in Passkeys : owner[p] = u}
EmailTaken(m) == \E u \in Users : email[u] = m

Init ==
  /\ email = [u \in Users |-> NULL]
  /\ owner = [p \in Passkeys |-> NULL]
  /\ challenge = [c \in Challenges |-> NoChallenge]
  /\ session = [t \in Tokens |-> NULL]
  /\ issued = {}
  /\ req = [s \in Slots |-> IdleReq]
  /\ log = {}

\* The request of slot s is answered.
Answer(s) == req' = [req EXCEPT ![s] = IdleReq]

\* The request of slot s goes on to its next statement.
Continue(s, r) == req' = [req EXCEPT ![s] = r]

-----------------------------------------------------------------------------
(* Beginning a ceremony.                                                   *)

\* begin_registration: a taken email is a 409, otherwise store the challenge.
BeginRegistration(s) ==
  /\ req[s].pc = "idle"
  /\ \E m \in Emails :
       /\ ~EmailTaken(m)
       /\ Continue(s, [IdleReq EXCEPT !.pc = "store", !.op = "register",
                                      !.email = m])
  /\ UNCHANGED <<email, owner, challenge, session, issued, log>>

BeginLogin(s) ==
  /\ req[s].pc = "idle"
  /\ Continue(s, [IdleReq EXCEPT !.pc = "store", !.op = "login"])
  /\ UNCHANGED <<email, owner, challenge, session, issued, log>>

\* The statement that follows the session check of each signed-in request.
First == [begin_add |-> "store", add |-> "pop", delete |-> "count"]

\* current_user of a request that begins or finishes adding a passkey or
\* deletes one: resolve_session.sql, and a 401 if the token has no session.
ResolveSession(s) ==
  /\ req[s].pc = "idle"
  /\ \E t \in Tokens, op \in DOMAIN First :
       /\ session[t] # NULL
       /\ op = "delete" /\ SerialDeletes =>
            \A z \in Slots : req[z].op = "delete" => req[z].user # session[t]
       /\ Continue(s, [IdleReq EXCEPT !.pc = First[op], !.op = op,
                                      !.user = session[t]])
  /\ UNCHANGED <<email, owner, challenge, session, issued, log>>

\* current_user of PATCH /auth/me: an email the request leaves out is the one
\* just read, as it will be written back.
ResolveForUpdate(s) ==
  /\ req[s].pc = "idle"
  /\ \E t \in Tokens : /\ session[t] # NULL
                       /\ \E m \in Emails :
                            Continue(s, [IdleReq EXCEPT
                              !.pc = "update", !.op = "update",
                              !.user = session[t], !.email = m])
  /\ UNCHANGED <<email, owner, challenge, session, issued, log>>

\* store_challenge: the sweep of expired rows changes nothing a pop can see.
StoreChallenge(s) ==
  /\ req[s].pc = "store"
  /\ \E c \in Challenges :
       /\ challenge[c].state = "unused"
       /\ challenge' = [challenge EXCEPT ![c] =
                         [state |-> "live", email |-> req[s].email,
                          user |-> req[s].user]]
  /\ Answer(s)
  /\ UNCHANGED <<email, owner, session, issued, log>>

\* Five minutes pass.
ChallengeExpires(c) ==
  /\ challenge[c].state = "live"
  /\ challenge' = [challenge EXCEPT ![c].state = "gone"]
  /\ UNCHANGED <<email, owner, session, issued, req, log>>

-----------------------------------------------------------------------------
(* Finishing a ceremony.                                                   *)

\* The finish requests without a session: they start with the pop.
FinishWithoutSession(s) ==
  /\ req[s].pc = "idle"
  /\ \E op \in {"register", "login"} :
       Continue(s, [IdleReq EXCEPT !.pc = "pop", !.op = op])
  /\ UNCHANGED <<email, owner, challenge, session, issued, log>>

\* Mutant of PopChallenge: the row is read and left in place.
PopChallengeKept(s) ==
  /\ req[s].pc = "pop"
  /\ \E c \in Challenges :
       /\ challenge[c].state = "live"
       /\ Continue(s, [req[s] EXCEPT !.pc = "verify", !.c = c])
  /\ UNCHANGED <<email, owner, challenge, session, issued, log>>

\* pop_challenge.sql: DELETE ... RETURNING a row that has not expired.  The
\* context the begin request stored replaces what the browser might claim.
PopChallenge(s) ==
  /\ req[s].pc = "pop"
  /\ \E c \in Challenges :
       /\ challenge[c].state = "live"
       /\ challenge' = [challenge EXCEPT ![c].state = "gone"]
       /\ Continue(s, [req[s] EXCEPT !.pc = "verify", !.c = c])
  /\ UNCHANGED <<email, owner, session, issued, log>>

\* No such row, a response that does not verify, or any failing call.
RequestFails(s) ==
  /\ req[s].pc # "idle"
  /\ Answer(s)
  /\ UNCHANGED <<email, owner, challenge, session, issued, log>>

\* finish_registration: one transaction inserts the user, unless the email was
\* taken meanwhile, and its passkey, unless that is registered already.
CreateAccount(s) ==
  /\ req[s].pc = "verify" /\ req[s].op = "register"
  /\ challenge[req[s].c].email # NULL
  /\ ~EmailTaken(challenge[req[s].c].email)
  /\ \E u \in Users, p \in Passkeys :
       /\ ~UserExists(u)
       /\ owner[p] = NULL
       /\ email' = [email EXCEPT ![u] = challenge[req[s].c].email]
       /\ owner' = [owner EXCEPT ![p] = u]
       /\ Continue(s, [req[s] EXCEPT !.pc = "issue", !.user = u,
                                     !.passkey = p])
       /\ log' = log \cup {[what |-> "register", c |-> req[s].c, user |-> u,
                            passkey |-> p, token |-> NULL]}
  /\ UNCHANGED <<challenge, session, issued>>

\* Mutant of LookUpPasskey: the user the browser names is signed in.
LookUpPasskeyClaimed(s) ==
  /\ req[s].pc = "verify" /\ req[s].op = "login"
  /\ \E p \in Passkeys, u \in Users :
       /\ owner[p] # NULL
       /\ UserExists(u)
       /\ Continue(s, [req[s] EXCEPT !.pc = "issue", !.user = u,
                                     !.passkey = p])
  /\ UNCHANGED <<email, owner, challenge, session, issued, log>>

\* Mutant of LookUpPasskey: no 401 for a passkey nobody registered.
LookUpPasskeyUnknown(s) ==
  /\ req[s].pc = "verify" /\ req[s].op = "login"
  /\ \E p \in Passkeys :
       Continue(s, [req[s] EXCEPT !.pc = "issue", !.user = owner[p],
                                  !.passkey = p])
  /\ UNCHANGED <<email, owner, challenge, session, issued, log>>

\* finish_login: credential_with_user.sql and the verification against it.
LookUpPasskey(s) ==
  /\ req[s].pc = "verify" /\ req[s].op = "login"
  /\ \E p \in Passkeys :
       /\ owner[p] # NULL
       /\ Continue(s, [req[s] EXCEPT !.pc = "issue", !.user = owner[p],
                                     !.passkey = p])
  /\ UNCHANGED <<email, owner, challenge, session, issued, log>>

\* issue_session, after a registration or a login.
IssueSession(s) ==
  /\ req[s].pc = "issue"
  /\ \E t \in Tokens \ issued :
       /\ session' = [session EXCEPT ![t] = req[s].user]
       /\ issued' = issued \cup {t}
       /\ log' = log \cup {[what |-> "login", c |-> req[s].c,
                            user |-> req[s].user, passkey |-> req[s].passkey,
                            token |-> t]}
  /\ Answer(s)
  /\ UNCHANGED <<email, owner, challenge>>

\* Mutant of AddPasskey: the ceremony may be another user's.
AddPasskeyAnyCeremony(s) ==
  /\ req[s].pc = "verify" /\ req[s].op = "add"
  /\ \E p \in Passkeys :
       /\ owner[p] = NULL
       /\ owner' = [owner EXCEPT ![p] = req[s].user]
       /\ log' = log \cup {[what |-> "add", c |-> req[s].c,
                            user |-> req[s].user, passkey |-> p,
                            token |-> NULL]}
  /\ Answer(s)
  /\ UNCHANGED <<email, challenge, session, issued>>

\* finish_add_passkey: only the user who began the ceremony may finish it.
AddPasskey(s) ==
  /\ req[s].pc = "verify" /\ req[s].op = "add"
  /\ challenge[req[s].c].user = req[s].user
  /\ \E p \in Passkeys :
       /\ owner[p] = NULL
       /\ owner' = [owner EXCEPT ![p] = req[s].user]
       /\ log' = log \cup {[what |-> "add", c |-> req[s].c,
                            user |-> req[s].user, passkey |-> p,
                            token |-> NULL]}
  /\ Answer(s)
  /\ UNCHANGED <<email, challenge, session, issued>>

-----------------------------------------------------------------------------
(* Sessions and the account.                                               *)

\* revoke_session by a logout, or the session's time is over.
SessionEnds(t) ==
  /\ session[t] # NULL
  /\ session' = [session EXCEPT ![t] = NULL]
  /\ UNCHANGED <<email, owner, challenge, issued, req, log>>

\* update_account.sql: an email of somebody else is a UniqueViolationError.
UpdateAccount(s) ==
  /\ req[s].pc = "update"
  /\ \A u \in Users : email[u] = req[s].email => u = req[s].user
  /\ email' = [email EXCEPT ![req[s].user] = req[s].email]
  /\ Answer(s)
  /\ UNCHANGED <<owner, challenge, session, issued, log>>

\* delete_credential.sql: the subquery counts in the statement's snapshot.
CountPasskeys(s) ==
  /\ req[s].pc = "count"
  /\ \E p \in PasskeysOf(req[s].user) :
       Continue(s, [req[s] EXCEPT !.pc = "delete", !.passkey = p,
                          !.count = Cardinality(PasskeysOf(req[s].user))])
  /\ UNCHANGED <<email, owner, challenge, session, issued, log>>

\* Mutant of DeleteCredential: the count is compared with >= 1.
DeleteCredentialLast(s) ==
  /\ req[s].pc = "delete"
  /\ req[s].count >= 1 /\ owner[req[s].passkey] = req[s].user
  /\ owner' = [owner EXCEPT ![req[s].passkey] = NULL]
  /\ Answer(s)
  /\ UNCHANGED <<email, challenge, session, issued, log>>

\* The row goes if it is still there and the count read was above one.
DeleteCredential(s) ==
  /\ req[s].pc = "delete"
  /\ req[s].count > 1 /\ owner[req[s].passkey] = req[s].user
  /\ owner' = [owner EXCEPT ![req[s].passkey] = NULL]
  /\ Answer(s)
  /\ UNCHANGED <<email, challenge, session, issued, log>>

-----------------------------------------------------------------------------

Handle(s) ==
  \/ BeginRegistration(s) \/ BeginLogin(s) \/ ResolveSession(s)
  \/ ResolveForUpdate(s)
  \/ StoreChallenge(s) \/ FinishWithoutSession(s) \/ PopChallenge(s)
  \/ CreateAccount(s) \/ LookUpPasskey(s) \/ IssueSession(s) \/ AddPasskey(s)
  \/ UpdateAccount(s) \/ CountPasskeys(s) \/ DeleteCredential(s)
  \/ RequestFails(s)

Next == \/ \E s \in Slots : Handle(s)
        \/ \E c \in Challenges : ChallengeExpires(c)
        \/ \E t \in Tokens : SessionEnds(t)

Spec == Init /\ [][Next]_vars

-----------------------------------------------------------------------------
(* Properties.                                                             *)

ReqRecords == [pc : {"idle", "store", "pop", "verify", "issue", "update",
                     "count", "delete"},
               op : {"none", "register", "login", "begin_add", "add", "update",
                     "delete"},
               user : Users \cup {NULL}, email : Emails \cup {NULL},
               c : Challenges \cup {NULL}, passkey : Passkeys \cup {NULL},
               count : Nat]

\* Every variable keeps its type.
TypeOK ==
  /\ email \in [Users -> Emails \cup {NULL}]
  /\ owner \in [Passkeys -> Users \cup {NULL}]
  /\ challenge \in [Challenges -> [state : {"unused", "live", "gone"},
                                   email : Emails \cup {NULL},
                                   user : Users \cup {NULL}]]
  /\ session \in [Tokens -> Users \cup {NULL}]
  /\ issued \subseteq Tokens
  /\ req \in [Slots -> ReqRecords]
  /\ log \subseteq [what : {"register", "login", "add"}, c : Challenges,
                    user : Users, passkey : Passkeys,
                    token : Tokens \cup {NULL}]

\* pop_challenge.sql, "single use": however finish requests are repeated or
\* overlap, a challenge creates one account, adds one passkey or signs in
\* once, and never two of these; a registration signs in as it ends.
ChallengeUsedOnce ==
  \A x, y \in log : x.c = y.c /\ x # y =>
    /\ {x.what, y.what} = {"register", "login"}
    /\ x.user = y.user /\ x.passkey = y.passkey

\* finish_registration and finish_add_passkey: every stored passkey came with
\* the ceremony that created the account, or one this very user began while
\* signed in; and an account is created once, never taken over by a second
\* registration for its email.
PasskeysAreOwners ==
  /\ \A p \in Passkeys : owner[p] # NULL =>
       \E x \in log :
         /\ x.passkey = p /\ x.user = owner[p]
         /\ \/ x.what = "register" /\ challenge[x.c].email # NULL
            \/ x.what = "add" /\ challenge[x.c].user = owner[p]
  /\ \A x, y \in log : x.what = "register" /\ y.what = "register"
                         /\ x.user = y.user => x = y

\* finish_login: a session belongs to the user of the passkey that was shown,
\* one that was registered to that user, whatever was deleted, re-registered
\* or signed out while the request was on its way.
SessionsAreProven ==
  \A t \in Tokens : session[t] # NULL =>
    \E x \in log : /\ x.token = t /\ x.user = session[t]
                   /\ \E y \in log : /\ y.what # "login"
                                     /\ y.passkey = x.passkey
                                     /\ y.user = x.user

\* delete_credential.sql, "only while it is not their last one ... atomic
\* against concurrent deletes": an account can always still be signed in to.
KeepsOnePasskey == \A u \in Users : UserExists(u) => PasskeysOf(u) # {}
=============================================================================
