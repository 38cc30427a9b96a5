------------------------------- MODULE Accounts -------------------------------
(***************************************************************************)
(* Accounts and sessions of services/Api/Program.cs: signup, login, logout *)
(* and /api/auth/me, run as concurrent requests that share the account     *)
(* list and its file under userLock, and the sessions without a lock.  The *)
(* API may die at any moment and start again from the file.  An account is *)
(* named by the signup that made it, and a session by the request that     *)
(* opened it: its token is random.                                         *)
(***************************************************************************)
CONSTANTS
    Emails,
    Signups, Logins,    \* requests to sign up and to log in; each is one call
    Nobody              \* the lock is free

ASSUME RequestsAssumption ==
    Signups \cap Logins = {} /\ Nobody \notin Signups \cup Logins

Requests == Signups \cup Logins

VARIABLES
    users,      \* the account list in memory
    file,       \* users.json
    tmp,        \* users.json.tmp
    lock,       \* who holds userLock
    pc,         \* where each request stands
    email,      \* the email each request carries
    found,      \* the account a login has found for its email, if any
    sessions,   \* the requests whose session is open
    owner,      \* the account each session was opened for, if it was
    expired     \* the sessions that are past their seven days

vars == <<users, file, tmp, lock, pc, email, found, sessions, owner, expired>>

\* A file holds a whole list of accounts, or is torn or missing.
Files == [list : SUBSET Signups, whole : BOOLEAN]

Final == {"ok", "conflict", "refused", "error", "lost"}
Holding == {"checking", "writing", "moving", "saved"}
Positions == {"idle", "waiting", "hashing"} \cup Holding \cup Final
Running(r) == pc[r] \in {"waiting", "hashing"} \cup Holding

-----------------------------------------------------------------------------
(***************************************************************************)
(* Faulty variants of operators below.                                     *)
(***************************************************************************)
\* Nobody waits for the lock.
LockNotNeeded == TRUE

\* The lock is released where the request succeeds, not in a finally block.
LockKept == lock

\* The new list is published before it is on disk.
CheckEmailAndPublish(r) ==
    /\ pc[r] = "checking"
    /\ IF \E a \in users : email[a] = email[r]
       THEN /\ pc' = [pc EXCEPT ![r] = "conflict"] /\ lock' = Nobody
            /\ UNCHANGED users
       ELSE pc' = [pc EXCEPT ![r] = "writing"] /\ users' = users \cup {r} /\ UNCHANGED lock
    /\ UNCHANGED <<file, tmp, email, found, sessions, owner, expired>>

\* users.json is written in place.
WriteInPlace(r) ==
    /\ pc[r] = "writing"
    /\ file' = [file EXCEPT !.whole = FALSE]
    /\ tmp' = [list |-> users \cup {r}, whole |-> TRUE]
    /\ pc' = [pc EXCEPT ![r] = "moving"]
    /\ UNCHANGED <<users, lock, email, found, sessions, owner, expired>>

-----------------------------------------------------------------------------
Init ==
    /\ users = {}
    /\ file = [list |-> {}, whole |-> TRUE] /\ tmp = [list |-> {}, whole |-> FALSE]
    /\ lock = Nobody
    /\ pc = [r \in Requests |-> "idle"]
    /\ email \in [Requests -> Emails]
    /\ found = [r \in Requests |-> {}]
    /\ sessions = {} /\ owner = [r \in Requests |-> {}]
    /\ expired = {}

\* The request has a valid form, and a signup has accepted the code of conduct.
Begin(r) ==
    /\ pc[r] = "idle"
    /\ pc' = [pc EXCEPT ![r] = "waiting"]
    /\ UNCHANGED <<users, file, tmp, lock, email, found, sessions, owner, expired>>

LockIsFree == lock = Nobody

TakeLock(r) ==
    /\ pc[r] = "waiting" /\ r \in Signups
    /\ LockIsFree
    /\ lock' = r
    /\ pc' = [pc EXCEPT ![r] = "checking"]
    /\ UNCHANGED <<users, file, tmp, email, found, sessions, owner, expired>>

\* The email is looked up, the password hashed and the new list made.
CheckEmail(r) ==
    /\ pc[r] = "checking"
    /\ IF \E a \in users : email[a] = email[r]
       THEN pc' = [pc EXCEPT ![r] = "conflict"] /\ lock' = Nobody
       ELSE pc' = [pc EXCEPT ![r] = "writing"] /\ UNCHANGED lock
    /\ UNCHANGED <<users, file, tmp, email, found, sessions, owner, expired>>

\* WriteAllTextAsync first empties the temporary file; it is whole when the await is over.
EmptyTmp(r) ==
    /\ pc[r] = "writing" /\ tmp.whole
    /\ tmp' = [tmp EXCEPT !.whole = FALSE]
    /\ UNCHANGED <<users, file, lock, pc, email, found, sessions, owner, expired>>

WriteTmp(r) ==
    /\ pc[r] = "writing" /\ ~tmp.whole
    /\ tmp' = [list |-> users \cup {r}, whole |-> TRUE]
    /\ pc' = [pc EXCEPT ![r] = "moving"]
    /\ UNCHANGED <<users, file, lock, email, found, sessions, owner, expired>>

\* File.Move replaces users.json in one step of the file system.
MoveTmp(r) ==
    /\ pc[r] = "moving"
    /\ file' = tmp
    /\ tmp' = [list |-> {}, whole |-> FALSE]
    /\ pc' = [pc EXCEPT ![r] = "saved"]
    /\ UNCHANGED <<users, lock, email, found, sessions, owner, expired>>

\* SetSession forgets the sessions that have expired and opens one under a new token.
Opened(r, a) == (sessions \ expired) \cup {r}

SetSession(r, a) ==
    /\ sessions' = Opened(r, a)
    /\ owner' = [owner EXCEPT ![r] = {a}]

\* The new list is published, the session opened, the lock released and the answer sent.
FinishSignup(r) ==
    /\ pc[r] = "saved"
    /\ users' = users \cup {r}
    /\ SetSession(r, r)
    /\ lock' = Nobody
    /\ pc' = [pc EXCEPT ![r] = "ok"]
    /\ UNCHANGED <<file, tmp, email, found, expired>>

\* The finally block.
ReleasedLock == Nobody

\* Writing or moving the file fails.
SaveFails(r) ==
    /\ pc[r] \in {"writing", "moving"}
    /\ lock' = ReleasedLock
    /\ pc' = [pc EXCEPT ![r] = "error"]
    /\ UNCHANGED <<users, file, tmp, email, found, sessions, owner, expired>>

\* A login holds the lock only while it looks its email up.
FindAccount(r) ==
    /\ pc[r] = "waiting" /\ r \in Logins
    /\ LockIsFree
    /\ found' = [found EXCEPT ![r] = {a \in users : email[a] = email[r]}]
    /\ pc' = [pc EXCEPT ![r] = "hashing"]
    /\ UNCHANGED <<users, file, tmp, lock, email, sessions, owner, expired>>

\* The password is hashed, with or without an account, and compared.
RefuseLogin(r) ==
    /\ pc[r] = "hashing"
    /\ pc' = [pc EXCEPT ![r] = "refused"]
    /\ UNCHANGED <<users, file, tmp, lock, email, found, sessions, owner, expired>>

AcceptLogin(r) ==
    /\ pc[r] = "hashing"
    /\ \E a \in found[r] : SetSession(r, a)
    /\ pc' = [pc EXCEPT ![r] = "ok"]
    /\ UNCHANGED <<users, file, tmp, lock, email, found, expired>>

\* /api/auth/me forgets the session it finds expired.
Me(r) ==
    /\ pc[r] = "ok" /\ r \in sessions \cap expired
    /\ sessions' = sessions \ {r}
    /\ UNCHANGED <<users, file, tmp, lock, pc, email, found, owner, expired>>

\* A client logs out with the token it was answered, open or not.
Logout(r) ==
    /\ pc[r] = "ok"
    /\ sessions' = sessions \ {r}
    /\ UNCHANGED <<users, file, tmp, lock, pc, email, found, owner, expired>>

SevenDaysPass(r) ==
    /\ r \in sessions \ expired
    /\ expired' = expired \cup {r}
    /\ UNCHANGED <<users, file, tmp, lock, pc, email, found, sessions, owner>>

\* The API dies and starts again: it reads users.json and knows no session.
Reread == file.list

Restart ==
    /\ file.whole
    /\ users' = Reread
    /\ sessions' = {}
    /\ lock' = Nobody
    /\ pc' = [r \in Requests |-> IF Running(r) THEN "lost" ELSE pc[r]]
    /\ UNCHANGED <<file, tmp, email, found, owner, expired>>

Step(r) ==
    \/ TakeLock(r) \/ CheckEmail(r) \/ EmptyTmp(r) \/ WriteTmp(r) \/ MoveTmp(r)
    \/ FinishSignup(r) \/ SaveFails(r)
    \/ FindAccount(r) \/ RefuseLogin(r) \/ AcceptLogin(r)

Next ==
    \/ \E r \in Requests : Begin(r) \/ Step(r) \/ Me(r) \/ Logout(r) \/ SevenDaysPass(r)
    \/ Restart

Spec == Init /\ [][Next]_vars

\* A running request goes on; the semaphore serves every waiter.
FairSpec == Spec /\ \A r \in Requests : WF_vars(Step(r))

-----------------------------------------------------------------------------
\* Every variable keeps its type, and the lock is held by the request that is inside.
TypeOK ==
    /\ users \in SUBSET Signups
    /\ file \in Files /\ tmp \in Files
    /\ lock \in Requests \cup {Nobody}
    /\ pc \in [Requests -> Positions]
    /\ \A r \in Requests : pc[r] \in Holding <=> lock = r
    /\ email \in [Requests -> Emails]
    /\ found \in [Requests -> SUBSET Signups]
    /\ sessions \in SUBSET Requests /\ owner \in [Requests -> SUBSET Signups]
    /\ expired \in SUBSET Requests

\* No two accounts have one email, in memory or on disk, however many signups race for it.
UniqueEmail ==
    \A a, b \in users \cup file.list : email[a] = email[b] => a = b

\* users.json is whole at every moment the API could die, and an account whose signup was
\* answered is in it and in the list that logins read, before and after any restart
\* (docs/OPERATIONS.md:21, "atomic account writes").
AnsweredIsDurable ==
    file.whole /\ \A r \in Signups : pc[r] = "ok" => r \in users \cap file.list

\* A signup that was refused or failed has left nothing behind, neither in memory nor on disk,
\* and what a failed save has left in users.json.tmp never comes back; a session is only ever
\* open for an account that is on disk.
RefusedLeavesNothing ==
    /\ \A r \in Signups : pc[r] \in {"conflict", "error"} => r \notin users \cup file.list
    /\ \A s \in sessions : owner[s] # {} /\ owner[s] \subseteq file.list

\* Every request is answered or lost in a crash: no error leaves the lock taken.
AllAnswered == \A r \in Requests : Running(r) ~> pc[r] \in Final
=============================================================================
