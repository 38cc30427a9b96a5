---------------------------- MODULE AccountsProofs ----------------------------
(***************************************************************************)
(* What holds of Accounts for any number of signups, logins and addresses, *)
(* with failing saves and a restart between any two steps.                 *)
(***************************************************************************)
EXTENDS Accounts, TLAPS

(***************************************************************************)
(* The invariant: a signup under the lock has found its address free, and  *)
(* memory and disk differ at most by the account that is being saved.      *)
(***************************************************************************)
Registering == {"writing", "moving", "saved"}

Typed ==
    /\ users \in SUBSET Signups
    /\ file \in Files /\ tmp \in Files
    /\ email \in [Requests -> Emails]
    /\ found \in [Requests -> SUBSET Signups]
    /\ sessions \in SUBSET Requests /\ owner \in [Requests -> SUBSET Signups]
    /\ expired \in SUBSET Requests

\* The holder of the lock is inside, only signups are, and only logins compare passwords.
Inside ==
    /\ lock \in Requests \cup {Nobody}
    /\ pc \in [Requests -> Positions]
    /\ \A r \in Requests : pc[r] \in Holding <=> lock = r
    /\ \A r \in Requests : pc[r] \in Holding => r \in Signups
    /\ \A r \in Requests : pc[r] = "hashing" => r \in Logins

AddressIsFree ==
    \A r \in Signups : pc[r] \in Registering => \A a \in users : email[a] # email[r]

ListsAgree ==
    /\ file.whole
    /\ users \subseteq file.list
    /\ \A a \in file.list : a \in users \/ pc[a] = "saved"
    /\ \A r \in Signups : pc[r] = "saved" => r \in file.list
    /\ \A r \in Signups : pc[r] = "moving" => tmp.whole /\ tmp.list = users \cup {r}

ListedHaveSignedUp ==
    /\ \A r \in Signups : pc[r] = "ok" => r \in users
    /\ \A a \in users : pc[a] \in {"ok", "lost"}

SessionsHaveOwners ==
    /\ \A r \in Requests : found[r] \subseteq users
    /\ \A s \in sessions : owner[s] # {} /\ owner[s] \subseteq users

UniqueInMemory == \A a, b \in users : email[a] = email[b] => a = b

Inv == /\ Typed /\ Inside
       /\ AddressIsFree /\ ListsAgree /\ ListedHaveSignedUp /\ SessionsHaveOwners /\ UniqueInMemory

LEMMA InitInv == Init => Inv
<1> SUFFICES ASSUME Init PROVE Inv
  OBVIOUS
<1> USE DEF Init
<1>1. Typed
  BY DEF Typed, Files
<1>2. \A r \in Requests : pc[r] = "idle" /\ lock # r
  BY RequestsAssumption DEF Requests
<1>3. Inside
  BY <1>2 DEF Inside, Positions, Holding
<1>4. AddressIsFree /\ ListedHaveSignedUp /\ SessionsHaveOwners /\ UniqueInMemory
  BY <1>2 DEF AddressIsFree, Registering, ListedHaveSignedUp, SessionsHaveOwners,
              UniqueInMemory, Requests
<1>5. ListsAgree
  BY <1>2 DEF ListsAgree, Requests
<1> QED
  BY <1>1, <1>3, <1>4, <1>5 DEF Inv

\* Only the request that holds the lock is inside.
LEMMA Alone ==
    ASSUME Inside, NEW r \in Requests, NEW s \in Requests, pc[r] \in Holding, pc[s] \in Holding
    PROVE  r = s
BY DEF Inside

\* A request moves on: into the lock if it is free, inside it, or out of it.
LEMMA OneMoves ==
    ASSUME Inside, NEW r \in Requests, NEW p \in Positions, pc' = [pc EXCEPT ![r] = p],
           p \in Holding => r \in Signups /\ lock' = r /\ lock \in {r, Nobody},
           p \notin Holding => IF pc[r] \in Holding THEN lock' = Nobody ELSE lock' = lock,
           p = "hashing" => r \in Logins
    PROVE  Inside'
<1>1. \A s \in Requests : s # Nobody
  BY RequestsAssumption DEF Requests
<1>2. \A s \in Requests : pc'[s] = IF s = r THEN p ELSE pc[s]
  BY DEF Inside
<1>3. pc' \in [Requests -> Positions]
  BY DEF Inside
<1>4. lock' \in Requests \cup {Nobody}
  BY DEF Inside
<1>5. ASSUME NEW s \in Requests PROVE pc'[s] \in Holding <=> lock' = s
  <2>1. CASE s = r
    BY <1>1, <1>2, <2>1 DEF Inside
  <2>2. CASE s # r
    <3>1. pc'[s] = pc[s] /\ (pc[s] \in Holding <=> lock = s)
      BY <1>2, <2>2 DEF Inside
    <3>2. lock' = s <=> lock = s
      BY <1>1, <2>2 DEF Inside
    <3> QED
      BY <3>1, <3>2
  <2> QED
    BY <2>1, <2>2
<1>6. \A s \in Requests : pc'[s] \in Holding => s \in Signups
  BY <1>2 DEF Inside
<1>7. \A s \in Requests : pc'[s] = "hashing" => s \in Logins
  BY <1>2 DEF Inside
<1> QED
  BY <1>3, <1>4, <1>5, <1>6, <1>7 DEF Inside

\* What leaves both lists, the sessions and the signups under way alone.
LEMMA QuietStep ==
    ASSUME Inv, Typed', Inside', UNCHANGED <<users, file, email, owner>>,
           sessions' \subseteq sessions,
           \A r \in Requests : found'[r] \subseteq users,
           \A r \in Signups : pc'[r] # pc[r] =>
               /\ pc'[r] \notin {"moving", "saved", "ok"} /\ pc[r] \notin {"saved", "ok", "lost"}
               /\ pc'[r] = "writing" => \A a \in users : email[a] # email[r],
           \A r \in Signups : pc'[r] = "moving" => tmp' = tmp
    PROVE  Inv'
<1>1. AddressIsFree'
  BY DEF Inv, AddressIsFree, Registering
<1>2. ListsAgree'
  BY DEF Inv, Typed, Files, ListsAgree
<1>3. ListedHaveSignedUp'
  BY DEF Inv, Typed, ListedHaveSignedUp
<1>4. SessionsHaveOwners' /\ UniqueInMemory'
  BY DEF Inv, SessionsHaveOwners, UniqueInMemory
<1> QED
  BY <1>1, <1>2, <1>3, <1>4 DEF Inv

(***************************************************************************)
(* One lemma per action, or per group of actions with one argument.        *)
(***************************************************************************)
LEMMA BeginInv ==
    ASSUME Inv, NEW r \in Requests, Begin(r) \/ TakeLock(r)
    PROVE  Inv'
<1> USE DEF Inv, Begin, TakeLock, LockIsFree
<1>1. Typed'
  BY DEF Typed
<1>2. PICK p \in {"waiting", "checking"} : pc' = [pc EXCEPT ![r] = p]
  OBVIOUS
<1>3. Inside'
  BY <1>2, OneMoves DEF Positions, Holding, Final
<1>4. \A s \in Requests : pc'[s] = IF s = r THEN p ELSE pc[s]
  BY <1>2 DEF Inside
<1>5. \A s \in Requests : s = r => pc[s] \in {"idle", "waiting"}
  OBVIOUS
<1> QED
  BY <1>1, <1>2, <1>3, <1>4, <1>5, QuietStep DEF SessionsHaveOwners, Requests

LEMMA CheckEmailInv ==
    ASSUME Inv, NEW r \in Requests, CheckEmail(r)
    PROVE  Inv'
<1> USE DEF Inv, CheckEmail
<1>1. Typed'
  BY DEF Typed
<1>2. lock = r /\ r \in Signups
  BY DEF Inside, Holding
<1>3. PICK p \in {"conflict", "writing"} : pc' = [pc EXCEPT ![r] = p]
  OBVIOUS
<1>4. \A s \in Requests : pc'[s] = IF s = r THEN p ELSE pc[s]
  BY <1>3 DEF Inside
<1>5. p = "writing" => lock' = lock /\ \A a \in users : email[a] # email[r]
  <2>1. CASE \E a \in users : email[a] = email[r]
    <3>1. pc'[r] = "conflict"
      BY <2>1 DEF Inside
    <3> QED
      BY <1>4, <3>1
  <2> QED
    BY <2>1
<1>6. p = "conflict" => lock' = Nobody
  <2>1. CASE ~\E a \in users : email[a] = email[r]
    <3>1. pc'[r] = "writing"
      BY <2>1 DEF Inside
    <3> QED
      BY <1>4, <3>1
  <2> QED
    BY <2>1
<1>7. Inside'
  BY <1>2, <1>3, <1>5, <1>6, OneMoves DEF Positions, Holding, Final
<1> QED
  BY <1>1, <1>4, <1>5, <1>7, QuietStep DEF SessionsHaveOwners, Requests

\* users.json.tmp is written by the holder of the lock only.
LEMMA TmpInv ==
    ASSUME Inv, NEW r \in Signups, EmptyTmp(r)
    PROVE  Inv'
<1> USE DEF Inv, EmptyTmp
<1>1. tmp' \in Files
  BY DEF Typed, Files
<1>2. Typed' /\ Inside'
  BY <1>1 DEF Typed, Inside
<1>3. \A s \in Signups : pc[s] # "moving"
  BY Alone DEF Holding, Requests
<1> QED
  BY <1>2, <1>3, QuietStep DEF SessionsHaveOwners

LEMMA WriteTmpInv ==
    ASSUME Inv, NEW r \in Signups, WriteTmp(r)
    PROVE  Inv'
<1> USE DEF Inv, WriteTmp
<1>1. r \in Requests /\ lock = r
  BY DEF Inside, Requests, Holding
<1>2. Typed'
  BY DEF Typed, Files
<1>3. Inside'
  BY <1>1, OneMoves DEF Positions, Holding
<1>4. \A s \in Signups : IF s = r THEN pc'[s] = "moving" ELSE pc'[s] = pc[s] /\ pc[s] \notin Holding
  BY <1>1, Alone DEF Inside, Holding, Requests
<1>5. AddressIsFree'
  BY <1>4 DEF AddressIsFree, Registering
<1>6. tmp'.whole /\ tmp'.list = users \cup {r}
  OBVIOUS
<1>7. ListsAgree'
  BY <1>4, <1>6 DEF ListsAgree, Holding, Typed, Files
<1>8. ListedHaveSignedUp' /\ SessionsHaveOwners' /\ UniqueInMemory'
  BY <1>4 DEF ListedHaveSignedUp, SessionsHaveOwners, UniqueInMemory, Typed
<1> QED
  BY <1>2, <1>3, <1>5, <1>7, <1>8

LEMMA MoveTmpInv ==
    ASSUME Inv, NEW r \in Signups, MoveTmp(r)
    PROVE  Inv'
<1> USE DEF Inv, MoveTmp
<1>1. r \in Requests /\ lock = r
  BY DEF Inside, Requests, Holding
<1>2. Typed'
  BY DEF Typed, Files
<1>3. Inside'
  BY <1>1, OneMoves DEF Positions, Holding
<1>4. \A s \in Signups : IF s = r THEN pc'[s] = "saved" ELSE pc'[s] = pc[s] /\ pc[s] \notin Holding
  BY <1>1, Alone DEF Inside, Holding, Requests
<1>5. AddressIsFree'
  BY <1>4 DEF AddressIsFree, Registering
<1>6. file'.whole /\ file'.list = users \cup {r}
  BY DEF ListsAgree
<1>7. ListsAgree'
  BY <1>4, <1>6 DEF ListsAgree, Holding, Typed
<1>8. ListedHaveSignedUp' /\ SessionsHaveOwners' /\ UniqueInMemory'
  BY <1>4 DEF ListedHaveSignedUp, SessionsHaveOwners, UniqueInMemory, Typed
<1> QED
  BY <1>2, <1>3, <1>5, <1>7, <1>8

\* The account joins the list of accounts; its address was free, and is now taken.
LEMMA FinishSignupInv ==
    ASSUME Inv, NEW r \in Signups, FinishSignup(r)
    PROVE  Inv'
<1> USE DEF Inv, FinishSignup, SetSession, Opened
<1>1. r \in Requests /\ lock = r
  BY DEF Inside, Requests, Holding
<1>2. Typed'
  BY <1>1 DEF Typed
<1>3. Inside'
  BY <1>1, OneMoves DEF Positions, Holding, Final
<1>4. \A s \in Signups : IF s = r THEN pc'[s] = "ok" ELSE pc'[s] = pc[s] /\ pc[s] \notin Holding
  BY <1>1, Alone DEF Inside, Holding, Requests
<1>5. AddressIsFree'
  BY <1>4 DEF AddressIsFree, Registering, Holding
<1>6. ListsAgree'
  BY <1>4 DEF ListsAgree, Holding, Typed, Files
<1>7. ListedHaveSignedUp'
  BY <1>4 DEF ListedHaveSignedUp, Typed
<1>8. SessionsHaveOwners'
  BY <1>1 DEF SessionsHaveOwners, Typed
<1>9. UniqueInMemory'
  BY DEF UniqueInMemory, AddressIsFree, Registering
<1> QED
  BY <1>2, <1>3, <1>5, <1>6, <1>7, <1>8, <1>9

\* A save that fails leaves the lists as they were; what is in users.json.tmp is not looked at.
LEMMA SaveFailsInv ==
    ASSUME Inv, NEW r \in Requests, SaveFails(r)
    PROVE  Inv'
<1> USE DEF Inv, SaveFails, ReleasedLock
<1>1. Typed'
  BY DEF Typed
<1>2. Inside'
  BY OneMoves DEF Positions, Holding, Final
<1>3. \A s \in Requests : IF s = r THEN pc'[s] = "error" ELSE pc'[s] = pc[s]
  BY DEF Inside
<1> QED
  BY <1>1, <1>2, <1>3, QuietStep DEF SessionsHaveOwners, Requests

LEMMA LoginInv ==
    ASSUME Inv, NEW r \in Logins, FindAccount(r) \/ RefuseLogin(r)
    PROVE  Inv'
<1> USE DEF Inv, FindAccount, RefuseLogin
<1>1. r \in Requests /\ r \notin Signups
  BY RequestsAssumption DEF Requests
<1>2. Typed'
  BY <1>1 DEF Typed
<1>3. PICK p \in {"hashing", "refused"} : pc' = [pc EXCEPT ![r] = p]
  OBVIOUS
<1>4. Inside'
  BY <1>1, <1>3, OneMoves DEF Positions, Holding, Final
<1>5. \A s \in Requests : found'[s] \subseteq users
  BY <1>1 DEF Typed, SessionsHaveOwners
<1>6. \A s \in Signups : pc'[s] = pc[s]
  BY <1>1, <1>3 DEF Inside, Requests
<1> QED
  BY <1>2, <1>4, <1>5, <1>6, QuietStep

LEMMA AcceptLoginInv ==
    ASSUME Inv, NEW r \in Logins, AcceptLogin(r)
    PROVE  Inv'
<1> USE DEF Inv, AcceptLogin, SetSession, Opened
<1>1. r \in Requests /\ r \notin Signups
  BY RequestsAssumption DEF Requests
<1>2. PICK a \in found[r] : SetSession(r, a)
  OBVIOUS
<1>3. a \in users
  BY <1>1, <1>2 DEF SessionsHaveOwners
<1>4. Typed'
  BY <1>1, <1>2, <1>3 DEF Typed
<1>5. Inside'
  BY <1>1, OneMoves DEF Positions, Holding, Final
<1>6. \A s \in Signups : pc'[s] = pc[s]
  BY <1>1 DEF Inside, Requests
<1>7. AddressIsFree' /\ UniqueInMemory'
  BY <1>6 DEF AddressIsFree, UniqueInMemory
<1>8. ListsAgree' /\ ListedHaveSignedUp'
  BY <1>6 DEF ListsAgree, ListedHaveSignedUp, Typed, Files
<1>9. SessionsHaveOwners'
  BY <1>1, <1>2, <1>3 DEF SessionsHaveOwners, Typed
<1> QED
  BY <1>4, <1>5, <1>7, <1>8, <1>9

LEMMA SessionInv ==
    ASSUME Inv, NEW r \in Requests, Me(r) \/ Logout(r) \/ SevenDaysPass(r)
    PROVE  Inv'
<1> USE DEF Inv, Me, Logout, SevenDaysPass
<1>1. UNCHANGED <<users, file, tmp, lock, pc, email, found, owner>> /\ sessions' \subseteq sessions
  OBVIOUS
<1>2. Typed'
  BY DEF Typed
<1>3. Inside'
  BY <1>1 DEF Inside
<1> QED
  BY <1>1, <1>2, <1>3, QuietStep DEF SessionsHaveOwners

\* The list that is read again is the one in memory, and perhaps the account being saved.
LEMMA RestartInv ==
    ASSUME Inv, Restart
    PROVE  Inv'
<1> USE DEF Inv, Restart, Reread
<1>1. \A r \in Requests : pc'[r] = IF Running(r) THEN "lost" ELSE pc[r]
  OBVIOUS
<1>2. Typed'
  BY DEF Typed, Files
<1>3. \A r \in Requests : pc'[r] \in Positions /\ pc'[r] \notin Holding \cup {"hashing"}
  BY <1>1 DEF Inside, Positions, Running, Holding, Final
<1>4. Inside'
  <2>1. pc' \in [Requests -> Positions]
    BY <1>3
  <2>2. \A r \in Requests : lock' # r
    BY RequestsAssumption DEF Requests
  <2> QED
    BY <1>3, <2>1, <2>2 DEF Inside
<1>5. \A a \in file.list : a \in Signups /\ (a \in users \/ pc[a] = "saved")
  BY DEF ListsAgree, Typed, Files
<1>6. \A a \in file.list : pc'[a] \in {"ok", "lost"}
  BY <1>1, <1>5 DEF ListedHaveSignedUp, Running, Holding, Requests
<1>7. AddressIsFree'
  BY <1>3 DEF AddressIsFree, Registering, Holding, Requests
<1>8. ListsAgree'
  BY <1>3 DEF ListsAgree, Holding, Requests
<1>9. ListedHaveSignedUp'
  BY <1>1, <1>6 DEF ListedHaveSignedUp, ListsAgree, Requests
<1>10. SessionsHaveOwners'
  BY DEF SessionsHaveOwners, ListsAgree
<1>11. UniqueInMemory'
  <2>1. \A a, b \in Signups : pc[a] = "saved" /\ pc[b] = "saved" => a = b
    BY Alone DEF Holding, Requests
  <2> QED
    BY <1>5, <2>1 DEF UniqueInMemory, AddressIsFree, Registering
<1> QED
  BY <1>2, <1>4, <1>7, <1>8, <1>9, <1>10, <1>11

\* The invariant that carries the theorems below.
THEOREM InvCorrect == Spec => []Inv
<1>1. Inv /\ UNCHANGED vars => Inv'
  BY DEF vars, Inv, Typed, Inside, AddressIsFree, ListsAgree, ListedHaveSignedUp,
         SessionsHaveOwners, UniqueInMemory
<1>2. Inv /\ Next => Inv'
  <2> SUFFICES ASSUME Inv, Next PROVE Inv'
    OBVIOUS
  <2>1. ASSUME NEW r \in Requests, Step(r) PROVE Inv'
    <3>1. CASE EmptyTmp(r) \/ WriteTmp(r) \/ MoveTmp(r) \/ FinishSignup(r)
      <4>1. r \in Signups
        BY <3>1 DEF Inv, Inside, EmptyTmp, WriteTmp, MoveTmp, FinishSignup, Holding
      <4> QED
        BY <3>1, <4>1, TmpInv, WriteTmpInv, MoveTmpInv, FinishSignupInv
    <3>2. CASE FindAccount(r) \/ RefuseLogin(r) \/ AcceptLogin(r)
      <4>1. r \in Logins
        BY <3>2 DEF Inv, Inside, FindAccount, RefuseLogin, AcceptLogin
      <4> QED
        BY <3>2, <4>1, LoginInv, AcceptLoginInv
    <3> QED
      BY <2>1, <3>1, <3>2, BeginInv, CheckEmailInv, SaveFailsInv DEF Step
  <2> QED
    BY <2>1, BeginInv, SessionInv, RestartInv DEF Next
<1> QED
  BY <1>1, <1>2, InitInv, PTL DEF Spec

\* Every variable keeps its type, and userLock is held exactly by the signup that is inside.
THEOREM TypeCorrect == Spec => []TypeOK
<1>1. Inv => TypeOK
  BY DEF Inv, Typed, Inside, TypeOK
<1> QED
  BY <1>1, InvCorrect, PTL

\* However many signups race for one address, at most one account has it, in memory and in
\* users.json.
THEOREM UniqueEmailCorrect == Spec => []UniqueEmail
<1>1. ASSUME Inv PROVE UniqueEmail
  <2>1. \A a \in users \cup file.list : a \in Signups /\ (a \in users \/ pc[a] = "saved")
    BY <1>1 DEF Inv, Typed, Files, ListsAgree
  <2>2. \A a, b \in Signups : pc[a] = "saved" /\ pc[b] = "saved" => a = b
    BY <1>1, Alone DEF Inv, Holding, Requests
  <2> QED
    BY <1>1, <2>1, <2>2 DEF Inv, UniqueInMemory, AddressIsFree, Registering, UniqueEmail
<1> QED
  BY <1>1, InvCorrect, PTL

\* The API may die at any moment: users.json is whole, and knows every account whose signup
\* was answered.
THEOREM AnsweredIsDurableCorrect == Spec => []AnsweredIsDurable
<1>1. Inv => AnsweredIsDurable
  BY DEF Inv, ListsAgree, ListedHaveSignedUp, AnsweredIsDurable
<1> QED
  BY <1>1, InvCorrect, PTL

\* A refused or failed signup leaves no account, and no session is open for an account that
\* is not on disk.
THEOREM RefusedLeavesNothingCorrect == Spec => []RefusedLeavesNothing
<1>1. Inv => RefusedLeavesNothing
  BY DEF Inv, Typed, ListsAgree, ListedHaveSignedUp, SessionsHaveOwners, RefusedLeavesNothing
<1> QED
  BY <1>1, InvCorrect, PTL
=============================================================================
