--------------------------- MODULE PublisherProofs ---------------------------
(***************************************************************************)
(* What holds of Publisher for any number of calls and authors, any number *)
(* of attempts and any bound on the changes upstream, with every request   *)
(* refused, lost or carried out without an answer.                         *)
(***************************************************************************)
EXTENDS Publisher, TLAPS

(***************************************************************************)
(* The invariant: what a call has made when it stands at a request, which  *)
(* is all a call knows of GitHub, and what is there whatever became of the *)
(* call.                                                                   *)
(***************************************************************************)
Typed ==
    /\ pc \in [Calls -> DOMAIN After \cup Finished]
    /\ temporary \in [Calls -> BOOLEAN]
    /\ since \in [Calls -> 1 .. MaxHead] /\ base \in [Calls -> 1 .. MaxHead]
    /\ try \in [Calls -> 0 .. Tries - 1]
    /\ confirmed \in [Calls -> BOOLEAN] /\ linked \in [Calls -> BOOLEAN]
    /\ head \in 1 .. MaxHead /\ fork \in {"absent", "creating", "ready"}
    /\ made \in [Calls -> Objects]

WithBranch == {"release", "asset", "manifest", "pull", "published"}
WithRelease == WithBranch \ {"release"}
WithAsset == WithRelease \ {"asset"}
WithManifest == WithAsset \ {"manifest"}

\* What one call has made, m, where it stands, p, and what it has been told, yes.
MadeInOrder(m, p, yes) ==
    /\ p \in WithBranch => m.branch # 0
    /\ p \in WithRelease => m.release
    /\ p \in WithAsset => m.asset /\ yes
    /\ p \in WithManifest => m.manifest
    /\ p = "published" => m.pull
    /\ yes => m.asset
    /\ m.asset => m.release
    /\ m.release => m.branch # 0
    /\ m.manifest => m.asset /\ yes
    /\ m.pull => m.manifest

InOrder == \A c \in Calls : MadeInOrder(made[c], pc[c], confirmed[c])

BasedOnUpstream ==
    \A c \in Calls :
        /\ since[c] =< head /\ base[c] =< head
        /\ pc[c] = "branch" => since[c] =< base[c]
        /\ made[c].branch # 0 => since[c] =< made[c].branch /\ made[c].branch =< head
        /\ pc[c] = "idle" => made[c].branch = 0

FailureTold == \A c \in Calls : pc[c] = "failed" => linked[c] = confirmed[c]

TemporaryIsRemoved == \A c \in Calls : temporary[c] <=> Running(c)

Inv == Typed /\ InOrder /\ BasedOnUpstream /\ FailureTold /\ TemporaryIsRemoved

LEMMA AfterValues ==
    /\ DOMAIN After = {"package", "user", "upstream", "fork", "base", "branch", "release",
                       "asset", "manifest", "pull"}
    /\ After["package"] = "user" /\ After["user"] = "upstream" /\ After["upstream"] = "fork"
    /\ After["fork"] = "base" /\ After["base"] = "branch" /\ After["branch"] = "release"
    /\ After["release"] = "asset" /\ After["asset"] = "manifest" /\ After["manifest"] = "pull"
    /\ After["pull"] = "published"
BY DEF After

LEMMA InitInv == Init => Inv
<1> SUFFICES ASSUME Init PROVE Inv
  OBVIOUS
<1> USE BoundsAssumption, AfterValues DEF Init, Nothing
<1>1. Nothing \in Objects /\ 1 \in 1 .. MaxHead /\ 0 \in 0 .. Tries - 1
  BY DEF Objects
<1>2. Typed
  BY <1>1 DEF Typed, Finished
<1>3. InOrder
  BY DEF InOrder, MadeInOrder, WithBranch, WithRelease, WithAsset, WithManifest
<1>4. BasedOnUpstream /\ FailureTold
  BY DEF BasedOnUpstream, FailureTold
<1>5. TemporaryIsRemoved
  BY DEF TemporaryIsRemoved, Running
<1> QED
  BY <1>2, <1>3, <1>4, <1>5 DEF Inv

(***************************************************************************)
(* A step of one call leaves what the others have made alone.              *)
(***************************************************************************)
LEMMA OneCallSteps ==
    ASSUME Inv, NEW c \in Calls,
           Typed', UNCHANGED head,
           \A d \in Calls : d # c => /\ pc'[d] = pc[d] /\ made'[d] = made[d]
                                     /\ confirmed'[d] = confirmed[d] /\ linked'[d] = linked[d]
                                     /\ since'[d] = since[d] /\ base'[d] = base[d]
                                     /\ temporary'[d] = temporary[d],
           MadeInOrder(made'[c], pc'[c], confirmed'[c]),
           since'[c] =< head /\ base'[c] =< head,
           pc'[c] = "branch" => since'[c] =< base'[c],
           made'[c].branch # 0 => since'[c] =< made'[c].branch /\ made'[c].branch =< head,
           pc'[c] # "idle",
           pc'[c] = "failed" => linked'[c] = confirmed'[c],
           temporary'[c] <=> pc'[c] \in DOMAIN After
    PROVE  Inv'
<1>1. InOrder'
  BY DEF Inv, InOrder
<1>2. BasedOnUpstream'
  BY DEF Inv, BasedOnUpstream
<1>3. FailureTold'
  BY DEF Inv, FailureTold
<1>4. TemporaryIsRemoved'
  BY DEF Inv, TemporaryIsRemoved, Running
<1> QED
  BY <1>1, <1>2, <1>3, <1>4 DEF Inv

\* Where the call stands, its temporary folder and its error after a request.
LEMMA GoOnStep ==
    ASSUME Typed, TemporaryIsRemoved, NEW c \in Calls, Running(c), GoOn(c)
    PROVE  /\ pc' \in [Calls -> DOMAIN After \cup Finished]
           /\ temporary' \in [Calls -> BOOLEAN] /\ linked' \in [Calls -> BOOLEAN]
           /\ \A d \in Calls : d # c => pc'[d] = pc[d] /\ temporary'[d] = temporary[d]
           /\ \A d \in Calls : linked'[d] = linked[d]
           /\ pc'[c] = Onward(c) /\ pc'[c] \notin {"idle", "failed"}
           /\ temporary'[c] <=> pc'[c] \in DOMAIN After
<1> USE AfterValues DEF Typed, GoOn, Running
<1>1. Onward(c) \in (DOMAIN After \cup {"published"}) /\ (Onward(c) = "published" <=> pc[c] = "pull")
  BY DEF Onward
<1>2. pc'[c] = Onward(c) /\ pc' \in [Calls -> DOMAIN After \cup Finished]
  BY <1>1 DEF Finished
<1>3. temporary[c]
  BY DEF TemporaryIsRemoved
<1>4. temporary'[c] <=> pc[c] # "pull"
  BY <1>3
<1>5. temporary' \in [Calls -> BOOLEAN]
  BY <1>3, <1>4
<1>6. temporary'[c] <=> pc'[c] \in DOMAIN After
  BY <1>1, <1>2, <1>4
<1> QED
  BY <1>1, <1>2, <1>5, <1>6

LEMMA GiveUpStep ==
    ASSUME Typed, NEW c \in Calls, GiveUp(c)
    PROVE  /\ pc' \in [Calls -> DOMAIN After \cup Finished]
           /\ temporary' \in [Calls -> BOOLEAN] /\ linked' \in [Calls -> BOOLEAN]
           /\ \A d \in Calls : d # c => /\ pc'[d] = pc[d] /\ temporary'[d] = temporary[d]
                                        /\ linked'[d] = linked[d]
           /\ pc'[c] = "failed" /\ linked'[c] = confirmed[c]
           /\ temporary'[c] <=> pc'[c] \in DOMAIN After
BY AfterValues DEF Typed, GiveUp, Links, Finished

(***************************************************************************)
(* One lemma per action, or per group of actions with one argument.        *)
(***************************************************************************)
LEMMA BeginInv ==
    ASSUME Inv, NEW c \in Calls, Begin(c)
    PROVE  Inv'
<1> USE AfterValues DEF Begin
<1>1. Typed'
  BY DEF Inv, Typed
<1>2. pc'[c] = "package" /\ since'[c] = head /\ base'[c] = base[c] /\ temporary'[c] = TRUE
  BY DEF Inv, Typed
<1>3. \A d \in Calls : d # c => /\ pc'[d] = pc[d] /\ since'[d] = since[d]
                                /\ temporary'[d] = temporary[d]
  BY DEF Inv, Typed
<1>4. MadeInOrder(made'[c], pc'[c], confirmed'[c])
  BY <1>2 DEF Inv, InOrder, MadeInOrder, WithBranch, WithRelease, WithAsset, WithManifest
<1>5. head =< head /\ base[c] =< head /\ made[c].branch = 0
  BY DEF Inv, Typed, BasedOnUpstream
<1> QED
  BY <1>1, <1>2, <1>3, <1>4, <1>5, OneCallSteps

\* Requests that make nothing under the call's own name.
LEMMA AskInv ==
    ASSUME Inv, NEW c \in Calls, Prepare(c) \/ FindFork(c) \/ ReadBase(c) \/ Refused(c)
    PROVE  Inv'
<1>1. (Running(c) /\ GoOn(c)) \/ GiveUp(c)
  BY AfterValues DEF Prepare, FindFork, ReadBase, Refused, Running
<1>2. UNCHANGED <<since, try, confirmed, head, made>> /\ fork' \in {"absent", "creating", "ready"}
  BY DEF Inv, Typed, Prepare, FindFork, ReadBase, Refused
<1>3. /\ base' \in [Calls -> 1 .. MaxHead] /\ base'[c] =< head
      /\ \A d \in Calls : d # c => base'[d] = base[d]
  BY DEF Inv, Typed, BasedOnUpstream, Prepare, FindFork, ReadBase, Refused, BaseOf
<1>4. Typed'
  BY <1>1, <1>2, <1>3, GoOnStep, GiveUpStep DEF Inv, Typed
<1>5. since[c] =< head /\ (made[c].branch # 0 => since[c] =< made[c].branch /\ made[c].branch =< head)
  BY DEF Inv, BasedOnUpstream
<1>6. CASE Running(c) /\ GoOn(c)
  <2>1. pc[c] \in {"package", "user", "upstream", "fork", "base"} \/ GiveUp(c)
    BY DEF Prepare, FindFork, ReadBase, Refused
  <2>2. CASE GiveUp(c)
    <3>1. MadeInOrder(made'[c], pc'[c], confirmed'[c])
      BY <1>2, <2>2, GiveUpStep
         DEF Inv, InOrder, MadeInOrder, WithBranch, WithRelease, WithAsset, WithManifest
    <3> QED
      BY <1>2, <1>3, <1>4, <1>5, <2>2, <3>1, GiveUpStep, OneCallSteps, AfterValues DEF Inv
  <2>3. CASE pc[c] \in {"package", "user", "upstream", "fork", "base"}
    <3>1. pc'[c] \in {"user", "upstream", "fork", "base", "branch"}
      BY <1>6, <2>3, GoOnStep, AfterValues DEF Onward, Inv
    <3>2. MadeInOrder(made'[c], pc'[c], confirmed'[c])
      BY <1>2, <3>1
         DEF Inv, InOrder, MadeInOrder, WithBranch, WithRelease, WithAsset, WithManifest
    <3>3. pc'[c] = "branch" => base'[c] = head \/ GiveUp(c)
      BY <1>6, <2>3, GoOnStep, AfterValues DEF Inv, Onward, Typed, Prepare, FindFork, ReadBase,
                                                   Refused, BaseOf
    <3>4. pc'[c] = "branch" => since'[c] =< base'[c]
      BY <1>2, <1>5, <3>3, GiveUpStep DEF Inv
    <3> QED
      BY <1>2, <1>3, <1>4, <1>5, <1>6, <3>1, <3>2, <3>4, GoOnStep, OneCallSteps DEF Inv
  <2> QED
    BY <2>1, <2>2, <2>3
<1>7. CASE GiveUp(c)
  <2>1. MadeInOrder(made'[c], pc'[c], confirmed'[c])
    BY <1>2, <1>7, GiveUpStep
       DEF Inv, InOrder, MadeInOrder, WithBranch, WithRelease, WithAsset, WithManifest
  <2> QED
    BY <1>2, <1>3, <1>4, <1>5, <1>7, <2>1, GiveUpStep, OneCallSteps, AfterValues DEF Inv
<1> QED
  BY <1>1, <1>6, <1>7

LEMMA BranchInv ==
    ASSUME Inv, NEW c \in Calls, MakeBranch(c)
    PROVE  Inv'
<1>1. Running(c) /\ pc[c] = "branch"
  BY AfterValues DEF MakeBranch, Running
<1>2. UNCHANGED <<since, base, try, confirmed, head, fork>>
  BY DEF MakeBranch
<1>3. /\ made' \in [Calls -> Objects]
      /\ \A d \in Calls : d # c => made'[d] = made[d]
      /\ made'[c] = [made[c] EXCEPT !.branch = base[c]]
      /\ made'[c].branch # 0 /\ made'[c].branch = base[c]
  BY DEF Inv, Typed, Objects, MakeBranch
<1>4. Typed'
  BY <1>1, <1>2, <1>3, GoOnStep, GiveUpStep DEF Inv, Typed, MakeBranch, Unheard
<1>5. since[c] =< base[c] /\ base[c] =< head /\ since[c] =< head
  BY <1>1 DEF Inv, BasedOnUpstream
<1>6. pc'[c] \in {"release", "failed"}
  BY <1>1, GoOnStep, GiveUpStep, AfterValues DEF Inv, MakeBranch, Unheard, Onward
<1>7. MadeInOrder(made'[c], pc'[c], confirmed'[c])
  BY <1>2, <1>3, <1>6 DEF Inv, Typed, Objects, InOrder, MadeInOrder, WithBranch, WithRelease,
                          WithAsset, WithManifest
<1>8. since'[c] =< made'[c].branch /\ made'[c].branch =< head /\ pc'[c] # "branch"
  BY <1>2, <1>3, <1>5, <1>6
<1>9. \A d \in Calls : d # c => made'[d] = made[d]
  BY <1>3
<1>10. CASE GoOn(c)
  BY <1>1, <1>2, <1>4, <1>5, <1>6, <1>7, <1>8, <1>9, <1>10, GoOnStep, OneCallSteps DEF Inv
<1>11. CASE GiveUp(c)
  BY <1>2, <1>4, <1>5, <1>6, <1>7, <1>8, <1>9, <1>11, GiveUpStep, OneCallSteps DEF Inv
<1> QED
  BY <1>10, <1>11 DEF MakeBranch, Unheard

LEMMA BranchNotYetInv ==
    ASSUME Inv, NEW c \in Calls, BranchNotYet(c)
    PROVE  Inv'
<1>1. Typed'
  <2>1. try[c] + 1 \in 0 .. Tries - 1 /\ try' = [try EXCEPT ![c] = try[c] + 1]
    BY BoundsAssumption DEF Inv, Typed, BranchNotYet, MayTryAgain
  <2> QED
    BY <2>1 DEF Inv, Typed, BranchNotYet
<1>2. InOrder' /\ BasedOnUpstream' /\ FailureTold' /\ TemporaryIsRemoved'
  BY DEF Inv, InOrder, MadeInOrder, BasedOnUpstream, FailureTold, TemporaryIsRemoved, Running,
         BranchNotYet
<1> QED
  BY <1>1, <1>2 DEF Inv

\* A request that makes one more object, after the ones it refers to.
LEMMA MakeInv ==
    ASSUME Inv, NEW c \in Calls, Make(c) \/ Upload(c)
    PROVE  Inv'
<1>1. Running(c) /\ pc[c] \in {"release", "asset", "manifest", "pull"}
  BY AfterValues DEF Make, Upload, Running
<1>2. UNCHANGED <<since, base, try, head, fork>>
  BY DEF Make, Upload
<1>3. /\ made' \in [Calls -> Objects] /\ confirmed' \in [Calls -> BOOLEAN]
      /\ \A d \in Calls : d # c => made'[d] = made[d] /\ confirmed'[d] = confirmed[d]
      /\ made'[c].branch = made[c].branch
  <2>1. confirmed' \in [Calls -> BOOLEAN] /\ \A d \in Calls : d # c => confirmed'[d] = confirmed[d]
    BY DEF Inv, Typed, Make, Upload
  <2>2. \/ made' = made
        \/ \E o \in {"release", "asset", "manifest", "pull"} : made' = [made EXCEPT ![c][o] = TRUE]
    BY DEF Make, Upload
  <2>3. ASSUME NEW o \in {"release", "asset", "manifest", "pull"}, made' = [made EXCEPT ![c][o] = TRUE]
        PROVE  /\ made' \in [Calls -> Objects] /\ made'[c].branch = made[c].branch
               /\ \A d \in Calls : d # c => made'[d] = made[d]
    <3>1. [made[c] EXCEPT ![o] = TRUE] \in Objects /\ [made[c] EXCEPT ![o] = TRUE].branch = made[c].branch
      BY <2>3 DEF Inv, Typed, Objects
    <3> QED
      BY <2>3, <3>1 DEF Inv, Typed
  <2> QED
    BY <2>1, <2>2, <2>3 DEF Inv, Typed
<1>4. Typed'
  BY <1>1, <1>2, <1>3, GoOnStep, GiveUpStep DEF Inv, Typed, Make, Upload, Unheard
<1>5. /\ since[c] =< head /\ base[c] =< head
      /\ made[c].branch # 0 => since[c] =< made[c].branch /\ made[c].branch =< head
  BY DEF Inv, BasedOnUpstream
<1>6. MadeInOrder(made[c], pc[c], confirmed[c])
  BY DEF Inv, InOrder
<1>7. CASE GoOn(c)
  <2>1. pc'[c] = After[pc[c]]
    BY <1>1, <1>7, GoOnStep DEF Inv, Onward
  <2>2. /\ made'[c] = [made[c] EXCEPT ![pc[c]] = TRUE]
        /\ confirmed'[c] = (confirmed[c] \/ pc[c] = "asset")
    <3>1. CASE pc[c] = "asset"
      <4>1. ~GiveUp(c)
        BY <1>1, <1>7, GoOnStep, GiveUpStep DEF Inv
      <4>2. /\ made' = [made EXCEPT ![c]["asset"] = TRUE]
            /\ confirmed' = [confirmed EXCEPT ![c] = TRUE]
        BY <3>1, <4>1 DEF Make, Upload, Unheard
      <4> QED
        BY <3>1, <4>2 DEF Inv, Typed
    <3>2. CASE pc[c] # "asset"
      BY <3>2 DEF Inv, Typed, Make, Upload
    <3> QED
      BY <3>1, <3>2
  <2>3. MadeInOrder(made'[c], pc'[c], confirmed'[c])
    <3>1. made[c] \in Objects
      BY DEF Inv, Typed
    <3> QED
      BY <1>1, <1>6, <2>1, <2>2, <3>1, AfterValues
         DEF Objects, MadeInOrder, WithBranch, WithRelease, WithAsset, WithManifest
  <2> QED
    BY <1>1, <1>2, <1>3, <1>4, <1>5, <1>7, <2>1, <2>3, GoOnStep, OneCallSteps, AfterValues DEF Inv
<1>8. CASE GiveUp(c)
  <2>1. pc'[c] = "failed" /\ confirmed' = confirmed
    BY <1>1, <1>8, GoOnStep, GiveUpStep DEF Inv, Make, Upload
  <2>2. MadeInOrder(made'[c], pc'[c], confirmed'[c])
    BY <1>1, <1>6, <1>8, <2>1
       DEF Make, Upload, Inv, Typed, Objects, MadeInOrder, WithBranch, WithRelease, WithAsset,
           WithManifest
  <2> QED
    BY <1>1, <1>2, <1>3, <1>4, <1>5, <1>8, <2>1, <2>2, GiveUpStep, OneCallSteps, AfterValues DEF Inv
<1> QED
  BY <1>7, <1>8 DEF Make, Upload, Unheard

LEMMA OutsideInv ==
    ASSUME Inv, ForkReady \/ Merge
    PROVE  Inv'
<1> USE BoundsAssumption DEF Inv, ForkReady, Merge
<1>1. Typed'
  BY DEF Typed
<1>2. head =< head' /\ head' \in Nat
  BY DEF Typed
<1>3. BasedOnUpstream'
  BY <1>2 DEF Typed, Objects, BasedOnUpstream
<1>4. InOrder' /\ FailureTold' /\ TemporaryIsRemoved'
  BY DEF InOrder, MadeInOrder, FailureTold, TemporaryIsRemoved, Running
<1> QED
  BY <1>1, <1>3, <1>4

LEMMA NextInv == Inv /\ [Next]_vars => Inv'
<1> SUFFICES ASSUME Inv, [Next]_vars PROVE Inv'
  OBVIOUS
<1>1. CASE UNCHANGED vars
  BY <1>1 DEF vars, Inv, Typed, InOrder, MadeInOrder, BasedOnUpstream, FailureTold,
              TemporaryIsRemoved, Running
<1>2. CASE Next
  BY <1>2, BeginInv, AskInv, BranchInv, BranchNotYetInv, MakeInv, OutsideInv DEF Next, Step
<1> QED
  BY <1>1, <1>2

\* The invariant that carries the theorems below.
THEOREM InvCorrect == Spec => []Inv
BY InitInv, NextInv, PTL DEF Spec

\* Every variable keeps its type; a call that has ended has removed its temporary folder.
THEOREM TypeCorrect == Spec => []TypeOK
<1>1. Inv => TypeOK
  BY DEF Inv, Typed, TemporaryIsRemoved, TypeOK
<1> QED
  BY <1>1, InvCorrect, PTL

\* A pull request asks for the review of something that is there.
THEOREM PullIsCompleteCorrect == Spec => []PullIsComplete
<1>1. Inv => PullIsComplete
  BY DEF Inv, InOrder, MadeInOrder, PullIsComplete
<1> QED
  BY <1>1, InvCorrect, PTL

\* Every branch starts from a state that upstream had while the call ran.
THEOREM StartsFromUpstreamCorrect == Spec => []StartsFromUpstream
<1>1. Inv => StartsFromUpstream
  BY DEF Inv, BasedOnUpstream, StartsFromUpstream
<1> QED
  BY <1>1, InvCorrect, PTL

\* A failure after a confirmed upload links the release, and no link leads nowhere.
THEOREM ReleaseIsLinkedCorrect == Spec => []ReleaseIsLinked
<1>1. Inv => ReleaseIsLinked
  BY DEF Inv, InOrder, MadeInOrder, FailureTold, ReleaseIsLinked
<1> QED
  BY <1>1, InvCorrect, PTL
=============================================================================
