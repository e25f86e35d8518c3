------------------------- MODULE UserDeletionProofs -------------------------
(* Proofs about UserDeletion for any number of users, accounts, documents, *)
(* schools and concurrent deletions, and for any list of facades.          *)
EXTENDS UserDeletion, TLAPS

LEMMA NamesOK ==
    /\ Scopes \subseteq StepNames
    /\ \A s \in StepNames : OpsOf(s) \subseteq Ops
BY DEF Scopes, StepNames, OpsOf, Ops, PlainScopes

LEMMA ScopeOK ==
    ASSUME TypeOK, NEW t \in Tasks
    PROVE  Scope(t) \in StepNames
BY ConstantsAssumption DEF TypeOK, Scope

LEMMA RefsToOK ==
    ASSUME TypeOK, NEW s \in Scopes, NEW u \in Users
    PROVE  RefsTo(s, u) \subseteq Items
BY DEF RefsTo

LEMMA RemoveRefsOK ==
    ASSUME TypeOK, NEW s \in StepNames, NEW u \in Users, RemoveRefs(s, u)
    PROVE  refs' \in References
<1>1. Removed(s, u) \subseteq refs[s]
  BY DEF Removed, Scopes
<1> QED
  BY <1>1 DEF TypeOK, RemoveRefs, References

ElementType == [scope : StepNames \cup {None}, items : SUBSET Items]

LEMMA PushTypeOK ==
    ASSUME TypeOK, NEW t \in Tasks, NEW e \in ElementType, Push(t, e),
           NextStep(t),
           UNCHANGED <<target, snapUser, snapAccount, pending, moving, newTomb,
                       userVars, bins, newest, dataVars, disturbances>>
    PROVE  TypeOK'
<1>1. recorded' \in [Tasks -> SUBSET ElementType]
  <2>1. recorded \in [Tasks -> SUBSET ElementType]
    BY DEF TypeOK, ElementType
  <2>2. \A k \in Tasks : recorded[k] \cup {e} \in SUBSET ElementType
    BY <2>1
  <2> DEFINE n == newest[target[t]]
  <2>3. recorded' = [recorded EXCEPT ![n] = recorded[n] \cup {e}]
    BY DEF Push
  <2> HIDE DEF n
  <2> QED
    BY <2>1, <2>2, <2>3
<1>2. step' \in [Tasks -> 1..Len(StepList)]
  <2>1. Len(StepList) \in Nat
    BY ConstantsAssumption
  <2>2. step[t] \in 1..Len(StepList)
    BY DEF TypeOK
  <2>3. CASE step[t] < Len(StepList)
    <3>1. step[t] + 1 \in 1..Len(StepList)
      BY <2>1, <2>2, <2>3
    <3> QED
      BY <2>3, <3>1 DEF NextStep, TypeOK
  <2>4. CASE ~(step[t] < Len(StepList))
    BY <2>4 DEF NextStep, TypeOK
  <2> QED
    BY <2>3, <2>4
<1>3. pc' \in [Tasks -> {"check"} \cup Running \cup Ended]
  BY DEF NextStep, Goto, TypeOK, Running, Loop, Ended
<1>4. found' \in [Tasks -> SUBSET Items]
  BY DEF NextStep, TypeOK
<1> QED
  BY <1>1, <1>2, <1>3, <1>4 DEF TypeOK, userVars, dataVars, ElementType

LEMMA DisturbTypeOK ==
    ASSUME disturbances \in Seq(Disturbances), NEW kind, Disturb(kind)
    PROVE  disturbances' \in Seq(Disturbances)
BY DEF Disturb

LEMMA InitTypeOK == Init => TypeOK
BY ConstantsAssumption DEF Init, TypeOK, References, Running, Ended, BeforeTomb,
   AfterTomb, Loop, Ops

THEOREM NextTypeOK == TypeOK /\ [Next]_vars => TypeOK'
<1> SUFFICES ASSUME TypeOK, [Next]_vars
             PROVE  TypeOK'
  OBVIOUS
<1> USE DEF taskVars, userVars, binVars, dataVars, Goto, Disturb
<1>1. ASSUME NEW t \in Tasks, DeleteUser(t)
      PROVE  TypeOK'
  <2> USE ConstantsAssumption DEF TypeOK, Running, Ended, BeforeTomb, AfterTomb, Loop
  <2>1. CASE CheckPermissions(t) BY <2>1 DEF CheckPermissions
  <2>2. CASE GetUser(t) BY <2>2 DEF GetUser
  <2>3. CASE GetAccount(t)
    <3>1. snapAccount' \in [Tasks -> SUBSET Accounts]
      <4>1. CASE UNCHANGED snapAccount
        BY <4>1
      <4>2. ASSUME NEW a \in AccountsOf(target[t]),
                   snapAccount' = [snapAccount EXCEPT ![t] = {a}]
            PROVE  snapAccount' \in [Tasks -> SUBSET Accounts]
        <5>1. {a} \subseteq Accounts
          BY DEF AccountsOf
        <5> QED
          BY <4>2, <5>1
      <4> QED
        BY <2>3, <4>1, <4>2 DEF GetAccount
    <3> QED
      BY <2>3, <3>1 DEF GetAccount
  <2>4. CASE CreateUserTrashbin(t) BY <2>4 DEF CreateUserTrashbin
  <2>5. CASE ReplaceUserWithTombstone(t) BY <2>5 DEF ReplaceUserWithTombstone
  <2>6. CASE DeleteAccountForUserId(t) BY <2>6 DEF DeleteAccountForUserId
  <2>7. CASE DeleteRegistrationPins(t)
    <3>1. disturbances' \in Seq(Disturbances)
      BY <2>7, DisturbTypeOK DEF DeleteRegistrationPins
    <3> QED
      BY <2>7, <3>1 DEF DeleteRegistrationPins
  <2>8. CASE GetSchool(t) BY <2>8 DEF GetSchool
  <2>9. CASE CreateTombstoneUser(t) BY <2>9 DEF CreateTombstoneUser
  <2>10. CASE SetTombstoneUser(t) BY <2>10 DEF SetTombstoneUser
  <2> QED
    BY <1>1, <2>1, <2>2, <2>3, <2>4, <2>5, <2>6, <2>7, <2>8, <2>9, <2>10
    DEF DeleteUser
<1>2. ASSUME NEW t \in Tasks, DeleteUserRelatedData(t)
      PROVE  TypeOK'
  <2> USE DEF Running, Ended, BeforeTomb, AfterTomb, Loop
  <2>1. target[t] \in Users /\ Scope(t) \in StepNames
    BY ScopeOK DEF TypeOK
  <2>2. "files" \in Scopes /\ "filePermission" \in Scopes
        /\ PlainScopes \subseteq Scopes
    BY DEF Scopes
  <2>3. CASE FindRelated(t)
    BY <2>1, <2>2, <2>3, RefsToOK DEF FindRelated, TypeOK
  <2>4. CASE RemoveRelated(t)
    <3>1. refs' \in References
      BY <2>1, <2>4, RemoveRefsOK DEF RemoveRelated
    <3> QED
      BY <2>4, <3>1 DEF RemoveRelated, TypeOK
  <2>5. CASE StartPermissions(t)
    <3> DEFINE ops == OpsOf("filePermission")
    <3>1. \A k \in Tasks : pending[k] \cup ops \in SUBSET Ops
      BY <2>2, NamesOK DEF TypeOK
    <3>2. pending' = [pending EXCEPT ![t] = pending[t] \cup ops]
      BY <2>5 DEF StartPermissions
    <3> HIDE DEF ops
    <3>3. pending' \in [Tasks -> SUBSET Ops]
      BY <3>1, <3>2 DEF TypeOK
    <3> QED
      BY <2>5, <3>3 DEF StartPermissions, TypeOK
  <2>6. CASE FindFiles(t)
    <3> DEFINE ops == OpsOf("files")
               items == RefsTo("files", target[t])
    <3>1. \A k \in Tasks : pending[k] \cup ops \in SUBSET Ops
      BY <2>2, NamesOK DEF TypeOK
    <3>2. items \in SUBSET Items
      BY <2>1, <2>2, RefsToOK
    <3>3. /\ found' = [found EXCEPT ![t] = items]
          /\ \/ UNCHANGED pending
             \/ pending' = [pending EXCEPT ![t] = pending[t] \cup ops]
          /\ UNCHANGED moving \/ moving' = [moving EXCEPT ![t] = items]
      BY <2>6 DEF FindFiles
    <3> HIDE DEF ops, items
    <3>4. pending' \in [Tasks -> SUBSET Ops]
      BY <3>1, <3>3 DEF TypeOK
    <3>5. /\ found' \in [Tasks -> SUBSET Items]
          /\ moving' \in [Tasks -> SUBSET Items]
      BY <3>2, <3>3 DEF TypeOK
    <3>6. pc' \in [Tasks -> {"check"} \cup Running \cup Ended]
      BY <2>6 DEF FindFiles, TypeOK
    <3> QED
      BY <2>6, <3>4, <3>5, <3>6 DEF FindFiles, TypeOK
  <2>7. CASE DeactivateUser(t)
    BY <2>1, <2>7 DEF DeactivateUser, TypeOK
  <2>8. CASE ReadPermissions(t)
    BY <2>1, <2>2, <2>8, RefsToOK DEF ReadPermissions, Answer, TypeOK
  <2>9. CASE RemovePermissions(t)
    <3>1. refs' \in References
      BY <2>1, <2>2, <2>9, RemoveRefsOK, NamesOK DEF RemovePermissions
    <3> QED
      BY <2>9, <3>1 DEF RemovePermissions, Answer, TypeOK
  <2>10. CASE RemovePersonalFiles(t)
    <3>1. refs' \in References
      BY <2>1, <2>2, <2>10, RemoveRefsOK, NamesOK DEF RemovePersonalFiles
    <3> QED
      BY <2>10, <3>1 DEF RemovePersonalFiles, Answer, TypeOK
  <2>11. CASE MoveFilesToTrash(t)
    BY <2>11 DEF MoveFilesToTrash, Answer, TypeOK
  <2>12. CASE AllResolved(t)
    BY <2>12 DEF AllResolved, TypeOK
  <2>13. CASE PushTrash(t)
    <3>1. Element(Scope(t), found[t]) \in ElementType
      BY <2>1 DEF Element, TypeOK, ElementType
    <3> QED
      BY <2>13, <3>1, PushTypeOK DEF PushTrash
  <2>14. CASE PushError(t)
    <3>1. ErrorElement \in ElementType
      BY DEF ErrorElement, Element, ElementType
    <3> QED
      BY <2>14, <3>1, PushTypeOK DEF PushError
  <2> QED
    BY <1>2, <2>3, <2>4, <2>5, <2>6, <2>7, <2>8, <2>9, <2>10, <2>11, <2>12,
       <2>13, <2>14 DEF DeleteUserRelatedData
<1>3. ASSUME NEW t \in Tasks, Fault(t)
      PROVE  TypeOK'
  <2> USE DEF Running, Ended, BeforeTomb, AfterTomb, Loop
  <2>1. target[t] \in Users /\ Scope(t) \in StepNames
    BY ScopeOK DEF TypeOK
  <2>2. {"files", "filePermission"} \subseteq StepNames
    BY DEF Scopes, StepNames
  <2>3. CASE StepFails(t)
    <3>1. refs' \in References
      BY <2>1, <2>3, RemoveRefsOK DEF StepFails, TypeOK
    <3> QED
      BY <2>3, <3>1 DEF StepFails, TypeOK
  <2>4. CASE UcFails(t)
    BY <2>4 DEF UcFails, TypeOK
  <2>5. CASE Crash(t)
    BY <2>5 DEF Crash, TypeOK
  <2>6. ASSUME NEW op \in Ops, OpFails(t, op)
        PROVE  TypeOK'
    <3>1. refs' \in References /\ blobs' \subseteq Items
      BY <2>1, <2>2, <2>6, RemoveRefsOK DEF OpFails, TypeOK
    <3>2. disturbances' \in Seq(Disturbances)
      BY <2>6, DisturbTypeOK DEF OpFails, TypeOK
    <3>3. /\ pending' \in [Tasks -> SUBSET Ops]
          /\ pc' \in [Tasks -> {"check"} \cup Running \cup Ended]
      BY <2>6 DEF OpFails, Answer, TypeOK
    <3>4. UNCHANGED <<target, step, snapUser, snapAccount, found, moving, newTomb,
                      userVars, binVars, history, removalMsgs>>
      BY <2>6 DEF OpFails
    <3> QED
      BY <3>1, <3>2, <3>3, <3>4 DEF TypeOK
  <2> QED
    BY <1>3, <2>3, <2>4, <2>5, <2>6 DEF Fault
<1>4. CASE AddReference
  <2> PICK s \in Scopes \ {"files"}, i \in Items, u \in Users :
        /\ refs' = [refs EXCEPT ![s] = @ \cup {<<i, u>>}]
        /\ history' = [history EXCEPT ![s] = @ \cup {<<i, u>>}]
    BY <1>4 DEF AddReference
  <2>1. refs' \in References /\ history' \in References
    BY DEF TypeOK, References
  <2>2. disturbances' \in Seq(Disturbances)
    BY <1>4, DisturbTypeOK DEF AddReference, TypeOK
  <2>3. UNCHANGED <<taskVars, userVars, binVars, blobs, removalMsgs>>
    BY <1>4 DEF AddReference
  <2> QED
    BY <2>1, <2>2, <2>3 DEF TypeOK
<1>5. CASE UNCHANGED vars
  BY <1>5 DEF vars, TypeOK
<1> QED
  BY <1>1, <1>2, <1>3, <1>4, <1>5 DEF Next, Terminated

(* All variables keep their types.                                         *)
THEOREM TypeCorrect == Spec => []TypeOK
BY InitTypeOK, NextTypeOK, PTL DEF Spec
-----------------------------------------------------------------------------
(* The inductive invariant.  SnapshotBeforeTombstone alone is not          *)
(* inductive: it depends on where every task is suspended, ...             *)
Early == {"check", "getUser", "getAccount", "createTrashbin"}

SnapInv ==
    /\ \A t \in Tasks :
          /\ pc[t] = "getAccount" \/ pc[t] = "createTrashbin" => snapUser[t] = "live"
          /\ pc[t] \in {"replace"} \cup AfterTomb \cup Loop => t \in bins
          /\ pc[t] \in Early => t \notin bins
    /\ \A t \in bins : snapUser[t] = "live" /\ newest[target[t]] \in bins
    /\ \A u \in deleted : newest[u] \in bins

(* ... data is removed only for tasks that have passed the replacement,    *)
(* including those whose calls outlive the step that issued them, ...      *)
DelInv ==
    \A t \in Tasks :
        pc[t] \in AfterTomb \cup Loop \/ pending[t] # {} => target[t] \in deleted

(* ... an account that still exists has been read by every task that has   *)
(* passed the reading, ...                                                 *)
Single(a) == \A b \in Accounts : OwnerOf[b] = OwnerOf[a] => b = a

AccInv ==
    /\ \A t \in Tasks, a \in accounts :
          /\ Single(a)
          /\ OwnerOf[a] = target[t]
          /\ pc[t] \in {"createTrashbin", "replace", "removeAccount"}
          => a \in snapAccount[t]
    /\ AccountNeverLost

(* ... and the files being moved were found as files of the user.          *)
FileInv ==
    /\ refs["files"] \subseteq history["files"]
    /\ \A t \in Tasks : \A i \in moving[t] : <<i, target[t]>> \in history["files"]

IInv == TypeOK /\ SnapInv /\ DelInv /\ AccInv /\ FileInv

(* What the steps of the loop and the faults leave alone, and where they   *)
(* lead: only a task in the loop stays in it, and only such a task issues  *)
(* calls.                                                                  *)
LoopEffect(t) ==
    /\ UNCHANGED <<target, snapUser, snapAccount, userVars, bins, newest>>
    /\ \E label \in {pc[t]} \cup Loop \cup {"done", "failed", "crashed"} :
          /\ Goto(t, label)
          /\ label \in Loop => pc[t] \in Loop
    /\ \E ops \in SUBSET Ops :
          /\ pending' = [pending EXCEPT ![t] = ops]
          /\ ops # {} => pc[t] \in Loop \/ pending[t] # {}

LEMMA GotoSame == ASSUME TypeOK, NEW t \in Tasks, UNCHANGED pc
                  PROVE  Goto(t, pc[t])
BY DEF Goto, TypeOK

LEMMA PendingSame == ASSUME TypeOK, NEW t \in Tasks, UNCHANGED pending
                     PROVE  pending' = [pending EXCEPT ![t] = pending[t]]
                            /\ pending[t] \in SUBSET Ops
BY DEF TypeOK

LEMMA LoopEffects ==
    ASSUME TypeOK, NEW t \in Tasks, DeleteUserRelatedData(t) \/ Fault(t)
    PROVE  LoopEffect(t)
<1> DEFINE Jump ==
      \E label \in {pc[t]} \cup Loop \cup {"done", "failed", "crashed"} :
          Goto(t, label) /\ (label \in Loop => pc[t] \in Loop)
           Issue ==
      \E ops \in SUBSET Ops :
          /\ pending' = [pending EXCEPT ![t] = ops]
          /\ ops # {} => pc[t] \in Loop \/ pending[t] # {}
<1>1. UNCHANGED <<target, snapUser, snapAccount, userVars, bins, newest>>
  BY DEF DeleteUserRelatedData, Fault, FindRelated, RemoveRelated,
     StartPermissions, FindFiles, DeactivateUser, ReadPermissions,
     RemovePermissions, RemovePersonalFiles, MoveFilesToTrash, AllResolved,
     PushTrash, PushError, StepFails, UcFails, Crash, OpFails, binVars
<1>2. UNCHANGED pc => Jump
  BY GotoSame
<1>3. UNCHANGED pending => Issue
  <2> SUFFICES ASSUME UNCHANGED pending PROVE Issue
    OBVIOUS
  <2> QED
    BY PendingSame
<1>4. ASSUME NEW op, Answer(t, op), op \in pending[t]
      PROVE  Issue
  <2>1. pending[t] \ {op} \in SUBSET Ops
    BY DEF TypeOK
  <2> QED
    BY <1>4, <2>1 DEF Answer
<1>5. Jump
  <2> USE DEF Loop
  <2>1. ASSUME NextStep(t), pc[t] \in {"push", "pushError"} PROVE Jump
    BY <2>1 DEF NextStep
  <2>2. CASE FindRelated(t) \/ StartPermissions(t) \/ FindFiles(t)
             \/ DeactivateUser(t) \/ RemoveRelated(t) \/ AllResolved(t)
    BY <2>2 DEF FindRelated, StartPermissions, FindFiles, DeactivateUser,
       RemoveRelated, AllResolved
  <2>3. CASE ReadPermissions(t) \/ RemovePermissions(t)
             \/ RemovePersonalFiles(t) \/ MoveFilesToTrash(t)
    BY <1>2, <2>3 DEF ReadPermissions, RemovePermissions, RemovePersonalFiles,
       MoveFilesToTrash
  <2>4. CASE PushTrash(t) \/ PushError(t)
    BY <2>1, <2>4 DEF PushTrash, PushError
  <2>5. CASE StepFails(t) \/ UcFails(t) \/ Crash(t)
    BY <2>5 DEF StepFails, UcFails, Crash
  <2>6. CASE \E op \in Ops : OpFails(t, op)
    BY <1>2, <2>6 DEF OpFails
  <2> QED
    BY <2>2, <2>3, <2>4, <2>5, <2>6 DEF DeleteUserRelatedData, Fault
<1>6. Issue
  <2>1. CASE FindRelated(t) \/ DeactivateUser(t) \/ RemoveRelated(t)
             \/ AllResolved(t) \/ PushTrash(t) \/ PushError(t) \/ StepFails(t)
             \/ UcFails(t)
    BY <1>3, <2>1 DEF FindRelated, DeactivateUser, RemoveRelated, AllResolved,
       PushTrash, PushError, StepFails, UcFails
  <2>2. CASE ReadPermissions(t) \/ RemovePermissions(t)
             \/ RemovePersonalFiles(t) \/ MoveFilesToTrash(t)
    BY <1>4, <2>2 DEF ReadPermissions, RemovePermissions, RemovePersonalFiles,
       MoveFilesToTrash
  <2>3. CASE \E op \in Ops : OpFails(t, op)
    BY <1>4, <2>3 DEF OpFails
  <2>4. CASE Crash(t)
    <3>1. pending' = [pending EXCEPT ![t] = {}]
      BY <2>4 DEF Crash
    <3> QED
      BY <3>1
  <2>5. ASSUME NEW s \in {"filePermission", "files"}, pc[t] = "find",
               pending' = [pending EXCEPT ![t] = @ \cup OpsOf(s)]
        PROVE  Issue
    <3>1. pending[t] \cup OpsOf(s) \in SUBSET Ops
      BY NamesOK DEF TypeOK, Scopes, StepNames
    <3>2. pc[t] \in Loop
      BY <2>5 DEF Loop
    <3> QED
      BY <2>5, <3>1, <3>2
  <2>6. CASE StartPermissions(t)
    BY <2>5, <2>6 DEF StartPermissions
  <2>7. CASE FindFiles(t)
    BY <1>3, <2>5, <2>7 DEF FindFiles
  <2> QED
    BY <2>1, <2>2, <2>3, <2>4, <2>6, <2>7 DEF DeleteUserRelatedData, Fault
<1> QED
  BY <1>1, <1>5, <1>6 DEF LoopEffect

LEMMA LoopKeepsInvariants ==
    ASSUME TypeOK, SnapInv, DelInv, AccInv, NEW t \in Tasks, LoopEffect(t)
    PROVE  SnapInv' /\ DelInv' /\ AccInv'
<1> PICK label \in {pc[t]} \cup Loop \cup {"done", "failed", "crashed"} :
          /\ Goto(t, label)
          /\ label \in Loop => pc[t] \in Loop
  BY DEF LoopEffect
<1> PICK ops \in SUBSET Ops :
          /\ pending' = [pending EXCEPT ![t] = ops]
          /\ ops # {} => pc[t] \in Loop \/ pending[t] # {}
  BY DEF LoopEffect
<1>1. UNCHANGED <<target, snapUser, snapAccount, deleted, accounts, bins, newest>>
  BY DEF LoopEffect, userVars
<1>2. /\ pc' \in [Tasks -> {"check"} \cup Running \cup Ended]
      /\ pc'[t] = label
      /\ \A k \in Tasks \ {t} : pc'[k] = pc[k]
  BY DEF Goto, TypeOK, Running, Ended
<1>3. /\ pending'[t] = ops
      /\ \A k \in Tasks \ {t} : pending'[k] = pending[k]
  BY DEF TypeOK
<1>4. SnapInv'
  BY <1>1, <1>2 DEF SnapInv, Early, Loop, AfterTomb
<1>5. DelInv'
  <2>1. label \in AfterTomb \cup Loop => pc[t] \in AfterTomb \cup Loop
    BY DEF AfterTomb, Loop
  <2> QED
    BY <1>1, <1>2, <1>3, <2>1 DEF DelInv
<1>6. AccInv'
  BY <1>1, <1>2 DEF AccInv, Single, AccountNeverLost, Loop
<1> QED
  BY <1>4, <1>5, <1>6

LEMMA DeleteUserKeepsSnapInv ==
    ASSUME TypeOK, SnapInv, NEW t \in Tasks, DeleteUser(t)
    PROVE  SnapInv'
<1> USE DEF SnapInv, TypeOK, Early, AfterTomb, Loop, Goto, userVars, binVars
<1>0. None \notin bins
  BY ConstantsAssumption
<1>1. CASE CheckPermissions(t) BY <1>1 DEF CheckPermissions
<1>2. CASE GetUser(t)
  <2>0. UNCHANGED <<target, deleted, bins, newest>> /\ pc[t] = "getUser" /\ t \notin bins
    BY <1>2 DEF GetUser
  <2>1. CASE pc' = [pc EXCEPT ![t] = "rejected"] /\ snapUser' = snapUser
    BY <2>0, <2>1
  <2>2. CASE pc' = [pc EXCEPT ![t] = "getAccount"] /\ snapUser' = [snapUser EXCEPT ![t] = "live"]
    BY <2>0, <2>2
  <2>. QED BY <1>2, <2>1, <2>2 DEF GetUser
<1>3. CASE GetAccount(t) BY <1>3 DEF GetAccount
<1>4. CASE CreateUserTrashbin(t) BY <1>4 DEF CreateUserTrashbin
<1>5. CASE ReplaceUserWithTombstone(t)
  <2>1. /\ pc' = [pc EXCEPT ![t] = "removeAccount"] /\ pc[t] = "replace"
        /\ deleted' = deleted \cup {target[t]}
        /\ UNCHANGED <<target, snapUser, binVars>>
    BY <1>5 DEF ReplaceUserWithTombstone
  <2>2. t \in bins /\ newest[target[t]] \in bins
    BY <2>1
  <2>3. \A u \in deleted' : newest'[u] \in bins'
    BY <2>1, <2>2
  <2>. QED BY <2>1, <2>2, <2>3
<1>6. CASE DeleteAccountForUserId(t) BY <1>6 DEF DeleteAccountForUserId
<1>7. CASE DeleteRegistrationPins(t) BY <1>7 DEF DeleteRegistrationPins
<1>8. CASE GetSchool(t) BY <1>8 DEF GetSchool
<1>9. CASE CreateTombstoneUser(t) BY <1>9 DEF CreateTombstoneUser
<1>10. CASE SetTombstoneUser(t) BY <1>10 DEF SetTombstoneUser
<1> QED
  BY <1>1, <1>2, <1>3, <1>4, <1>5, <1>6, <1>7, <1>8, <1>9, <1>10
  DEF DeleteUser

LEMMA DeleteUserKeepsDelInv ==
    ASSUME TypeOK, DelInv, NEW t \in Tasks, DeleteUser(t)
    PROVE  DelInv'
<1> USE DEF DelInv, TypeOK, AfterTomb, Loop, Goto, userVars
<1>1. CASE CheckPermissions(t) BY <1>1 DEF CheckPermissions
<1>2. CASE GetUser(t) BY <1>2 DEF GetUser
<1>3. CASE GetAccount(t) BY <1>3 DEF GetAccount
<1>4. CASE CreateUserTrashbin(t) BY <1>4 DEF CreateUserTrashbin
<1>5. CASE ReplaceUserWithTombstone(t) BY <1>5 DEF ReplaceUserWithTombstone
<1>6. CASE DeleteAccountForUserId(t) BY <1>6 DEF DeleteAccountForUserId
<1>7. CASE DeleteRegistrationPins(t) BY <1>7 DEF DeleteRegistrationPins
<1>8. CASE GetSchool(t) BY <1>8 DEF GetSchool
<1>9. CASE CreateTombstoneUser(t) BY <1>9 DEF CreateTombstoneUser
<1>10. CASE SetTombstoneUser(t) BY <1>10 DEF SetTombstoneUser
<1> QED
  BY <1>1, <1>2, <1>3, <1>4, <1>5, <1>6, <1>7, <1>8, <1>9, <1>10
  DEF DeleteUser

(* Only the actions that read, store or remove an account need more than   *)
(* that the account data are unchanged.                                    *)
LEMMA DeleteUserKeepsAccInv ==
    ASSUME TypeOK, SnapInv, DelInv, AccInv, NEW t \in Tasks, DeleteUser(t)
    PROVE  AccInv'
<1> USE DEF TypeOK, Goto, userVars, binVars
<1>1. ASSUME NEW label \in {"rejected", "getUser", "getAccount", "removePins",
                            "getSchool", "createTombstone", "setTombstone",
                            "find"},
             Goto(t, label),
             UNCHANGED <<target, snapAccount, accounts, deleted, bins>>
      PROVE  AccInv'
  BY <1>1 DEF AccInv, Single, AccountNeverLost
<1>2. CASE CheckPermissions(t) BY <1>1, <1>2 DEF CheckPermissions
<1>3. CASE GetUser(t) BY <1>1, <1>3 DEF GetUser
<1>4. CASE GetAccount(t)
  <2>1. \A a \in accounts : Single(a) /\ OwnerOf[a] = target[t] => a \in snapAccount'[t]
    <3> SUFFICES ASSUME NEW a \in accounts, Single(a), OwnerOf[a] = target[t]
                 PROVE  a \in snapAccount'[t]
      OBVIOUS
    <3>1. a \in AccountsOf(target[t])
      BY DEF AccountsOf
    <3>2. PICK b \in AccountsOf(target[t]) :
             snapAccount' = [snapAccount EXCEPT ![t] = {b}]
      BY <1>4, <3>1 DEF GetAccount
    <3>3. b = a
      BY DEF AccountsOf, Single
    <3> QED
      BY <3>2, <3>3
  <2>2. t \notin bins
    BY <1>4 DEF GetAccount, SnapInv, Early
  <2>3. /\ \A k \in Tasks \ {t} : snapAccount'[k] = snapAccount[k] /\ pc'[k] = pc[k]
        /\ UNCHANGED <<target, accounts, deleted, bins>>
    BY <1>4 DEF GetAccount
  <2>4. AccountNeverLost'
    <3> SUFFICES ASSUME NEW a \in Accounts \ accounts, Single(a)
                 PROVE  /\ OwnerOf[a] \in deleted
                        /\ \E k \in bins : /\ target[k] = OwnerOf[a]
                                            /\ a \in snapAccount'[k]
      BY <2>3 DEF AccountNeverLost, Single
    <3>1. OwnerOf[a] \in deleted
      BY DEF AccInv, AccountNeverLost, Single
    <3>2. PICK k \in bins : target[k] = OwnerOf[a] /\ a \in snapAccount[k]
      BY DEF AccInv, AccountNeverLost, Single
    <3>3. snapAccount'[k] = snapAccount[k]
      BY <2>2, <2>3
    <3> QED
      BY <3>1, <3>2, <3>3
  <2> QED
    BY <2>1, <2>3, <2>4 DEF AccInv, Single
<1>5. CASE CreateUserTrashbin(t)
  BY <1>5 DEF CreateUserTrashbin, AccInv, Single, AccountNeverLost
<1>6. CASE ReplaceUserWithTombstone(t)
  BY <1>6 DEF ReplaceUserWithTombstone, AccInv, Single, AccountNeverLost
<1>7. CASE DeleteAccountForUserId(t)
  <2>1. t \in bins /\ target[t] \in deleted
    BY <1>7 DEF DeleteAccountForUserId, SnapInv, DelInv, AfterTomb
  <2>2. \A a \in accounts \ accounts' : OwnerOf[a] = target[t]
    BY <1>7 DEF DeleteAccountForUserId, AccountsOf
  <2>3. \A a \in accounts \ accounts' : Single(a) => a \in snapAccount[t]
    BY <1>7, <2>2 DEF DeleteAccountForUserId, AccInv
  <2>4. /\ accounts' \subseteq accounts
        /\ \A k \in Tasks \ {t} : pc'[k] = pc[k]
        /\ pc'[t] = "removePins"
        /\ UNCHANGED <<target, snapAccount, deleted, bins>>
    BY <1>7 DEF DeleteAccountForUserId
  <2> QED
    BY <2>1, <2>2, <2>3, <2>4 DEF AccInv, Single, AccountNeverLost
<1>8. CASE DeleteRegistrationPins(t) BY <1>1, <1>8 DEF DeleteRegistrationPins
<1>9. CASE GetSchool(t) BY <1>1, <1>9 DEF GetSchool
<1>10. CASE CreateTombstoneUser(t) BY <1>1, <1>10 DEF CreateTombstoneUser
<1>11. CASE SetTombstoneUser(t) BY <1>1, <1>11 DEF SetTombstoneUser
<1> QED
  BY <1>2, <1>3, <1>4, <1>5, <1>6, <1>7, <1>8, <1>9, <1>10, <1>11
  DEF DeleteUser

LEMMA RemoveRefsShrinks ==
    ASSUME TypeOK, NEW s, NEW u, RemoveRefs(s, u)
    PROVE  \A k \in Scopes : refs'[k] \subseteq refs[k]
BY DEF RemoveRefs, TypeOK, References

LEMMA NextKeepsFileInv ==
    ASSUME TypeOK, FileInv, [Next]_vars
    PROVE  FileInv'
<1> USE DEF taskVars, userVars, binVars, dataVars
<1> DEFINE Shrinks == \A k \in Scopes : refs'[k] \subseteq refs[k]
<1>0. "files" \in Scopes
  BY DEF Scopes
<1>1. ASSUME UNCHANGED <<target, history>>, Shrinks,
             \/ UNCHANGED moving
             \/ \E t \in Tasks : moving' = [moving EXCEPT ![t] = {}]
             \/ \E t \in Tasks : moving' = [moving EXCEPT ![t] =
                                               RefsTo("files", target[t])]
      PROVE  FileInv'
  <2>1. /\ refs'["files"] \subseteq refs["files"]
        /\ refs["files"] \subseteq history["files"]
        /\ UNCHANGED <<target, history>>
    BY <1>0, <1>1 DEF FileInv
  <2>2. \A t \in Tasks : \A i \in RefsTo("files", target[t]) :
           <<i, target[t]>> \in history["files"]
    BY <2>1 DEF RefsTo
  <2>3. \A t \in Tasks : \A i \in moving[t] : <<i, target[t]>> \in history["files"]
    BY DEF FileInv
  <2>4. moving \in [Tasks -> SUBSET Items]
    BY DEF TypeOK
  <2>5. \A t \in Tasks : \/ moving'[t] \subseteq moving[t]
                         \/ moving'[t] = RefsTo("files", target[t])
    BY <1>1, <2>4
  <2> QED
    BY <2>1, <2>2, <2>3, <2>5 DEF FileInv
<1>2. ASSUME NEW t \in Tasks, DeleteUser(t)
      PROVE  FileInv'
  BY <1>1, <1>2 DEF DeleteUser, CheckPermissions, GetUser, GetAccount,
     CreateUserTrashbin, ReplaceUserWithTombstone, DeleteAccountForUserId,
     DeleteRegistrationPins, GetSchool, CreateTombstoneUser, SetTombstoneUser
<1>3. ASSUME NEW t \in Tasks, DeleteUserRelatedData(t)
      PROVE  FileInv'
  <2>1. CASE RemoveRelated(t) \/ RemovePermissions(t) \/ RemovePersonalFiles(t)
    <3>1. Shrinks
      BY <2>1, RemoveRefsShrinks
      DEF RemoveRelated, RemovePermissions, RemovePersonalFiles
    <3> QED
      BY <1>1, <2>1, <3>1
      DEF RemoveRelated, RemovePermissions, RemovePersonalFiles
  <2>2. CASE FindRelated(t) \/ StartPermissions(t) \/ DeactivateUser(t)
             \/ ReadPermissions(t) \/ AllResolved(t) \/ PushTrash(t)
             \/ PushError(t)
    BY <1>1, <2>2 DEF FindRelated, StartPermissions, DeactivateUser,
       ReadPermissions, AllResolved, PushTrash, PushError
  <2>3. CASE FindFiles(t) \/ MoveFilesToTrash(t)
    BY <1>1, <2>3 DEF FindFiles, MoveFilesToTrash
  <2> QED
    BY <1>3, <2>1, <2>2, <2>3 DEF DeleteUserRelatedData
<1>4. ASSUME NEW t \in Tasks, Fault(t)
      PROVE  FileInv'
  <2>1. CASE StepFails(t)
    <3>1. Shrinks
      BY <2>1, RemoveRefsShrinks DEF StepFails
    <3> QED
      BY <1>1, <2>1, <3>1 DEF StepFails
  <2>2. CASE UcFails(t) \/ Crash(t)
    BY <1>1, <2>2 DEF UcFails, Crash
  <2>3. ASSUME NEW op \in Ops, OpFails(t, op)
        PROVE  FileInv'
    <3>1. Shrinks
      BY <2>3, RemoveRefsShrinks DEF OpFails
    <3> QED
      BY <1>1, <2>3, <3>1 DEF OpFails
  <2> QED
    BY <1>4, <2>1, <2>2, <2>3 DEF Fault
<1>5. CASE AddReference
  <2> PICK s \in Scopes \ {"files"}, i \in Items, u \in Users :
        /\ refs' = [refs EXCEPT ![s] = @ \cup {<<i, u>>}]
        /\ history' = [history EXCEPT ![s] = @ \cup {<<i, u>>}]
    BY <1>5 DEF AddReference
  <2>1. refs'["files"] = refs["files"] /\ history'["files"] = history["files"]
    BY <1>0 DEF TypeOK, References
  <2> QED
    BY <1>5, <2>1 DEF AddReference, FileInv
<1>6. CASE UNCHANGED vars
  BY <1>1, <1>6 DEF vars
<1> QED
  BY <1>2, <1>3, <1>4, <1>5, <1>6 DEF Next, Terminated

LEMMA InitIInv == Init => IInv
<1> SUFFICES ASSUME Init PROVE IInv
  OBVIOUS
<1>1. TypeOK
  BY InitTypeOK
<1>2. SnapInv
  BY <1>1 DEF Init, SnapInv, Early, AfterTomb, Loop
<1>3. DelInv
  BY DEF Init, DelInv, AfterTomb, Loop
<1>4. AccInv
  BY DEF Init, AccInv, AccountNeverLost
<1>5. FileInv
  BY DEF Init, FileInv
<1> QED
  BY <1>1, <1>2, <1>3, <1>4, <1>5 DEF IInv

LEMMA NextIInv == IInv /\ [Next]_vars => IInv'
<1> SUFFICES ASSUME IInv, [Next]_vars PROVE IInv'
  OBVIOUS
<1>0. TypeOK /\ SnapInv /\ DelInv /\ AccInv /\ FileInv
  BY DEF IInv
<1>1. TypeOK' /\ FileInv'
  BY <1>0, NextTypeOK, NextKeepsFileInv
<1>2. ASSUME NEW t \in Tasks, DeleteUser(t)
      PROVE  SnapInv' /\ DelInv' /\ AccInv'
  BY <1>0, <1>2, DeleteUserKeepsSnapInv, DeleteUserKeepsDelInv,
     DeleteUserKeepsAccInv
<1>3. ASSUME NEW t \in Tasks, DeleteUserRelatedData(t) \/ Fault(t)
      PROVE  SnapInv' /\ DelInv' /\ AccInv'
  BY <1>0, <1>3, LoopEffects, LoopKeepsInvariants
<1>4. CASE AddReference \/ UNCHANGED vars
  <2>1. UNCHANGED <<target, pc, snapUser, snapAccount, pending, deleted,
                    accounts, bins, newest>>
    BY <1>4 DEF AddReference, vars, taskVars, userVars, binVars
  <2>2. SnapInv'
    BY <1>0, <2>1 DEF SnapInv
  <2>3. DelInv'
    BY <1>0, <2>1 DEF DelInv
  <2>4. AccInv'
    BY <1>0, <2>1 DEF AccInv, AccountNeverLost
  <2> QED
    BY <1>1, <2>2, <2>3, <2>4 DEF IInv
<1> QED
  BY <1>1, <1>2, <1>3, <1>4 DEF IInv, Next, Terminated

LEMMA Invariance == Spec => []IInv
BY InitIInv, NextIInv, PTL DEF Spec

(* A deleted user's document is in the newest of its trash bins.           *)
THEOREM SnapshotTheorem == Spec => []SnapshotBeforeTombstone
<1>1. IInv => SnapshotBeforeTombstone
  BY DEF IInv, SnapInv, SnapshotBeforeTombstone
<1> QED
  BY <1>1, Invariance, PTL

(* The account of a user with one account is not lost, however many        *)
(* deletions of the user run at once and wherever they fail or crash.      *)
THEOREM AccountTheorem == Spec => []AccountNeverLost
<1>1. IInv => AccountNeverLost
  BY DEF IInv, AccInv
<1> QED
  BY <1>1, Invariance, PTL
-----------------------------------------------------------------------------
LEMMA RemoveRefsOfDeleted ==
    ASSUME TypeOK, NEW scope \in StepNames, NEW u \in deleted,
           RemoveRefs(scope, u)
    PROVE  \A s \in Scopes \ {"lessons"} : RemovedOnlyIfDeleted(s)
<1> SUFFICES ASSUME NEW s \in Scopes \ {"lessons"}, NEW r \in refs[s] \ refs'[s]
             PROVE  r[2] \in deleted
  BY DEF RemovedOnlyIfDeleted
<1>1. s = scope
  BY DEF RemoveRefs, TypeOK, References
<1>2. r \in Removed(scope, u)
  BY <1>1 DEF RemoveRefs, TypeOK, References
<1>3. r[2] = u
  BY <1>1, <1>2 DEF Removed
<1> QED
  BY <1>3

(* Every step of the system spares the data of the users who are not       *)
(* deleted, but for the authors of lesson contents.                        *)
LEMMA StepSparesOthers ==
    ASSUME IInv, [Next]_vars
    PROVE  /\ \A s \in Scopes \ {"lessons"} : RemovedOnlyIfDeleted(s)
           /\ \A i \in blobs \ blobs' :
                 \E u \in deleted : <<i, u>> \in history["files"]
           /\ removalMsgs' \subseteq removalMsgs \cup deleted
<1> USE DEF taskVars, userVars, binVars, dataVars
<1> DEFINE Spared ==
      /\ \A s \in Scopes \ {"lessons"} : RemovedOnlyIfDeleted(s)
      /\ \A i \in blobs \ blobs' :
            \E u \in deleted : <<i, u>> \in history["files"]
      /\ removalMsgs' \subseteq removalMsgs \cup deleted
<1>0. TypeOK /\ DelInv /\ FileInv
  BY DEF IInv
<1>1. ASSUME UNCHANGED <<refs, blobs, removalMsgs>>
      PROVE  Spared
  BY <1>1 DEF RemovedOnlyIfDeleted
<1>2. ASSUME NEW t \in Tasks, target[t] \in deleted,
             NEW scope \in StepNames, RemoveRefs(scope, target[t]),
             UNCHANGED <<blobs, removalMsgs>>
      PROVE  Spared
  BY <1>0, <1>2, RemoveRefsOfDeleted
<1>3. ASSUME NEW t \in Tasks, target[t] \in deleted, blobs \ moving[t] \subseteq blobs',
             UNCHANGED <<refs, removalMsgs>>
      PROVE  Spared
  BY <1>0, <1>3 DEF RemovedOnlyIfDeleted, FileInv
<1>4. ASSUME NEW t \in Tasks, DeleteUser(t)
      PROVE  Spared
  BY <1>1, <1>4 DEF DeleteUser, CheckPermissions, GetUser, GetAccount,
     CreateUserTrashbin, ReplaceUserWithTombstone, DeleteAccountForUserId,
     DeleteRegistrationPins, GetSchool, CreateTombstoneUser, SetTombstoneUser
<1>5. \A t \in Tasks : pc[t] \in Loop \/ pending[t] # {} => target[t] \in deleted
  BY <1>0 DEF DelInv
<1>6. /\ \A t \in Tasks : Scope(t) \in StepNames
      /\ {"files", "filePermission"} \subseteq StepNames
  BY <1>0, ScopeOK DEF StepNames, Scopes
<1>7. ASSUME NEW t \in Tasks, DeleteUserRelatedData(t)
      PROVE  Spared
  <2>1. CASE FindRelated(t) \/ StartPermissions(t) \/ FindFiles(t)
             \/ ReadPermissions(t) \/ AllResolved(t) \/ PushTrash(t)
             \/ PushError(t)
    BY <1>1, <2>1 DEF FindRelated, StartPermissions, FindFiles,
       ReadPermissions, AllResolved, PushTrash, PushError
  <2>2. CASE RemoveRelated(t)
    BY <1>2, <1>5, <1>6, <2>2 DEF RemoveRelated, Loop
  <2>3. CASE RemovePermissions(t)
    BY <1>2, <1>5, <1>6, <2>3 DEF RemovePermissions
  <2>4. CASE RemovePersonalFiles(t)
    BY <1>2, <1>5, <1>6, <2>4 DEF RemovePersonalFiles
  <2>5. CASE MoveFilesToTrash(t)
    BY <1>3, <1>5, <2>5 DEF MoveFilesToTrash
  <2>6. CASE DeactivateUser(t)
    BY <1>5, <2>6 DEF DeactivateUser, Loop, RemovedOnlyIfDeleted
  <2> QED
    BY <1>7, <2>1, <2>2, <2>3, <2>4, <2>5, <2>6 DEF DeleteUserRelatedData
<1>8. ASSUME NEW t \in Tasks, Fault(t)
      PROVE  Spared
  <2>1. CASE StepFails(t)
    BY <1>1, <1>2, <1>5, <1>6, <2>1 DEF StepFails, Loop
  <2>2. CASE UcFails(t) \/ Crash(t)
    BY <1>1, <2>2 DEF UcFails, Crash
  <2>3. ASSUME NEW op \in Ops, OpFails(t, op)
        PROVE  Spared
    <3>1. target[t] \in deleted /\ UNCHANGED removalMsgs
      BY <1>5, <2>3 DEF OpFails
    <3>2. \/ UNCHANGED <<refs, blobs>>
          \/ RemoveRefs("filePermission", target[t]) /\ UNCHANGED blobs
          \/ RemoveRefs("files", target[t]) /\ UNCHANGED blobs
          \/ blobs \ moving[t] \subseteq blobs' /\ UNCHANGED refs
      BY <2>3 DEF OpFails
    <3> QED
      BY <1>1, <1>2, <1>3, <1>6, <3>1, <3>2
  <2> QED
    BY <1>8, <2>1, <2>2, <2>3 DEF Fault
<1>9. CASE AddReference
  BY <1>0, <1>9 DEF AddReference, RemovedOnlyIfDeleted, TypeOK, References
<1>10. CASE UNCHANGED vars
  BY <1>1, <1>10 DEF vars
<1> QED
  BY <1>4, <1>7, <1>8, <1>9, <1>10 DEF Next, Terminated

(* No deletion, however it interleaves with others, fails or crashes,      *)
(* removes data of a user who has not been deleted.                        *)
THEOREM SparesOthersTheorem == Spec => OnlyDeletedUsersLoseData
<1>1. IInv /\ [Next]_vars =>
        [ /\ \A s \in Scopes \ {"lessons"} : RemovedOnlyIfDeleted(s)
          /\ \A i \in blobs \ blobs' :
                \E u \in deleted : <<i, u>> \in history["files"]
          /\ removalMsgs' \subseteq removalMsgs \cup deleted ]_vars
  BY StepSparesOthers
<1> QED
  BY <1>1, Invariance, PTL DEF Spec, OnlyDeletedUsersLoseData
-----------------------------------------------------------------------------
(* LossIsMarked speaks of what was removed; the invariant adds what every  *)
(* task has read before it removes anything.  As long as nothing worse     *)
(* happens than a failing function, references only go, so that what a     *)
(* task has read covers what its update will find.  The removal of files   *)
(* may outlive the function that issued it; by then the failure is marked, *)
(* or about to be.                                                         *)
Quiet == \A i \in DOMAIN disturbances : disturbances[i] = "step"

ErrorMarked(u) ==
    \E j \in bins : target[j] = u /\ ErrorElement \in recorded[j]

FilesFound(t) ==
    /\ pc[t] = "await" /\ Scope(t) = "files"
    /\ RefsTo("files", target[t]) \subseteq found[t]

ReadFirst(t) ==
    /\ pc[t] = "remove" => /\ Scope(t) \in PlainScopes
                           /\ RefsTo(Scope(t), target[t]) \subseteq found[t]
    /\ "fileRemove" \in pending[t] =>
          FilesFound(t) \/ pc[t] = "pushError" \/ ErrorMarked(target[t])

NewestInv == \A u \in Users : newest[u] # None => target[newest[u]] = u

LossInv ==
    /\ NewestInv
    /\ Quiet => \A t \in Tasks : ReadFirst(t)
    /\ LossIsMarked

(* InHand, of one task; and the scopes LossIsMarked is about.              *)
Holds(t, s, r) ==
    /\ target[t] = r[2]
    /\ \/ pc[t] \in {"remove", "await", "push"} /\ Scope(t) = s
          /\ r[1] \in found[t]
       \/ pc[t] = "pushError"

MarkedScopes == Scopes \ {"filePermission", "lessons"}

LEMMA MarkedMeaning ==
    LossIsMarked <=>
        (Quiet => \A s \in MarkedScopes : \A r \in history[s] \ refs[s] :
                     InTrash(s, r) \/ \E t \in Tasks : Holds(t, s, r))
BY DEF LossIsMarked, Quiet, MarkedScopes, InHand, Holds

(* What a step of task t leaves to the others.  The bins only grow, and    *)
(* references only go.                                                     *)
Apart(t) ==
    /\ \A k \in Tasks \ {t} :
          /\ pc'[k] = pc[k] /\ step'[k] = step[k]
          /\ found'[k] = found[k] /\ pending'[k] = pending[k]
    /\ target' = target
    /\ bins \subseteq bins'
    /\ \A k \in Tasks : recorded[k] \subseteq recorded'[k]
    /\ history' = history
    /\ \A s \in Scopes : refs'[s] \subseteq refs[s]

LEMMA QuietBefore ==
    ASSUME TypeOK, Quiet',
           disturbances' = disturbances \/ \E kind : Disturb(kind)
    PROVE  Quiet
<1>1. CASE disturbances' = disturbances
  BY <1>1 DEF Quiet
<1>2. ASSUME NEW kind, Disturb(kind) PROVE Quiet
  <2>1. disturbances \in Seq(Disturbances) /\ disturbances' = Append(disturbances, kind)
    BY <1>2 DEF TypeOK, Disturb
  <2> SUFFICES ASSUME NEW i \in DOMAIN disturbances
               PROVE  disturbances[i] = "step"
    BY DEF Quiet
  <2>2. i \in DOMAIN disturbances' /\ disturbances'[i] = disturbances[i]
    BY <2>1
  <2> QED
    BY <2>2 DEF Quiet
<1> QED
  BY <1>1, <1>2

(* A disturbance of another kind than "step" ends the quiet.               *)
LEMMA OnlySteps ==
    ASSUME TypeOK, NEW kind, Disturb(kind), Quiet'
    PROVE  kind = "step"
<1>1. disturbances \in Seq(Disturbances) /\ disturbances' = Append(disturbances, kind)
  BY DEF TypeOK, Disturb
<1>2. Len(disturbances') \in DOMAIN disturbances' /\ disturbances'[Len(disturbances')] = kind
  BY <1>1 DEF Disturb
<1> QED
  BY <1>2 DEF Quiet

(* Marks in the bins stay, and so do the facts about the other tasks.      *)
LEMMA TrashStays ==
    ASSUME TypeOK, NEW t \in Tasks, Apart(t)
    PROVE  /\ \A s, r : InTrash(s, r) => InTrash(s, r)'
           /\ \A u : ErrorMarked(u) => ErrorMarked(u)'
           /\ \A s \in Scopes : \A u : RefsTo(s, u)' \subseteq RefsTo(s, u)
<1>1. \A j \in bins : /\ j \in Tasks /\ j \in bins' /\ target'[j] = target[j]
                      /\ recorded[j] \subseteq recorded'[j]
  BY DEF TypeOK, Apart
<1>2. \A s, r : InTrash(s, r) => InTrash(s, r)'
  BY <1>1 DEF InTrash
<1>3. \A u : ErrorMarked(u) => ErrorMarked(u)'
  BY <1>1 DEF ErrorMarked
<1>4. \A s \in Scopes : \A u : RefsTo(s, u)' \subseteq RefsTo(s, u)
  BY DEF Apart, RefsTo
<1> QED
  BY <1>2, <1>3, <1>4

LEMMA OthersStay ==
    ASSUME TypeOK, NEW t \in Tasks, Apart(t), NEW k \in Tasks \ {t}
    PROVE  /\ ReadFirst(k) => ReadFirst(k)'
           /\ \A s, r : Holds(k, s, r) => Holds(k, s, r)'
<1>1. /\ pc'[k] = pc[k] /\ found'[k] = found[k] /\ pending'[k] = pending[k]
      /\ target'[k] = target[k] /\ step'[k] = step[k]
  BY DEF Apart
<1>2. \A s, r : Holds(k, s, r) => Holds(k, s, r)'
  BY <1>1 DEF Holds, Scope
<1>3. ASSUME ReadFirst(k) PROVE ReadFirst(k)'
  <2> DEFINE Left(s) == {i \in Items : <<i, target[k]>> \in refs'[s]}
  <2>1. \A s \in Scopes : Left(s) \subseteq RefsTo(s, target[k])
    BY DEF Apart, RefsTo
  <2>2. pc[k] = "remove" => /\ Scope(k) \in PlainScopes
                            /\ Left(Scope(k)) \subseteq found[k]
    BY <1>3, <2>1 DEF ReadFirst, Scopes
  <2>3. FilesFound(k) => Left("files") \subseteq found[k]
    BY <2>1 DEF FilesFound, Scopes
  <2>4. ErrorMarked(target[k]) =>
           \E j \in bins' : target'[j] = target'[k] /\ ErrorElement \in recorded'[j]
    BY <1>1 DEF ErrorMarked, Apart, TypeOK
  <2>5. "fileRemove" \in pending'[k] =>
           \/ /\ pc'[k] = "await" /\ StepList[step'[k]] = "files"
              /\ Left("files") \subseteq found'[k]
           \/ pc'[k] = "pushError"
           \/ \E j \in bins' : target'[j] = target'[k] /\ ErrorElement \in recorded'[j]
    BY <1>1, <1>3, <2>3, <2>4 DEF ReadFirst, FilesFound, Scope
  <2>6. pc[k] = "remove" => /\ StepList[step'[k]] \in PlainScopes
                            /\ Left(StepList[step'[k]]) \subseteq found'[k]
    BY <1>1, <2>2 DEF Scope
  <2> QED
    BY <1>1, <2>5, <2>6 DEF ReadFirst, FilesFound, ErrorMarked, Scope, RefsTo
<1> QED
  BY <1>2, <1>3

LEMMA StepsAreApart ==
    ASSUME TypeOK, NEW t \in Tasks,
           DeleteUser(t) \/ DeleteUserRelatedData(t) \/ StepFails(t)
               \/ \E op \in Ops : OpFails(t, op)
    PROVE  Apart(t)
<1> USE DEF Goto, Answer, userVars, binVars, dataVars
<1>1. \A k \in Tasks \ {t} :
          /\ pc'[k] = pc[k] /\ step'[k] = step[k]
          /\ found'[k] = found[k] /\ pending'[k] = pending[k]
  <2> USE DEF TypeOK
  <2>1. CASE DeleteUser(t)
    BY <2>1 DEF DeleteUser, CheckPermissions, GetUser, GetAccount,
       CreateUserTrashbin, ReplaceUserWithTombstone, DeleteAccountForUserId,
       DeleteRegistrationPins, GetSchool, CreateTombstoneUser, SetTombstoneUser
  <2>2. CASE FindRelated(t) \/ RemoveRelated(t) \/ StartPermissions(t)
             \/ FindFiles(t) \/ DeactivateUser(t) \/ ReadPermissions(t)
    BY <2>2 DEF FindRelated, RemoveRelated, StartPermissions, FindFiles,
       DeactivateUser, ReadPermissions
  <2>3. CASE RemovePermissions(t) \/ RemovePersonalFiles(t)
             \/ MoveFilesToTrash(t) \/ AllResolved(t)
    BY <2>3 DEF RemovePermissions, RemovePersonalFiles, MoveFilesToTrash,
       AllResolved
  <2>4. CASE PushTrash(t) \/ PushError(t)
    BY <2>4 DEF PushTrash, PushError, NextStep
  <2>5. CASE StepFails(t) \/ \E op \in Ops : OpFails(t, op)
    BY <2>5 DEF StepFails, OpFails
  <2> QED
    BY <2>1, <2>2, <2>3, <2>4, <2>5 DEF DeleteUserRelatedData
<1>2. target' = target /\ bins \subseteq bins' /\ history' = history
  <2>1. CASE DeleteUser(t)
    BY <2>1 DEF DeleteUser, CheckPermissions, GetUser, GetAccount,
       CreateUserTrashbin, ReplaceUserWithTombstone, DeleteAccountForUserId,
       DeleteRegistrationPins, GetSchool, CreateTombstoneUser, SetTombstoneUser
  <2>2. CASE ~DeleteUser(t)
    BY <2>2 DEF DeleteUserRelatedData, FindRelated, RemoveRelated,
       StartPermissions, FindFiles, DeactivateUser, ReadPermissions,
       RemovePermissions, RemovePersonalFiles, MoveFilesToTrash, AllResolved,
       PushTrash, PushError, StepFails, OpFails
  <2> QED
    BY <2>1, <2>2
<1>3. \A k \in Tasks : recorded[k] \subseteq recorded'[k]
  <2>1. ASSUME NEW e, Push(t, e)
        PROVE  \A k \in Tasks : recorded[k] \subseteq recorded'[k]
    BY <2>1 DEF Push, TypeOK
  <2>2. CASE PushTrash(t) \/ PushError(t)
    BY <2>1, <2>2 DEF PushTrash, PushError
  <2>3. CASE ~(PushTrash(t) \/ PushError(t))
    <3>1. recorded' = recorded
      BY <2>3 DEF DeleteUser, CheckPermissions, GetUser, GetAccount,
         CreateUserTrashbin, ReplaceUserWithTombstone, DeleteAccountForUserId,
         DeleteRegistrationPins, GetSchool, CreateTombstoneUser,
         SetTombstoneUser, DeleteUserRelatedData, FindRelated, RemoveRelated,
         StartPermissions, FindFiles, DeactivateUser, ReadPermissions,
         RemovePermissions, RemovePersonalFiles, MoveFilesToTrash, AllResolved,
         StepFails, OpFails
    <3> QED
      BY <3>1
  <2> QED
    BY <2>2, <2>3
<1>4. \A s \in Scopes : refs'[s] \subseteq refs[s]
  <2>1. CASE refs' = refs
    BY <2>1
  <2>2. CASE \E s, u : RemoveRefs(s, u)
    BY <2>2, RemoveRefsShrinks
  <2>3. refs' = refs \/ \E s, u : RemoveRefs(s, u)
    BY DEF DeleteUser, CheckPermissions, GetUser, GetAccount,
       CreateUserTrashbin, ReplaceUserWithTombstone, DeleteAccountForUserId,
       DeleteRegistrationPins, GetSchool, CreateTombstoneUser,
       SetTombstoneUser, DeleteUserRelatedData, FindRelated, RemoveRelated,
       StartPermissions, FindFiles, DeactivateUser, ReadPermissions,
       RemovePermissions, RemovePersonalFiles, MoveFilesToTrash, AllResolved,
       PushTrash, PushError, StepFails, OpFails
  <2> QED
    BY <2>1, <2>2, <2>3
<1> QED
  BY <1>1, <1>2, <1>3, <1>4 DEF Apart

(* What a step of t has to do for itself: what it has in hand, and what    *)
(* it removes, is in its hand or in a bin afterwards.                      *)
OwnStep(t) ==
    /\ ReadFirst(t)'
    /\ \A s \in MarkedScopes : \A r :
          Holds(t, s, r) \/ r \in refs[s] \ refs'[s] =>
              InTrash(s, r)' \/ Holds(t, s, r)'

LEMMA MarkedLoss ==
    ASSUME TypeOK, NEW scope, NEW u \in Users, RemoveRefs(scope, u),
           NEW s \in MarkedScopes, NEW r \in refs[s] \ refs'[s]
    PROVE  s = scope /\ r[2] = u /\ r[1] \in RefsTo(s, u)
<1>1. s = scope /\ r \in Removed(scope, u)
  BY DEF RemoveRefs, TypeOK, References, MarkedScopes
<1>2. r \in refs[s] /\ r[2] = u /\ s \in Scopes
  BY <1>1 DEF Removed, MarkedScopes
<1>3. r \in Items \X Users
  BY <1>2 DEF TypeOK, References
<1>4. r = <<r[1], u>> /\ r[1] \in Items
  BY <1>2, <1>3
<1> QED
  BY <1>1, <1>2, <1>4 DEF RefsTo

(* A task whose failure is marked has nothing to show for its files.       *)
LEMMA MarkedSuffices ==
    ASSUME TypeOK, NEW t \in Tasks, Apart(t), pc'[t] # "remove",
           "fileRemove" \in pending'[t] => ErrorMarked(target[t])
    PROVE  ReadFirst(t)'
<1>1. target'[t] = target[t]
  BY DEF Apart
<1>2. ErrorMarked(target[t]) =>
         \E j \in bins' : target'[j] = target'[t] /\ ErrorElement \in recorded'[j]
  BY <1>1 DEF ErrorMarked, Apart, TypeOK
<1> QED
  BY <1>2 DEF ReadFirst, ErrorMarked

(* Outside of its critical places a task that waits for the removal of     *)
(* files has its failure marked.                                           *)
LEMMA MarkedElsewhere ==
    ASSUME NEW t \in Tasks, ReadFirst(t), "fileRemove" \in pending[t],
           pc[t] # "pushError", ~(pc[t] = "await" /\ Scope(t) = "files")
    PROVE  ErrorMarked(target[t])
BY DEF ReadFirst, FilesFound

LEMMA NothingInHand ==
    ASSUME NEW t \in Tasks, pc[t] \notin {"remove", "await", "push", "pushError"}
    PROVE  \A s, r : ~Holds(t, s, r)
BY DEF Holds

LEMMA DeleteUserOwnStep ==
    ASSUME TypeOK, NEW t \in Tasks, ReadFirst(t), DeleteUser(t)
    PROVE  OwnStep(t)
<1>1. Apart(t)
  BY StepsAreApart
<1>2. /\ UNCHANGED <<pending, refs>>
      /\ pc[t] \notin Loop
      /\ pc'[t] # "remove"
  BY DEF TypeOK, Goto, Loop, dataVars, DeleteUser, CheckPermissions, GetUser,
     GetAccount, CreateUserTrashbin, ReplaceUserWithTombstone,
     DeleteAccountForUserId, DeleteRegistrationPins, GetSchool,
     CreateTombstoneUser, SetTombstoneUser
<1>3. ReadFirst(t)'
  BY <1>1, <1>2, MarkedElsewhere, MarkedSuffices DEF Loop
<1>4. \A s, r : ~Holds(t, s, r)
  BY <1>2, NothingInHand DEF Loop
<1> QED
  BY <1>2, <1>3, <1>4 DEF OwnStep

(* The functions begin: nothing is in hand, nothing is removed.            *)
LEMMA FindOwnStep ==
    ASSUME TypeOK, NEW t \in Tasks, ReadFirst(t),
           FindRelated(t) \/ StartPermissions(t) \/ FindFiles(t)
               \/ DeactivateUser(t)
    PROVE  OwnStep(t)
<1> USE DEF TypeOK, Goto, dataVars, taskVars
<1>1. Apart(t)
  BY StepsAreApart DEF DeleteUserRelatedData
<1>2. UNCHANGED <<refs, target, step>> /\ pc[t] = "find"
  BY DEF FindRelated, StartPermissions, FindFiles, DeactivateUser
<1>3. \A s, r : ~Holds(t, s, r)
  BY <1>2, NothingInHand
<1>4. "fileRemove" \in pending[t] => ErrorMarked(target[t])
  BY <1>2, MarkedElsewhere
<1>5. ErrorMarked(target[t]) =>
         \E j \in bins' : target'[j] = target'[t] /\ ErrorElement \in recorded'[j]
  BY <1>1 DEF ErrorMarked, Apart
<1>6. ReadFirst(t)'
  <2>1. CASE FindRelated(t)
    <3>1. /\ Scope(t) \in PlainScopes /\ pending' = pending
          /\ pc'[t] \in {"push", "remove"}
          /\ found'[t] = RefsTo(Scope(t), target[t])
      BY <2>1 DEF FindRelated
    <3> QED
      BY <1>2, <1>4, <1>5, <3>1
      DEF ReadFirst, FilesFound, ErrorMarked, RefsTo, Scope
  <2>2. CASE FindFiles(t) /\ "fileRemove" \notin pending[t]
    <3>1. /\ Scope(t) = "files" /\ pc'[t] \in {"push", "pushError", "await"}
          /\ found'[t] = RefsTo("files", target[t])
          /\ pc'[t] \in {"push", "pushError"} => pending' = pending
      BY <2>2 DEF FindFiles
    <3> QED
      BY <1>2, <2>2, <3>1 DEF ReadFirst, FilesFound, RefsTo, Scope
  <2>3. CASE "fileRemove" \in pending[t] /\ ~FindRelated(t)
    <3>1. pc'[t] # "remove"
      BY <2>3 DEF FindRelated, StartPermissions, FindFiles, DeactivateUser
    <3> QED
      BY <1>1, <1>4, <2>3, <3>1, MarkedSuffices
  <2>4. CASE (StartPermissions(t) \/ DeactivateUser(t))
             /\ "fileRemove" \notin pending[t]
    <3>1. pc'[t] # "remove" /\ "fileRemove" \notin pending'[t]
      BY <2>4 DEF StartPermissions, DeactivateUser, OpsOf
    <3> QED
      BY <1>1, <3>1, MarkedSuffices
  <2> QED
    BY <2>1, <2>2, <2>3, <2>4
<1> QED
  BY <1>2, <1>3, <1>6 DEF OwnStep

(* An update finds nothing that has not been read.                         *)
LEMMA RemoveOwnStep ==
    ASSUME TypeOK, NEW t \in Tasks, ReadFirst(t), RemoveRelated(t)
    PROVE  OwnStep(t)
<1> USE DEF TypeOK, Goto
<1>1. Apart(t)
  BY StepsAreApart DEF DeleteUserRelatedData
<1>2. /\ pc[t] = "remove" /\ pc'[t] = "push"
      /\ UNCHANGED <<target, step, found, pending>>
      /\ RemoveRefs(Scope(t), target[t])
  BY DEF RemoveRelated
<1>3. ReadFirst(t)'
  BY <1>1, <1>2, MarkedElsewhere, MarkedSuffices
<1>4. ASSUME NEW s \in MarkedScopes, NEW r,
             Holds(t, s, r) \/ r \in refs[s] \ refs'[s]
      PROVE  Holds(t, s, r)'
  <2>1. CASE Holds(t, s, r)
    BY <1>2, <2>1 DEF Holds, Scope
  <2>2. CASE r \in refs[s] \ refs'[s]
    <3>1. s = Scope(t) /\ r[2] = target[t] /\ r[1] \in RefsTo(s, target[t])
      BY <1>2, <2>2, MarkedLoss
    <3>2. r[1] \in found[t]
      BY <1>2, <3>1 DEF ReadFirst
    <3> QED
      BY <1>2, <3>1, <3>2 DEF Holds, Scope
  <2> QED
    BY <1>4, <2>1, <2>2
<1> QED
  BY <1>3, <1>4 DEF OwnStep

(* The answers of the two functions that issue their calls together.       *)
LEMMA AnswerOwnStep ==
    ASSUME TypeOK, NEW t \in Tasks, ReadFirst(t),
           ReadPermissions(t) \/ RemovePermissions(t) \/ RemovePersonalFiles(t)
               \/ MoveFilesToTrash(t)
    PROVE  OwnStep(t)
<1> USE DEF TypeOK, Goto, Answer, dataVars
<1>0. "files" # "filePermission" /\ "files" \notin {"filePermission", "lessons"}
      /\ "filePermission" \notin PlainScopes
  BY DEF PlainScopes
<1>1. Apart(t)
  BY StepsAreApart DEF DeleteUserRelatedData
<1>2. /\ UNCHANGED <<target, pc, step>>
      /\ pending'[t] \subseteq pending[t]
      /\ \/ found'[t] = found[t]
         \/ pc[t] = "await" /\ Scope(t) = "filePermission"
      /\ \A s \in Scopes : refs'[s] \subseteq refs[s]
  BY <1>1 DEF ReadPermissions, RemovePermissions, RemovePersonalFiles,
     MoveFilesToTrash, Apart
<1>3. ErrorMarked(target[t]) =>
         \E j \in bins' : target'[j] = target'[t] /\ ErrorElement \in recorded'[j]
  BY <1>1 DEF ErrorMarked, Apart
<1>4. ReadFirst(t)'
  <2> DEFINE Left(s) == {i \in Items : <<i, target[t]>> \in refs'[s]}
  <2>1. \A s \in Scopes : Left(s) \subseteq RefsTo(s, target[t])
    BY <1>2 DEF RefsTo
  <2>2. pc'[t] = "remove" => /\ StepList[step'[t]] \in PlainScopes
                             /\ Left(StepList[step'[t]]) \subseteq found'[t]
    BY <1>2, <2>1 DEF ReadFirst, Scopes, Scope
  <2>3. "fileRemove" \in pending'[t] =>
           \/ /\ pc'[t] = "await" /\ StepList[step'[t]] = "files"
              /\ Left("files") \subseteq found'[t]
           \/ pc'[t] = "pushError"
           \/ \E j \in bins' : target'[j] = target'[t] /\ ErrorElement \in recorded'[j]
    BY <1>0, <1>2, <1>3, <2>1 DEF ReadFirst, FilesFound, Scope, Scopes
  <2> QED
    BY <1>2, <2>2, <2>3 DEF ReadFirst, FilesFound, ErrorMarked, RefsTo, Scope
<1>5. ASSUME NEW s \in MarkedScopes, NEW r, Holds(t, s, r)
      PROVE  Holds(t, s, r)'
  BY <1>2, <1>5 DEF Holds, Scope, MarkedScopes
<1>6. ASSUME NEW s \in MarkedScopes, NEW r \in refs[s] \ refs'[s]
      PROVE  InTrash(s, r)' \/ Holds(t, s, r)'
  <2>1. CASE RemovePersonalFiles(t)
    <3>1. /\ s = "files" /\ r[2] = target[t] /\ r[1] \in RefsTo(s, target[t])
          /\ "fileRemove" \in pending[t]
      BY <2>1, MarkedLoss DEF RemovePersonalFiles
    <3>2. CASE FilesFound(t)
      BY <1>0, <1>2, <3>1, <3>2 DEF FilesFound, Holds, Scope
    <3>3. CASE pc[t] = "pushError"
      BY <1>2, <3>1, <3>3 DEF Holds
    <3>4. CASE ErrorMarked(target[t])
      BY <1>2, <1>3, <3>1, <3>4 DEF InTrash
    <3> QED
      BY <3>1, <3>2, <3>3, <3>4 DEF ReadFirst
  <2>2. CASE RemovePermissions(t)
    BY <2>2, MarkedLoss DEF RemovePermissions, MarkedScopes
  <2>3. CASE ReadPermissions(t) \/ MoveFilesToTrash(t)
    BY <2>3 DEF ReadPermissions, MoveFilesToTrash
  <2> QED
    BY <2>1, <2>2, <2>3
<1> QED
  BY <1>4, <1>5, <1>6 DEF OwnStep

(* All calls have been answered.                                           *)
LEMMA ResolvedOwnStep ==
    ASSUME TypeOK, NEW t \in Tasks, ReadFirst(t), AllResolved(t)
    PROVE  OwnStep(t)
<1> USE DEF TypeOK, Goto, dataVars
<1>1. Apart(t)
  BY StepsAreApart DEF DeleteUserRelatedData
<1>2. /\ pc[t] = "await" /\ pc'[t] = "push"
      /\ UNCHANGED <<target, step, found, pending, refs>>
      /\ pending[t] \cap OpsOf(Scope(t)) = {}
  BY DEF AllResolved
<1>3. "fileRemove" \in pending[t] => Scope(t) # "files"
  BY <1>2 DEF OpsOf
<1>4. ReadFirst(t)'
  BY <1>1, <1>2, <1>3, MarkedElsewhere, MarkedSuffices
<1>5. \A s, r : Holds(t, s, r) => Holds(t, s, r)'
  BY <1>2 DEF Holds, Scope
<1> QED
  BY <1>2, <1>4, <1>5 DEF OwnStep

(* What is pushed arrives in a bin of the user.                            *)
LEMMA PushArrives ==
    ASSUME TypeOK, SnapInv, NewestInv, NEW t \in Tasks, pc[t] \in Loop,
           NEW e, Push(t, e), UNCHANGED <<target, bins>>
    PROVE  \E j \in bins' : target'[j] = target[t] /\ e \in recorded'[j]
<1> DEFINE n == newest[target[t]]
<1>1. t \in bins /\ n \in bins
  BY DEF SnapInv
<1>2. n \in Tasks /\ n # None
  BY <1>1, ConstantsAssumption DEF TypeOK
<1>3. target[n] = target[t]
  BY <1>2 DEF NewestInv, TypeOK
<1>4. e \in recorded'[n]
  BY <1>2 DEF Push, TypeOK
<1> QED
  BY <1>1, <1>3, <1>4

LEMMA PushOwnStep ==
    ASSUME TypeOK, SnapInv, NewestInv, NEW t \in Tasks, ReadFirst(t),
           PushTrash(t) \/ PushError(t)
    PROVE  OwnStep(t)
<1> USE DEF TypeOK, dataVars
<1>1. Apart(t)
  BY StepsAreApart DEF DeleteUserRelatedData
<1>2. /\ UNCHANGED <<target, bins, pending, refs>>
      /\ pc[t] \in {"push", "pushError"} /\ pc'[t] # "remove"
      /\ pc[t] \in Loop
  BY DEF PushTrash, PushError, NextStep, Goto, Loop
<1>3. CASE PushTrash(t)
  <2>1. pc[t] = "push"
    BY <1>3 DEF PushTrash
  <2>2. ReadFirst(t)'
    BY <1>1, <1>2, <2>1, MarkedElsewhere, MarkedSuffices
  <2>3. PICK j \in bins' : /\ target'[j] = target[t]
                           /\ Element(Scope(t), found[t]) \in recorded'[j]
    BY <1>2, <1>3, PushArrives DEF PushTrash
  <2>4. ASSUME NEW s, NEW r, Holds(t, s, r)
        PROVE  InTrash(s, r)'
    <3>1. target[t] = r[2] /\ Scope(t) = s /\ r[1] \in found[t]
      BY <2>1, <2>4 DEF Holds
    <3> QED
      BY <2>3, <3>1 DEF InTrash, Element
  <2> QED
    BY <1>2, <2>2, <2>4 DEF OwnStep
<1>4. CASE PushError(t)
  <2>1. PICK j \in bins' : target'[j] = target[t] /\ ErrorElement \in recorded'[j]
    BY <1>2, <1>4, PushArrives DEF PushError
  <2>2. ReadFirst(t)'
    BY <1>2, <2>1 DEF ReadFirst, ErrorMarked
  <2>3. ASSUME NEW s, NEW r, Holds(t, s, r)
        PROVE  InTrash(s, r)'
    <3>1. target[t] = r[2]
      BY <2>3 DEF Holds
    <3> QED
      BY <2>1, <3>1 DEF InTrash
  <2> QED
    BY <1>2, <2>2, <2>3 DEF OwnStep
<1> QED
  BY <1>3, <1>4

LEMMA StepFailsOwnStep ==
    ASSUME TypeOK, NEW t \in Tasks, StepFails(t)
    PROVE  OwnStep(t)
<1> USE DEF TypeOK, Goto
<1>1. /\ UNCHANGED <<target, pending>> /\ pc'[t] = "pushError"
      /\ UNCHANGED refs \/ RemoveRefs(Scope(t), target[t])
  BY DEF StepFails
<1>2. ReadFirst(t)'
  BY <1>1 DEF ReadFirst
<1>3. ASSUME NEW s, NEW r, Holds(t, s, r) PROVE Holds(t, s, r)'
  BY <1>1, <1>3 DEF Holds
<1>4. ASSUME NEW s \in MarkedScopes, NEW r \in refs[s] \ refs'[s]
      PROVE  Holds(t, s, r)'
  <2>1. r[2] = target[t]
    BY <1>1, <1>4, MarkedLoss
  <2> QED
    BY <1>1, <2>1 DEF Holds
<1> QED
  BY <1>2, <1>3, <1>4 DEF OwnStep

(* A call fails: while it is waited for, the failure is about to be        *)
(* marked; the removal of files that is no longer waited for was marked    *)
(* with the failure that ended the waiting.                                *)
LEMMA OpFailsOwnStep ==
    ASSUME TypeOK, NEW t \in Tasks, ReadFirst(t), NEW op \in Ops, OpFails(t, op)
    PROVE  OwnStep(t)
<1> USE DEF TypeOK, Goto, Answer
<1>1. Apart(t)
  BY StepsAreApart
<1>2. /\ UNCHANGED <<target, step, found>>
      /\ op \in pending[t] /\ pending'[t] = pending[t] \ {op}
      /\ \/ UNCHANGED refs
         \/ op = "permRemove" /\ RemoveRefs("filePermission", target[t])
         \/ op = "fileRemove" /\ RemoveRefs("files", target[t])
      /\ IF pc[t] = "await" /\ op \in OpsOf(Scope(t))
         THEN pc'[t] = "pushError" ELSE pc' = pc
  BY DEF OpFails
<1>3. ASSUME NEW s, NEW r, Holds(t, s, r) PROVE Holds(t, s, r)'
  BY <1>2, <1>3 DEF Holds, Scope
<1>4. ErrorMarked(target[t]) =>
         \E j \in bins' : target'[j] = target'[t] /\ ErrorElement \in recorded'[j]
  BY <1>1 DEF ErrorMarked, Apart
<1>5. ReadFirst(t)'
  <2> DEFINE Left(s) == {i \in Items : <<i, target[t]>> \in refs'[s]}
  <2>1. \A s \in Scopes : Left(s) \subseteq RefsTo(s, target[t])
    BY <1>1 DEF Apart, RefsTo
  <2>2. pc'[t] = "remove" => /\ StepList[step'[t]] \in PlainScopes
                             /\ Left(StepList[step'[t]]) \subseteq found'[t]
    BY <1>2, <2>1 DEF ReadFirst, Scopes, Scope
  <2>3. "fileRemove" \in pending'[t] =>
           \/ /\ pc'[t] = "await" /\ StepList[step'[t]] = "files"
              /\ Left("files") \subseteq found'[t]
           \/ pc'[t] = "pushError"
           \/ \E j \in bins' : target'[j] = target'[t] /\ ErrorElement \in recorded'[j]
    BY <1>2, <1>4, <2>1 DEF ReadFirst, FilesFound, Scope, Scopes
  <2> QED
    BY <1>2, <2>2, <2>3 DEF ReadFirst, FilesFound, ErrorMarked, RefsTo, Scope
<1>6. ASSUME NEW s \in MarkedScopes, NEW r \in refs[s] \ refs'[s]
      PROVE  InTrash(s, r)' \/ Holds(t, s, r)'
  <2>1. op = "fileRemove" /\ s = "files" /\ r[2] = target[t]
    BY <1>2, MarkedLoss DEF MarkedScopes
  <2>2. CASE pc'[t] = "pushError"
    BY <1>2, <2>1, <2>2 DEF Holds
  <2>3. CASE ErrorMarked(target[t])
    BY <1>2, <1>4, <2>1, <2>3 DEF InTrash
  <2>4. FilesFound(t) \/ pc[t] = "pushError" => pc'[t] = "pushError"
    BY <1>2, <2>1 DEF FilesFound, OpsOf
  <2> QED
    BY <1>2, <2>1, <2>2, <2>3, <2>4 DEF ReadFirst
<1> QED
  BY <1>3, <1>5, <1>6 DEF OwnStep

LEMMA OwnSteps ==
    ASSUME TypeOK, SnapInv, NewestInv, NEW t \in Tasks, ReadFirst(t),
           DeleteUser(t) \/ DeleteUserRelatedData(t) \/ StepFails(t)
               \/ \E op \in Ops : OpFails(t, op)
    PROVE  OwnStep(t)
<1>1. CASE DeleteUser(t)
  BY <1>1, DeleteUserOwnStep
<1>2. CASE DeleteUserRelatedData(t)
  BY <1>2, FindOwnStep, RemoveOwnStep, AnswerOwnStep, ResolvedOwnStep,
     PushOwnStep DEF DeleteUserRelatedData
<1>3. CASE StepFails(t)
  BY <1>3, StepFailsOwnStep
<1>4. CASE \E op \in Ops : OpFails(t, op)
  BY <1>4, OpFailsOwnStep
<1> QED
  BY <1>1, <1>2, <1>3, <1>4

LEMMA InitLossInv == Init => LossInv
<1> SUFFICES ASSUME Init PROVE LossInv
  OBVIOUS
<1>1. NewestInv
  BY DEF Init, NewestInv
<1>2. \A t \in Tasks : ReadFirst(t)
  BY DEF Init, ReadFirst
<1>3. \A s \in Scopes : history[s] \ refs[s] = {}
  BY DEF Init
<1>4. LossIsMarked
  BY <1>3 DEF LossIsMarked
<1> QED
  BY <1>1, <1>2, <1>4 DEF LossInv

LEMMA NextKeepsNewestInv ==
    ASSUME TypeOK, NewestInv, [Next]_vars
    PROVE  NewestInv'
<1>1. CASE UNCHANGED <<target, newest>>
  BY <1>1 DEF NewestInv
<1>2. ASSUME NEW t \in Tasks, CreateUserTrashbin(t)
      PROVE  NewestInv'
  BY <1>2 DEF CreateUserTrashbin, NewestInv, TypeOK
<1>3. ASSUME NEW t \in Tasks, DeleteUser(t), ~CreateUserTrashbin(t)
      PROVE  UNCHANGED <<target, newest>>
  BY <1>3 DEF DeleteUser, CheckPermissions, GetUser, GetAccount,
     ReplaceUserWithTombstone, DeleteAccountForUserId, DeleteRegistrationPins,
     GetSchool, CreateTombstoneUser, SetTombstoneUser, binVars
<1>4. ASSUME NEW t \in Tasks, DeleteUserRelatedData(t) \/ Fault(t)
      PROVE  UNCHANGED <<target, newest>>
  BY <1>4, LoopEffects DEF LoopEffect
<1>5. CASE AddReference \/ UNCHANGED vars
  BY <1>1, <1>5 DEF AddReference, vars, taskVars, binVars
<1> QED
  BY <1>1, <1>2, <1>3, <1>4, <1>5 DEF Next, Terminated

(* Every step keeps what has been read ahead of what is removed.           *)
LEMMA NextKeepsLossInv ==
    ASSUME IInv, LossInv, [Next]_vars
    PROVE  LossInv'
<1>0. TypeOK /\ SnapInv /\ NewestInv /\ LossIsMarked
  BY DEF IInv, LossInv
<1>1. NewestInv'
  BY <1>0, NextKeepsNewestInv
<1>2. ~Quiet' => LossInv'
  BY <1>1 DEF LossInv, LossIsMarked, Quiet
<1>3. ASSUME NEW t \in Tasks,
             DeleteUser(t) \/ DeleteUserRelatedData(t) \/ StepFails(t)
                 \/ \E op \in Ops : OpFails(t, op),
             Quiet'
      PROVE  LossInv'
  <2>1. Quiet
    <3>1. disturbances' = disturbances \/ \E kind : Disturb(kind)
      BY <1>3 DEF DeleteUser, CheckPermissions, GetUser, GetAccount,
         CreateUserTrashbin, ReplaceUserWithTombstone, DeleteAccountForUserId,
         DeleteRegistrationPins, GetSchool, CreateTombstoneUser,
         SetTombstoneUser, DeleteUserRelatedData, FindRelated, RemoveRelated,
         StartPermissions, FindFiles, DeactivateUser, ReadPermissions,
         RemovePermissions, RemovePersonalFiles, MoveFilesToTrash, AllResolved,
         PushTrash, PushError, StepFails, OpFails
    <3> QED
      BY <1>0, <1>3, <3>1, QuietBefore
  <2>2. \A k \in Tasks : ReadFirst(k)
    BY <2>1 DEF LossInv
  <2>3. Apart(t) /\ OwnStep(t)
    BY <1>0, <1>3, <2>2, StepsAreApart, OwnSteps
  <2>4. \A k \in Tasks : ReadFirst(k)'
    BY <1>0, <2>2, <2>3, OthersStay DEF OwnStep
  <2>5. ASSUME NEW s \in MarkedScopes, NEW r \in history'[s] \ refs'[s]
        PROVE  InTrash(s, r)' \/ \E k \in Tasks : Holds(k, s, r)'
    <3>1. CASE r \in refs[s]
      BY <2>3, <2>5, <3>1 DEF OwnStep
    <3>2. CASE r \notin refs[s]
      <4>1. r \in history[s] \ refs[s]
        BY <2>3, <3>2 DEF Apart
      <4>2. CASE InTrash(s, r)
        BY <1>0, <2>3, <4>2, TrashStays
      <4>3. ASSUME NEW k \in Tasks, Holds(k, s, r)
            PROVE  InTrash(s, r)' \/ \E j \in Tasks : Holds(j, s, r)'
        <5>1. CASE k = t
          BY <2>3, <4>3, <5>1 DEF OwnStep
        <5>2. CASE k # t
          BY <1>0, <2>3, <4>3, <5>2, OthersStay
        <5> QED
          BY <5>1, <5>2
      <4> QED
        BY <1>0, <2>1, <4>1, <4>2, <4>3, MarkedMeaning
    <3> QED
      BY <3>1, <3>2
  <2>6. LossIsMarked'
    BY <2>5 DEF LossIsMarked, MarkedScopes, InHand, Holds
  <2> QED
    BY <1>1, <2>4, <2>6 DEF LossInv
<1>4. ASSUME NEW t \in Tasks, UcFails(t) \/ Crash(t)
      PROVE  ~Quiet'
  BY <1>0, <1>4, OnlySteps DEF UcFails, Crash
<1>5. CASE AddReference
  BY <1>0, <1>2, <1>5, OnlySteps DEF AddReference
<1>6. CASE UNCHANGED vars
  <2>1. UNCHANGED <<target, pc, step, found, pending, bins, newest, recorded,
                    refs, history, disturbances>>
    BY <1>6 DEF vars, taskVars, binVars, dataVars
  <2> QED
    BY <2>1 DEF LossInv, NewestInv, LossIsMarked, Quiet, ReadFirst,
       FilesFound, ErrorMarked, InTrash, InHand, RefsTo, Scope
<1> QED
  BY <1>2, <1>3, <1>4, <1>5, <1>6 DEF Next, Fault, Terminated

(* What was removed for a deleted user is in a trash bin or on its way     *)
(* there, or its failure is marked, for any number of deletions and        *)
(* whichever functions fail, however often.                                *)
THEOREM LossTheorem == Spec => []LossIsMarked
<1>1. LossInv => LossIsMarked
  BY DEF LossInv
<1>2. Spec => []LossInv
  BY InitLossInv, NextKeepsLossInv, Invariance, PTL DEF Spec
<1> QED
  BY <1>1, <1>2, PTL

=============================================================================
