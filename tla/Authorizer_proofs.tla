-------------------------- MODULE Authorizer_proofs --------------------------
(***************************************************************************)
(* Proofs about Authorizer for any set of calls and devices, with and      *)
(* without spurious wakeups.                                               *)
(***************************************************************************)
EXTENDS Authorizer, TLAPS, FiniteSetTheorems

(* Type correctness: in particular a call never consults the preferences,  *)
(* and the main thread never saves, with a device field still unset.       *)
THEOREM Typing == Spec => []TypeOK
<1> USE RequestsAssumption, DeviceAssumption
<1>1. Init => TypeOK
  <2> SUFFICES ASSUME Init PROVE TypeOK
    OBVIOUS
  <2>1. mSharedPreferences \in
            [Names -> {createEncrypyMac(m) : m \in Macs} \cup {None}]
    <3>1. PICK D \in SUBSET Devices :
            mSharedPreferences =
                [n \in Names |->
                    IF \E d \in D : NameOf[d] = n
                    THEN createEncrypyMac(MacOf[CHOOSE d \in D : NameOf[d] = n])
                    ELSE None]
      BY DEF Init
    <3>2. ASSUME NEW n \in Names, \E d \in D : NameOf[d] = n
          PROVE  (CHOOSE d \in D : NameOf[d] = n) \in Devices
      BY <3>2
    <3> QED
      BY <3>1, <3>2
  <2> QED
    BY <2>1 DEF Init, TypeOK
<1>2. TypeOK /\ [Next]_vars => TypeOK'
  <2> SUFFICES ASSUME TypeOK, [Next]_vars PROVE TypeOK'
    OBVIOUS
  <2> USE DEF TypeOK
  <2>1. CASE setAuthorize
    BY <2>1 DEF setAuthorize, fields, history
  <2>2. CASE checkPassSave
    <3>1. mSharedPreferences' \in
              [Names -> {createEncrypyMac(m) : m \in Macs} \cup {None}]
      BY <2>2 DEF checkPassSave, saveKnownDevice
    <3> QED
      BY <2>2, <3>1 DEF checkPassSave, fields, history
  <2>3. ASSUME NEW r \in Requests, authorizeName(r) PROVE TypeOK'
    BY <2>3 DEF authorizeName
  <2>4. ASSUME NEW r \in Requests, authorizeMac(r) PROVE TypeOK'
    BY <2>4 DEF authorizeMac, history
  <2>5. ASSUME NEW r \in Requests, authorizeKnown(r) PROVE TypeOK'
    BY <2>5 DEF authorizeKnown, history
  <2>6. ASSUME NEW r \in Requests, authorizeUnknown(r) PROVE TypeOK'
    BY <2>6 DEF authorizeUnknown, fields, history
  <2>7. ASSUME NEW r \in Requests, authorizeWait(r) PROVE TypeOK'
    <3>1. /\ dialogs' \in SUBSET Requests
          /\ dialogs' \subseteq dialogs \cup {r}
          /\ shown' \in [Requests -> Names \cup {None}]
          /\ abandoned' \in Nat
      BY <2>7 DEF authorizeWait, checkAuthorize
    <3> QED
      BY <2>7, <3>1 DEF authorizeWait
  <2>8. ASSUME NEW r \in Requests, authorizeNoChecker(r) PROVE TypeOK'
    BY <2>8 DEF authorizeNoChecker, history
  <2>9. ASSUME NEW r \in Requests, authorizeReturn(r) PROVE TypeOK'
    BY <2>9 DEF authorizeReturn, fields, history
  <2>10. ASSUME NEW r \in Requests, SpuriousWakeup(r) PROVE TypeOK'
    BY <2>10 DEF SpuriousWakeup, fields, history
  <2>11. ASSUME NEW r \in Requests, NEW save \in BOOLEAN, checkPass(r, save)
         PROVE  TypeOK'
    BY <2>11 DEF checkPass, onCheckFinish, Waiting
  <2>12. ASSUME NEW r \in Requests, checkFail(r) PROVE TypeOK'
    BY <2>12 DEF checkFail, onCheckFinish, Waiting
  <2>13. ASSUME NEW r \in Requests, BackPressed(r) PROVE TypeOK'
    BY <2>13 DEF BackPressed, fields
  <2>14. CASE UNCHANGED vars
    BY <2>14 DEF vars, fields, history
  <2> QED
    BY <2>1, <2>2, <2>3, <2>4, <2>5, <2>6, <2>7, <2>8, <2>9, <2>10, <2>11,
       <2>12, <2>13, <2>14 DEF Next, authorize, AuthorizeCheckerActivity
<1> QED
  BY <1>1, <1>2, PTL DEF Spec

-----------------------------------------------------------------------------
(* NoStaleApproval is not inductive: while a call waits, a true            *)
(* mCheckResult must already be the work of an OK pressed since.           *)
ApprovalInv ==
    /\ mCheckResult \in BOOLEAN
    /\ pc \in [Requests -> {"idle", "mac", "check", "lock", "waiting",
                            "notified", "done"}]
    /\ granted \in [Requests -> BOOLEAN]
    /\ waited \in [Requests -> BOOLEAN]
    /\ okSince \in [Requests -> BOOLEAN]
    /\ \A r \in Requests : waited[r] => pc[r] \in {"waiting", "notified", "done"}
    /\ \A r \in Requests :
          pc[r] \in {"waiting", "notified"} /\ mCheckResult => okSince[r]
    /\ NoStaleApproval

(* No call that waited is admitted by an approval older than its wait,     *)
(* however the calls, the buttons and the wakeups interleave.              *)
THEOREM ApprovalsAreFresh == Spec => []NoStaleApproval
<1>1. Init => ApprovalInv
  BY ZenonT(30) DEF Init, ApprovalInv, NoStaleApproval
<1>2. ApprovalInv /\ [Next]_vars => ApprovalInv'
  <2> SUFFICES ASSUME ApprovalInv, [Next]_vars PROVE ApprovalInv'
    OBVIOUS
  <2> USE DEF ApprovalInv, NoStaleApproval
  <2>1. CASE setAuthorize
    BY <2>1 DEF setAuthorize, fields, history
  <2>2. CASE checkPassSave
    BY <2>2 DEF checkPassSave, fields, history
  <2>3. ASSUME NEW r \in Requests, authorize(r) PROVE ApprovalInv'
    <3>1. CASE authorizeName(r)
      BY <3>1 DEF authorizeName
    <3>2. CASE authorizeMac(r)
      BY <3>2 DEF authorizeMac, history
    <3>3. CASE authorizeKnown(r)
      BY <3>3 DEF authorizeKnown, history
    <3>4. CASE authorizeUnknown(r)
      BY <3>4 DEF authorizeUnknown, fields, history
    <3>5. CASE authorizeWait(r)
      BY <3>5 DEF authorizeWait
    <3>6. CASE authorizeNoChecker(r)
      BY <3>6 DEF authorizeNoChecker, history
    <3>7. CASE authorizeReturn(r)
      BY <3>7 DEF authorizeReturn, fields, history
    <3> QED
      BY <2>3, <3>1, <3>2, <3>3, <3>4, <3>5, <3>6, <3>7 DEF authorize
  <2>4. ASSUME NEW r \in Requests, SpuriousWakeup(r) PROVE ApprovalInv'
    BY <2>4 DEF SpuriousWakeup, fields, history
  <2>5. ASSUME NEW r \in Requests, NEW save \in BOOLEAN, checkPass(r, save)
        PROVE  ApprovalInv'
    BY <2>5 DEF checkPass, onCheckFinish, Waiting
  <2>6. ASSUME NEW r \in Requests, checkFail(r) PROVE ApprovalInv'
    BY <2>6 DEF checkFail, onCheckFinish, Waiting
  <2>7. ASSUME NEW r \in Requests, BackPressed(r) PROVE ApprovalInv'
    BY <2>7 DEF BackPressed, fields
  <2>8. CASE UNCHANGED vars
    BY <2>8 DEF vars, fields, history
  <2> QED
    BY <2>1, <2>2, <2>3, <2>4, <2>5, <2>6, <2>7, <2>8
       DEF Next, AuthorizeCheckerActivity
<1>3. ApprovalInv => NoStaleApproval
  BY DEF ApprovalInv
<1> QED
  BY <1>1, <1>2, <1>3, PTL DEF Spec

-----------------------------------------------------------------------------
(* Without spurious wakeups the blocked workers are exactly as many as the *)
(* dialogs that can still wake one and the waits that have lost theirs: no *)
(* answer is spent on nobody and no worker is left out, for any number of  *)
(* calls.                                                                  *)
THEOREM DialogsMatch == Spec => []DialogsMatchWaiters
<1> USE RequestsAssumption
<1>1. Init => DialogsMatchWaiters
  <2> SUFFICES ASSUME Init PROVE Waiting = {} /\ dialogs = {} /\ abandoned = 0
    BY FS_EmptySet DEF DialogsMatchWaiters
  <2> QED
    BY DEF Init, Waiting
<1>2. TypeOK /\ DialogsMatchWaiters /\ [Next]_vars => DialogsMatchWaiters'
  <2> SUFFICES ASSUME TypeOK, DialogsMatchWaiters, [Next]_vars, ~ spurious'
               PROVE  Cardinality(Waiting') = Cardinality(dialogs') + abandoned'
    BY DEF DialogsMatchWaiters
  <2> DEFINE Calm == Cardinality(Waiting) = Cardinality(dialogs) + abandoned
  <2>1. /\ IsFiniteSet(Waiting) /\ IsFiniteSet(dialogs)
        /\ Cardinality(Waiting) \in Nat /\ Cardinality(dialogs) \in Nat
        /\ abandoned \in Nat
    BY FS_Subset, FS_CardinalityType DEF TypeOK, Waiting
  <2>2. ASSUME ~ spurious, UNCHANGED <<Waiting, dialogs, abandoned>>
        PROVE  Cardinality(Waiting') = Cardinality(dialogs') + abandoned'
    BY <2>2 DEF DialogsMatchWaiters
  <2>3. ASSUME NEW r \in Requests, authorizeWait(r)
        PROVE  Cardinality(Waiting') = Cardinality(dialogs') + abandoned'
    <3>1. Waiting' = Waiting \cup {r} /\ r \notin Waiting /\ r \notin dialogs
      BY <2>3 DEF authorizeWait, Waiting, TypeOK
    <3>2. Cardinality(Waiting') = Cardinality(Waiting) + 1
      BY <2>1, <3>1, FS_AddElement
    <3>3. ~ spurious /\ Calm
      BY <2>3 DEF authorizeWait, DialogsMatchWaiters
    <3>4. CASE dialogs' = dialogs \cup {r} /\ abandoned' = abandoned
      <4>1. Cardinality(dialogs') = Cardinality(dialogs) + 1
        BY <2>1, <3>1, <3>4, FS_AddElement
      <4> QED
        BY <2>1, <3>2, <3>3, <3>4, <4>1
    <3>5. CASE dialogs' = dialogs /\ abandoned' = abandoned + 1
      BY <2>1, <3>2, <3>3, <3>5
    <3> QED
      BY <2>3, <3>4, <3>5 DEF authorizeWait, checkAuthorize
  <2>4. ASSUME NEW r \in Requests, NEW res \in BOOLEAN, r \in dialogs,
               onCheckFinish(res), dialogs' = dialogs \ {r},
               UNCHANGED <<spurious, abandoned>>
        PROVE  Cardinality(Waiting') = Cardinality(dialogs') + abandoned'
    <3>1. Cardinality(dialogs') = Cardinality(dialogs) - 1
      BY <2>1, <2>4, FS_RemoveElement
    <3>2. Calm
      BY <2>4 DEF DialogsMatchWaiters
    <3>3. Waiting # {}
      <4>1. dialogs # {} /\ Cardinality(dialogs) # 0
        BY <2>1, <2>4, FS_EmptySet
      <4>2. Cardinality(Waiting) # 0
        BY <2>1, <3>2, <4>1
      <4> QED
        BY <4>2, FS_EmptySet
    <3>4. PICK w \in Waiting : pc' = [pc EXCEPT ![w] = "notified"]
      BY <2>4, <3>3 DEF onCheckFinish
    <3>5. Waiting' = Waiting \ {w}
      BY <3>4 DEF Waiting, TypeOK
    <3>6. Cardinality(Waiting') = Cardinality(Waiting) - 1
      BY <2>1, <3>4, <3>5, FS_RemoveElement
    <3> QED
      BY <2>1, <2>4, <3>1, <3>2, <3>6
  <2>5. ASSUME NEW r \in Requests, BackPressed(r)
        PROVE  Cardinality(Waiting') = Cardinality(dialogs') + abandoned'
    <3>1. /\ Waiting' = Waiting /\ r \in dialogs /\ dialogs' = dialogs \ {r}
          /\ abandoned' = abandoned + 1 /\ Calm
      BY <2>5 DEF BackPressed, Waiting, DialogsMatchWaiters
    <3>2. Cardinality(dialogs') = Cardinality(dialogs) - 1
      BY <2>1, <3>1, FS_RemoveElement
    <3> QED
      BY <2>1, <3>1, <3>2
  <2>6. ASSUME NEW r \in Requests,
               \/ authorizeName(r) \/ authorizeMac(r) \/ authorizeKnown(r)
               \/ authorizeUnknown(r) \/ authorizeNoChecker(r)
               \/ authorizeReturn(r)
        PROVE  ~ spurious /\ UNCHANGED <<Waiting, dialogs, abandoned>>
    BY <2>6 DEF authorizeName, authorizeMac, authorizeKnown, authorizeUnknown,
                authorizeNoChecker, authorizeReturn, history, Waiting, TypeOK
  <2>7. ASSUME setAuthorize \/ checkPassSave \/ UNCHANGED vars
        PROVE  ~ spurious /\ UNCHANGED <<Waiting, dialogs, abandoned>>
    BY <2>7 DEF setAuthorize, checkPassSave, vars, history, Waiting
  <2>8. ASSUME NEW r \in Requests, SpuriousWakeup(r) PROVE FALSE
    BY <2>8 DEF SpuriousWakeup
  <2>9. ASSUME NEW r \in Requests, NEW save \in BOOLEAN, checkPass(r, save)
        PROVE  Cardinality(Waiting') = Cardinality(dialogs') + abandoned'
    BY <2>4, <2>9 DEF checkPass
  <2>10. ASSUME NEW r \in Requests, checkFail(r)
         PROVE  Cardinality(Waiting') = Cardinality(dialogs') + abandoned'
    BY <2>4, <2>10 DEF checkFail
  <2> QED
    BY <2>2, <2>3, <2>5, <2>6, <2>7, <2>8, <2>9, <2>10
       DEF Next, authorize, AuthorizeCheckerActivity
<1> QED
  BY <1>1, <1>2, Typing, PTL DEF Spec
-----------------------------------------------------------------------------
(* What is true of a call all the way through for SoleVerdict to hold at   *)
(* its end.  Before the dialog nothing has been answered.  A call that     *)
(* nobody overlaps is the only one active, so mDeviceName is its own, it   *)
(* finds no dialog on the screen and no other dialog comes up beside its   *)
(* own; from the answer to the return mCheckResult is that answer.         *)
Unanswered(r) ==
    pc[r] \in {"idle", "mac", "check", "lock"} => answer[r] = "none"

Alone(r) ==
    r \in Active => /\ \A q \in Active : q = r
                    /\ mDeviceName = NameOf[DeviceOf[r]]

Undisturbed(r) ==
    /\ pc[r] \in {"mac", "check", "lock", "notified"} => dialogs = {}
    /\ pc[r] = "waiting" => dialogs \subseteq {r} /\ answer[r] = "none"
    /\ pc[r] = "done" => r \notin dialogs
    /\ pc[r] \in {"waiting", "notified"} => shown[r] = NameOf[DeviceOf[r]]
    /\ pc[r] = "notified" => /\ answer[r] # "none"
                             /\ mCheckResult <=> answer[r] = "ok"
    /\ pc[r] = "done" /\ answer[r] # "none" =>
          /\ shown[r] = NameOf[DeviceOf[r]]
          /\ granted[r] <=> answer[r] = "ok"

Sole ==
    ~ spurious => \A r \in Requests :
        /\ Unanswered(r)
        /\ ~ overlapped[r] => Alone(r) /\ Undisturbed(r)
(* A call that starts when no other is active finds the screen empty.      *)
LEMMA ScreenIsEmpty ==
    ASSUME TypeOK, DialogsMatchWaiters, ~ spurious, Active = {}
    PROVE  dialogs = {}
<1>1. Waiting = {}
  BY DEF Waiting, Active
<1>2. /\ IsFiniteSet(dialogs) /\ Cardinality(dialogs) \in Nat
      /\ abandoned \in Nat /\ Cardinality(Waiting) = 0
  BY <1>1, RequestsAssumption, FS_Subset, FS_CardinalityType, FS_EmptySet
  DEF TypeOK
<1>3. Cardinality(dialogs) = 0
  BY <1>2 DEF DialogsMatchWaiters
<1> QED
  BY <1>2, <1>3, FS_EmptySet

(* Every step keeps Sole, call by call. *)
LEMMA SoleStep ==
    ASSUME TypeOK, DialogsMatchWaiters, Sole, [Next]_vars, ~ spurious'
    PROVE  Sole'
<1> USE DeviceAssumption
<1> SUFFICES ASSUME NEW r \in Requests
             PROVE  /\ Unanswered(r)'
                    /\ ~ overlapped'[r] => Alone(r)' /\ Undisturbed(r)'
  BY DEF Sole
<1> DEFINE Goal == /\ Unanswered(r)'
                   /\ ~ overlapped'[r] => Alone(r)' /\ Undisturbed(r)'
<1>1. ~ spurious
  BY DEF Next, vars, history, setAuthorize, authorize, authorizeName,
         authorizeMac, authorizeKnown, authorizeUnknown, authorizeWait,
         authorizeNoChecker, authorizeReturn, SpuriousWakeup,
         AuthorizeCheckerActivity, checkPass, checkFail, BackPressed,
         checkPassSave
<1>2. /\ Unanswered(r)
      /\ ~ overlapped[r] => Alone(r) /\ Undisturbed(r)
  BY <1>1 DEF Sole
<1>3. CASE setAuthorize \/ checkPassSave \/ UNCHANGED vars
  BY <1>2, <1>3
  DEF setAuthorize, checkPassSave, vars, fields, history, Unanswered, Alone,
      Undisturbed, Active
<1>4. ASSUME NEW q \in Requests, authorizeName(q) PROVE Goal
  <2>1. CASE q = r
    <3>1. ~ overlapped'[r] => Active = {}
      BY <1>4, <2>1 DEF authorizeName, TypeOK
    <3>2. Active = {} => dialogs = {}
      BY <1>1, ScreenIsEmpty
    <3> QED
      BY <1>2, <1>4, <2>1, <3>1, <3>2
      DEF authorizeName, Unanswered, Alone, Undisturbed, Active, TypeOK
  <2>2. CASE q # r
    BY <1>2, <1>4, <2>2
    DEF authorizeName, Unanswered, Alone, Undisturbed, Active, TypeOK
  <2> QED BY <2>1, <2>2
<1>5. ASSUME NEW q \in Requests, authorizeMac(q) \/ authorizeUnknown(q)
      PROVE  Goal
  BY <1>2, <1>5
  DEF authorizeMac, authorizeUnknown, fields, history, Unanswered, Alone,
      Undisturbed, Active, TypeOK
<1>6. ASSUME NEW q \in Requests,
             authorizeKnown(q) \/ authorizeNoChecker(q)
      PROVE  Goal
  BY <1>2, <1>6
  DEF authorizeKnown, authorizeNoChecker, history, Unanswered, Alone,
      Undisturbed, Active, TypeOK
<1>7. ASSUME NEW q \in Requests, authorizeWait(q) PROVE Goal
  BY <1>2, <1>7
  DEF authorizeWait, checkAuthorize, Unanswered, Alone, Undisturbed, Active,
      TypeOK
<1>8. ASSUME NEW q \in Requests, authorizeReturn(q) PROVE Goal
  BY <1>2, <1>8
  DEF authorizeReturn, fields, history, Unanswered, Alone, Undisturbed, Active,
      TypeOK
<1>9. ASSUME NEW q \in Requests, NEW res \in BOOLEAN, q \in dialogs,
             onCheckFinish(res), dialogs' = dialogs \ {q},
             answer' = [answer EXCEPT ![q] = IF res THEN "ok" ELSE "cancel"],
             UNCHANGED <<mDeviceName, granted, shown, overlapped>>
      PROVE  Goal
  BY <1>2, <1>9
  DEF onCheckFinish, Waiting, Unanswered, Alone, Undisturbed, Active, TypeOK
<1>10. ASSUME NEW q \in Requests, NEW save \in BOOLEAN, checkPass(q, save)
       PROVE  Goal
  BY <1>9, <1>10 DEF checkPass
<1>11. ASSUME NEW q \in Requests, checkFail(q) PROVE Goal
  BY <1>9, <1>11 DEF checkFail
<1>12. ASSUME NEW q \in Requests, BackPressed(q) PROVE Goal
  BY <1>2, <1>12
  DEF BackPressed, fields, Unanswered, Alone, Undisturbed, Active, TypeOK
<1>13. ASSUME NEW q \in Requests, SpuriousWakeup(q) PROVE FALSE
  BY <1>13 DEF SpuriousWakeup
<1> QED
  BY <1>3, <1>4, <1>5, <1>6, <1>7, <1>8, <1>10, <1>11, <1>12, <1>13
  DEF Next, authorize, AuthorizeCheckerActivity

(* Whatever other calls come before and after it, a call that nobody       *)
(* overlapped shows its own device and returns what the user pressed.      *)
THEOREM VerdictIsTheUsers == Spec => []SoleVerdict
<1>1. Init => Sole
  BY DEF Init, Sole, Unanswered, Alone, Undisturbed, Active
<1>2. TypeOK /\ DialogsMatchWaiters /\ Sole /\ [Next]_vars => Sole'
  <2>1. CASE spurious'
    BY <2>1 DEF Sole
  <2> QED
    BY <2>1, SoleStep
<1>3. Sole => SoleVerdict
  BY DEF Sole, SoleVerdict, Undisturbed
<1> QED
  BY <1>1, <1>2, <1>3, Typing, DialogsMatch, PTL DEF Spec
=============================================================================
