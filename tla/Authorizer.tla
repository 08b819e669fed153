----------------------------- MODULE Authorizer -----------------------------
(***************************************************************************)
(* The phone's authorization of a tablet: ApplicationManager.mAuthorizer,  *)
(* which a connection's worker thread calls and which blocks it until the  *)
(* user has answered, the AuthorizeCheckerActivity dialog on the main      *)
(* thread, and the KnownDeviceSaver preferences.                           *)
(*                                                                         *)
(* A request is one call of authorize().  mDeviceName, mDeviceMac and      *)
(* mCheckResult are single fields that all calls share.  Every critical    *)
(* section of mAuthorizeLock is one step, the wait() splits authorize().   *)
(***************************************************************************)
EXTENDS Integers, FiniteSets

CONSTANTS
    Requests,           \* bound: the calls of authorize()
    Devices,            \* the devices that connect
    DeviceOf,           \* the device whose info a request carries
    Names, Macs,        \* what getDeviceName and getDeviceMac extract from it
    NameOf, MacOf,      \* ... as functions of the device
    None                \* an unset field or preference

ASSUME RequestsAssumption == IsFiniteSet(Requests)
ASSUME DeviceAssumption ==
    /\ DeviceOf \in [Requests -> Devices]
    /\ NameOf \in [Devices -> Names]
    /\ MacOf \in [Devices -> Macs]
    /\ None \notin Names \cup Macs

VARIABLES
    mDeviceName, mDeviceMac, mCheckResult,
    mAuthorizeChecker,  \* whether setAuthorize was called
    mSharedPreferences, \* known devices: the encrypted mac saved for a name
    pc,                 \* where each authorize() is
    granted,            \* what each authorize() returned
    dialogs,            \* requests whose dialog is on the screen
    shown,              \* the name in the title of a request's dialog
    ui,                 \* the main thread: "idle", or "saving" in checkPass
    answer,             \* history: the button pressed in a request's dialog
    waited,             \* history: the call got as far as wait()
    okSince,            \* history: OK was pressed after the call began to wait
    overlapped,         \* history: another call was active during this one
    spurious,           \* history: some call was woken without a notify
    saved,              \* history: requests OK'd with the box checked
    abandoned           \* history: waits begun or left without a dialog

fields == <<mDeviceName, mDeviceMac, mCheckResult>>
history == <<answer, waited, okSince, overlapped, spurious, saved, abandoned>>
vars == <<fields, mAuthorizeChecker, mSharedPreferences, pc, granted, dialogs,
          shown, ui, history>>

Waiting == {r \in Requests : pc[r] = "waiting"}
Active == {r \in Requests : pc[r] \notin {"idle", "done"}}

(* createEncrypyMac: MD5, taken to be free of collisions. *)
createEncrypyMac(mac) == <<"md5", mac>>

(* The preferences survive restarts: any devices may have been saved.      *)
Init ==
    /\ mDeviceName = None
    /\ mDeviceMac = None
    /\ mCheckResult = FALSE
    /\ mAuthorizeChecker = FALSE
    /\ \E D \in SUBSET Devices :
          /\ \A d, e \in D : NameOf[d] = NameOf[e] => d = e
          /\ mSharedPreferences =
                [n \in Names |->
                    IF \E d \in D : NameOf[d] = n
                    THEN LET e == CHOOSE d \in D : NameOf[d] = n
                         IN  createEncrypyMac(MacOf[e])
                    ELSE None]
    /\ pc = [r \in Requests |-> "idle"]
    /\ granted = [r \in Requests |-> FALSE]
    /\ dialogs = {}
    /\ shown = [r \in Requests |-> None]
    /\ ui = "idle"
    /\ answer = [r \in Requests |-> "none"]
    /\ waited = [r \in Requests |-> FALSE]
    /\ okSince = [r \in Requests |-> FALSE]
    /\ overlapped = [r \in Requests |-> FALSE]
    /\ spurious = FALSE
    /\ saved = {}
    /\ abandoned = 0

-----------------------------------------------------------------------------
isKnownDevice(name, mac) ==
    /\ mSharedPreferences[name] # None
    /\ mSharedPreferences[name] = createEncrypyMac(mac)

saveKnownDevice(name, mac) ==
    mSharedPreferences' = [mSharedPreferences EXCEPT ![name] =
                              createEncrypyMac(mac)]

(* CollaborationService.onCreate, some time after the server has started.  *)
setAuthorize ==
    /\ ~ mAuthorizeChecker
    /\ mAuthorizeChecker' = TRUE
    /\ UNCHANGED <<fields, mSharedPreferences, pc, granted, dialogs, shown, ui,
                   history>>

-----------------------------------------------------------------------------
(* authorize(), line by line where other threads can come between.         *)
authorizeName(r) ==
    /\ pc[r] = "idle"
    /\ mDeviceName' = NameOf[DeviceOf[r]]
    /\ pc' = [pc EXCEPT ![r] = "mac"]
    /\ overlapped' = [q \in Requests |->
                         \/ overlapped[q]
                         \/ q \in Active
                         \/ q = r /\ (Active # {} \/ ui = "saving")]
    /\ UNCHANGED <<mDeviceMac, mCheckResult, mAuthorizeChecker,
                   mSharedPreferences, granted, dialogs, shown, ui, answer,
                   waited, okSince, spurious, saved, abandoned>>

(* Slip: the second field is not assigned. *)
authorizeMac_NotAssigned(r) ==
    /\ pc[r] = "mac"
    /\ pc' = [pc EXCEPT ![r] = "check"]
    /\ UNCHANGED <<fields, mAuthorizeChecker, mSharedPreferences, granted,
                   dialogs, shown, ui, history>>

authorizeMac(r) ==
    /\ pc[r] = "mac"
    /\ mDeviceMac' = MacOf[DeviceOf[r]]
    /\ pc' = [pc EXCEPT ![r] = "check"]
    /\ UNCHANGED <<mDeviceName, mCheckResult, mAuthorizeChecker,
                   mSharedPreferences, granted, dialogs, shown, ui, history>>

authorizeKnown(r) ==
    /\ pc[r] = "check"
    /\ isKnownDevice(mDeviceName, mDeviceMac)
    /\ mCheckResult' = FALSE
    /\ granted' = [granted EXCEPT ![r] = TRUE]
    /\ pc' = [pc EXCEPT ![r] = "done"]
    /\ UNCHANGED <<mDeviceName, mDeviceMac, mAuthorizeChecker,
                   mSharedPreferences, dialogs, shown, ui, history>>

authorizeUnknown(r) ==
    /\ pc[r] = "check"
    /\ ~ isKnownDevice(mDeviceName, mDeviceMac)
    /\ pc' = [pc EXCEPT ![r] = "lock"]
    /\ UNCHANGED <<fields, mAuthorizeChecker, mSharedPreferences, granted,
                   dialogs, shown, ui, history>>

(* checkAuthorize starts the dialog's activity.  Android may instead bring *)
(* one that is already on the screen to the front, with its old title.     *)
checkAuthorize(r) ==
    \/ /\ dialogs' = dialogs \cup {r}
       /\ shown' = [shown EXCEPT ![r] = mDeviceName]
       /\ UNCHANGED abandoned
    \/ /\ dialogs # {}
       /\ abandoned' = abandoned + 1
       /\ UNCHANGED <<dialogs, shown>>

(* Slip: the field is not cleared before the wait. *)
authorizeWait_NoReset(r) ==
    /\ pc[r] = "lock"
    /\ mAuthorizeChecker
    /\ checkAuthorize(r)
    /\ pc' = [pc EXCEPT ![r] = "waiting"]
    /\ waited' = [waited EXCEPT ![r] = TRUE]
    /\ UNCHANGED <<fields, mAuthorizeChecker, mSharedPreferences, granted, ui,
                   answer, okSince, overlapped, spurious, saved>>

authorizeWait(r) ==
    /\ pc[r] = "lock"
    /\ mAuthorizeChecker
    /\ mCheckResult' = FALSE
    /\ checkAuthorize(r)
    /\ pc' = [pc EXCEPT ![r] = "waiting"]
    /\ waited' = [waited EXCEPT ![r] = TRUE]
    /\ UNCHANGED <<mDeviceName, mDeviceMac, mAuthorizeChecker,
                   mSharedPreferences, granted, ui, answer, okSince,
                   overlapped, spurious, saved>>

(* Without a checker the call returns the field it has just cleared.       *)
authorizeNoChecker(r) ==
    /\ pc[r] = "lock"
    /\ ~ mAuthorizeChecker
    /\ mCheckResult' = FALSE
    /\ granted' = [granted EXCEPT ![r] = FALSE]
    /\ pc' = [pc EXCEPT ![r] = "done"]
    /\ UNCHANGED <<mDeviceName, mDeviceMac, mAuthorizeChecker,
                   mSharedPreferences, dialogs, shown, ui, history>>

(* Object.wait may return without a notify, and nothing tests for it.      *)
SpuriousWakeup(r) ==
    /\ pc[r] = "waiting"
    /\ pc' = [pc EXCEPT ![r] = "notified"]
    /\ spurious' = TRUE
    /\ UNCHANGED <<fields, mAuthorizeChecker, mSharedPreferences, granted,
                   dialogs, shown, ui, answer, waited, okSince, overlapped,
                   saved, abandoned>>

(* Slip: the field is cleared after the wait instead of before it. *)
authorizeReturn_ClearsLate(r) ==
    /\ pc[r] = "notified"
    /\ mCheckResult' = FALSE
    /\ granted' = [granted EXCEPT ![r] = FALSE]
    /\ pc' = [pc EXCEPT ![r] = "done"]
    /\ UNCHANGED <<mDeviceName, mDeviceMac, mAuthorizeChecker,
                   mSharedPreferences, dialogs, shown, ui, history>>

(* Slip: the woken call is kept until somebody says OK. *)
authorizeReturn_OnlyOk(r) ==
    /\ pc[r] = "notified"
    /\ mCheckResult
    /\ granted' = [granted EXCEPT ![r] = mCheckResult]
    /\ pc' = [pc EXCEPT ![r] = "done"]
    /\ UNCHANGED <<fields, mAuthorizeChecker, mSharedPreferences, dialogs,
                   shown, ui, history>>

(* The woken call has the lock again and returns the field as it now is.   *)
authorizeReturn(r) ==
    /\ pc[r] = "notified"
    /\ granted' = [granted EXCEPT ![r] = mCheckResult]
    /\ pc' = [pc EXCEPT ![r] = "done"]
    /\ UNCHANGED <<fields, mAuthorizeChecker, mSharedPreferences, dialogs,
                   shown, ui, history>>

-----------------------------------------------------------------------------
(* Slip: notifyAll, with no condition tested after the wait. *)
onCheckFinish_NotifyAll(checkResult) ==
    /\ mCheckResult' = checkResult
    /\ pc' = [r \in Requests |->
                 IF r \in Waiting THEN "notified" ELSE pc[r]]

(* Object.notify wakes any one of the threads that wait.                   *)
onCheckFinish(checkResult) ==
    /\ mCheckResult' = checkResult
    /\ IF Waiting = {} THEN UNCHANGED pc
       ELSE \E w \in Waiting : pc' = [pc EXCEPT ![w] = "notified"]

(* The OK button of r's dialog; save is the state of the check box.        *)
checkPass(r, save) ==
    /\ ui = "idle"
    /\ r \in dialogs
    /\ onCheckFinish(TRUE)
    /\ dialogs' = dialogs \ {r}
    /\ ui' = IF save THEN "saving" ELSE "idle"
    /\ answer' = [answer EXCEPT ![r] = "ok"]
    /\ saved' = IF save THEN saved \cup {r} ELSE saved
    /\ okSince' = [q \in Requests |->
                      okSince[q] \/ pc[q] \in {"waiting", "notified"}]
    /\ UNCHANGED <<mDeviceName, mDeviceMac, mAuthorizeChecker,
                   mSharedPreferences, granted, shown, waited, overlapped,
                   spurious, abandoned>>

(* checkPass, continued outside the lock: the fields are read only now.    *)
checkPassSave ==
    /\ ui = "saving"
    /\ saveKnownDevice(mDeviceName, mDeviceMac)
    /\ ui' = "idle"
    /\ UNCHANGED <<fields, mAuthorizeChecker, pc, granted, dialogs, shown,
                   history>>

(* The Cancel button of r's dialog. *)
checkFail(r) ==
    /\ ui = "idle"
    /\ r \in dialogs
    /\ onCheckFinish(FALSE)
    /\ dialogs' = dialogs \ {r}
    /\ answer' = [answer EXCEPT ![r] = "cancel"]
    /\ UNCHANGED <<mDeviceName, mDeviceMac, mAuthorizeChecker,
                   mSharedPreferences, granted, shown, ui, waited, okSince,
                   overlapped, spurious, saved, abandoned>>

(* The Back key finishes the activity; no button's listener runs.          *)
BackPressed(r) ==
    /\ ui = "idle"
    /\ r \in dialogs
    /\ dialogs' = dialogs \ {r}
    /\ abandoned' = abandoned + 1
    /\ UNCHANGED <<fields, mAuthorizeChecker, mSharedPreferences, pc, granted,
                   shown, ui, answer, waited, okSince, overlapped, spurious,
                   saved>>

authorize(r) ==
    \/ authorizeName(r) \/ authorizeMac(r)
    \/ authorizeKnown(r) \/ authorizeUnknown(r)
    \/ authorizeWait(r) \/ authorizeNoChecker(r) \/ authorizeReturn(r)

AuthorizeCheckerActivity(r) ==
    \/ \E save \in BOOLEAN : checkPass(r, save)
    \/ checkFail(r)
    \/ BackPressed(r)

Next ==
    \/ setAuthorize
    \/ \E r \in Requests :
          authorize(r) \/ SpuriousWakeup(r) \/ AuthorizeCheckerActivity(r)
    \/ checkPassSave

Spec == Init /\ [][Next]_vars

(* Worker threads that can run do run; the user need not press anything.   *)
Fairness == \A r \in Requests : WF_vars(pc[r] # "idle" /\ authorize(r))

FairSpec == Spec /\ Fairness

-----------------------------------------------------------------------------
(* The type of the state. *)
TypeOK ==
    /\ mDeviceName \in Names \cup {None}
    /\ mDeviceMac \in Macs \cup {None}
    /\ mCheckResult \in BOOLEAN
    /\ mAuthorizeChecker \in BOOLEAN
    /\ mSharedPreferences \in
          [Names -> {createEncrypyMac(m) : m \in Macs} \cup {None}]
    /\ pc \in [Requests -> {"idle", "mac", "check", "lock", "waiting",
                            "notified", "done"}]
    /\ granted \in [Requests -> BOOLEAN]
    /\ dialogs \in SUBSET Requests
    /\ shown \in [Requests -> Names \cup {None}]
    /\ ui \in {"idle", "saving"}
    /\ answer \in [Requests -> {"none", "ok", "cancel"}]
    /\ waited \in [Requests -> BOOLEAN]
    /\ okSince \in [Requests -> BOOLEAN]
    /\ overlapped \in [Requests -> BOOLEAN]
    /\ spurious \in BOOLEAN
    /\ saved \in SUBSET Requests
    /\ abandoned \in Nat
    /\ \A r \in Requests : pc[r] # "idle" => mDeviceName # None
    /\ \A r \in Requests : pc[r] \notin {"idle", "mac"} => mDeviceMac # None
    /\ \A r \in dialogs : pc[r] \notin {"idle", "mac", "check", "lock"}
    /\ ui = "saving" => mDeviceName # None /\ mDeviceMac # None

(* A call that waited returns true only if the user pressed OK in some     *)
(* dialog after that call had begun to wait: a stale approval, left in     *)
(* mCheckResult by an earlier call, never admits a later one.              *)
NoStaleApproval ==
    \A r \in Requests :
        pc[r] = "done" /\ waited[r] /\ granted[r] => okSince[r]

(* The dialogs on the screen and the blocked workers match: each answer    *)
(* has a worker to wake, and the workers no answer will ever wake are as   *)
(* many as the dialogs left by Back or never created (no loop around       *)
(* wait(): a spurious wakeup breaks the match).                            *)
DialogsMatchWaiters ==
    ~ spurious => Cardinality(Waiting) = Cardinality(dialogs) + abandoned

(* A call that no other overlapped is decided by its own dialog, which     *)
(* named its device, and by the button pressed there (unless a spurious    *)
(* wakeup left a dialog behind that answers for a later call).             *)
SoleVerdict ==
    \A r \in Requests :
        /\ pc[r] = "done"
        /\ ~ overlapped[r]
        /\ answer[r] # "none"
        /\ ~ spurious
        => /\ shown[r] = NameOf[DeviceOf[r]]
           /\ granted[r] <=> answer[r] = "ok"

(* While the user keeps answering and no dialog is abandoned, every worker *)
(* blocked in authorize() returns to its connection.                       *)
EveryCallReturns ==
    ([]<>(dialogs = {}) /\ [](abandoned = 0)) =>
        \A r \in Requests : pc[r] = "waiting" ~> pc[r] = "done"

(* What the dialog says of its check box, strings.xml:6: "Always allow     *)
(* this connection".  A device is saved only if the box was checked in a   *)
(* dialog for that very device.                                            *)
OnlyThisDeviceIsSaved ==
    [][\A n \in Names, m \in Macs :
          mSharedPreferences'[n] = createEncrypyMac(m) =>
              \/ mSharedPreferences[n] = createEncrypyMac(m)
              \/ \E r \in saved : /\ shown[r] = n
                                  /\ NameOf[DeviceOf[r]] = n
                                  /\ MacOf[DeviceOf[r]] = m]_vars
=============================================================================
