# lifecyclemgr in TLA+

`lifecyclemgr` is the daemon of a telematics unit (TCU) that knows in which
power state the NAD, the network access device, is. The microcontroller (MCU)
notifies power modes, wakeup reasons and the state of battery and temperature;
the daemon turns them into an `LC_State` and announces it to its clients over
D-Bus (CommonAPI) and Legato. The clients register, ask to keep the NAD awake,
wake it up, and the daemon passes that on to the MCU as `PENDING_TCU_ACTION`.

Source files are abbreviated:

| | |
|---|---|
| SRV | `src/lifecycle/lifecyclemgr/src/C_COMMONAPI_SERVER_LifecycleAPI_IMP.cpp` |
| HDR | `src/lifecycle/lifecyclemgr/inc/C_COMMONAPI_SERVER_LifecycleAPI_IMP.h` |
| CLI | `src/lifecycle/lifecyclemgr/src/commonapi_client.cpp` |
| CTL | `src/lifecycle/lifecyclemgr/src/C_CONTROLLER_IMP.cpp` |
| LEG | `src/lifecycle/lifecyclemgr/src/LegatoServer.cpp` |
| XLSX | `src/SOC_LIFECYCLE_STATE_MACHINE.xlsx`, the table of states and triggers |

The repository has no tests. What its parts are meant to do is said by XLSX,
by comments and by log messages.

## Inventory

### Components

| component | state | operations | talks to |
|---|---|---|---|
| client registry (SRV) | `m_clients`, `m_clients_mtx` | `LC_RegisterClient`, `LC_UnRegisterClient`, `LC_StayActive`, and the same from Legato | MCU (`update_TCU_Parameters`, under the mutex); reads the NAD state |
| power mode (SRV, CLI) | `NAD_LifecycleState`, `NAD_additionalLifecycleStateInfo`, `noTCUPowerMode` | `setPowerMode`, `evaluateAndBroadcastPowerMode`, `startTCUOnlyTimer`, `setPMWakeupSource`, `setSocketWakeupSource`, `set_LC_MainBattery`, `set_LC_VTMstate`, `setNWSync`, `LC_Wakeup`, `LC_JumpToListen2`, `LC_GetPowerState_plus` | MCU; D-Bus event; Legato server |
| Legato server (LEG) | `m_LC_NOTIFICATION_BroadcastInfo_plus`, a static cache; the event id | `ReportLcStateEvent_plus`, `OnLifeCycleEvent`, `lifecycle_*` | registry, emergency call; Legato clients |
| wakeup socket (CTL) | netlink socket, `g_mutex`, the local `eWakeupReason` | `ql_recvfrom_kernel`, `ql_lpm_handler` | kernel, wake lock, MCU; stores the wakeup source |
| emergency call, RTC (SRV) | none | `LC_Emergency`, `LC_SetRTC` | MCU |
| subscriptions (CLI) | the proxies | `SOC_LIFECYCLE_ProxyAvailable`, `SOC_NTW_API_ProxyAvailable` | start the callbacks and an lpm thread |
| dormant code (SRV) | `bBuBMode`, `m_modemState` | `evaluateLC_Emergency`, `setAndroidState`, `run_Modem` | not called |
| `C_LEGATO_PROXY_le_appCtrl` | | | not built |
| start-up (`lifecycle_init.cpp`, `C_APP_IMP.cpp`, CTL) | | `main`, `init` | starts the threads, in sequence |

### Threads

| thread | runs | name in the models |
|---|---|---|
| D-Bus dispatcher | the `LC_*` handlers, one after the other | `dispatcher` |
| Legato main loop | the `lifecycle_*` handlers and the events queued for a handler that `lifecycle_AddELifeCycleHandler` added, one after the other | `legato`; in `LegatoServer` the variable `loop` |
| "someip rcv thread" (CTL:102) | the callbacks of the MCU's attributes, one after the other; it sleeps in `evaluateAndBroadcastPowerMode` (2 s) and in `startTCUOnlyTimer` (21, 120 or 200 s) | `rcv` |
| lpm threads (CTL:192) | one message of the kernel at a time, 4 s each; a new thread each time the proxy becomes available | `LpmThreads`; in `PowerMode` an action |
| network manager's callback (CLI:153) | `setNWSync` | an action of its own |

`m_clients_mtx` guards the table, and only the table; `g_mutex` guards the
handler of the lpm threads, and only that. Nothing guards `NAD_LifecycleState`,
the information beside it, or the static cache of the Legato server. A handler
that calls the MCU waits for the answer. Nothing is persisted, so there is no
recovery to model. The calls to the MCU may fail, or time out at the daemon and
be carried out later; their `CallStatus` is ignored but in `triggerLC_Emergency`.

### What makes each component correct

* Registry: a client is in the table once; an iterator is never used after
  the table changed under it; each operation happens at one instant; the MCU hears the
  decisions in the order they were taken; every caller is answered; a LOCK is
  judged against a state the NAD was in; a NAD is kept awake exactly as long as
  somebody holds a LOCK.
* Power mode: the last mode the MCU notified is the one in effect; no
  state is announced that nobody assigned; every store is announced, and the
  last announcement is current; each notification takes effect at one instant,
  in order, and its window is over before the next; a state is left only along XLSX.
* Legato server: a handler ends up with what the cache holds, the cache with
  what the members hold, and so Legato clients with what the D-Bus clients were told.
* Wakeup socket: one thread at most reads the socket; each message of the kernel
  is handled once, in order, and its own source is stored before the MCU hears of it.
* Emergency call: OK means that the MCU took the request, and nothing the same
  client asked for before arrives after it; a timer that was set stays set.

The hard part of all of it is threads: `PROJECT.json` lists the hazards, each
at its line.

## Modules

| module | what it is |
|---|---|
| `LifecycleTypes` | the enumerations all modules share |
| `AtomicRegistry` | the abstract registry: a set of clients, each operation one step |
| `ClientRegistry` | the registry as it is: lock, search, evaluate, send, store, unlock, print |
| `PowerTypes` | the notifications of the MCU and what the callbacks map them to |
| `AtomicPowerMode` | the abstract power mode: each notification one step |
| `PowerMode` | the receive thread, the dispatcher, and the threads that only store |
| `LegatoServer` | the cache, its writers, the events and the main loop |
| `Announcements` | `PowerMode` and `LegatoServer` composed |
| `WakeupChannel` | the abstract wakeup channel: messages served in order, one at a time |
| `WakeupSocket` | the lpm threads, their netlink port, `g_mutex` and the kernel's buffer |
| `EmergencyCall` | the two requests that only hand something on, and the wire to the MCU |
| `MCClientRegistry`, `MCPowerMode`, `MCLegatoServer`, `MCAnnouncements`, `MCWakeupSocket`, `MCEmergencyCall` | the small instances TLC checks |
| `ClientRegistry_proofs`, `AtomicRegistry_proofs`, `PowerMode_proofs`, `AtomicPowerMode_proofs`, `LegatoServer_proofs`, `Announcements_proofs`, `WakeupSocket_proofs`, `EmergencyCall_proofs` | the theorems |

A definition whose comment begins with *Mutant* is a plausible mistake in the
operator after it; no specification uses it. It is there to see that the
properties notice.

### ClientRegistry

A thread has a program counter `pc[t]` and the locals of its handler,
`call[t]`. The three operations share the path

    idle -> lock -> find -> evaluate -> [send -> [store]] -> unlock
         -> printLock -> print -> reply -> idle

`find` to `unlock` is the critical section, `print` the second one, in
`PrintRegisteredClients`. A blank name goes from `idle` straight to
`printLock`, and unregistering one ends in `PrintBlank`, without a reply
(SRV:596-602).

| action | code |
|---|---|
| `RegisterClient`, `UnRegisterClient`, `StayActive` | the handlers up to `lock()`; trimming is `Trim`, a function on names that the code's two loops make idempotent; stay-active does not trim |
| `Lock`, `PrintLock` | `m_clients_mtx.lock()` |
| `Find` | the search, and the first comparison with the NAD state |
| `EvaluateRegister`, `EvaluateUnRegister`, `RefuseUnknown`, `Grant`, `Refuse` | the branches; LOCK and RELEASE are recorded here |
| `Send` | `update_TCU_Parameters`: answered, timed out (and on its way in `late`), or lost |
| `TakeLate` | the MCU carries out a call that nobody waits for any more |
| `Store` | BUB is recorded only after the call (SRV:1127) |
| `Unlock`, `PrintClients`, `PrintBlank`, `Reply` | the way out |
| `PublishState` | the environment: any thread of `PowerMode` stores a state |

The NAD state is unguarded, and `evaluateLC_StayActive` compares it twice,
with `NAD_STAY_ALIVE_SERVICES` and then with `NAD_STAY_ALIVE_CONNECTED`. The
model takes the first look in `Find` and the second one in `Grant` or
`Refuse`, with `PublishState` possible in between. `client_t` is kept to name
and `stayActive`: `lcState` is only printed, and the eCall flags belong to the
dormant `evaluateLC_Emergency`. Calls arrive in the order they were made, on
the same connection, so one that is answered finds no other on its way.
`Heard` is what the MCU will have heard last once `late` is empty. History
variables: `owed`, the action a handler settled on last (given up for `Heard` if
the call to the MCU is lost), and `seen`, the NAD states a thread was judged under.

### PowerMode

`rcv` takes one notification at a time from `queue` and runs its callback to
the end. `pc` names the places where the code can be overtaken:

    idle -> [activate ->] tail -> evaluate -> [settle ->] notify -> fire
         -> [window ->] idle

`activate` is the STAY_ACTIVE request of `SYSTEM_LC_STAY_ALIVE_SERVICES`
(SRV:291), `tail` the two branches after the switch (SRV:434), `settle` the two
seconds (SRV:473), `window` the sleep of `startTCUOnlyTimer`. The dispatcher
runs `LC_Wakeup` as check (`LC_Wakeup`), second look (`WakeupLaw`,
`WakeupServices`), store (`LawStore`, `WakeupStore`), announcement
(`ReadMembers`, `FireOnDispatch`); `LC_JumpToListen2` sends STAY_INACTIVE and is
one step. A call to the MCU may fail, and nobody looks (`Tell`); that it may also
be carried out late is left to `ClientRegistry`, for nothing here reads `tcu`. The
lpm thread and the network manager's callback are single stores.

* A local without initialiser is a value of its own (`Unassigned`) or, where
  the code goes on to use it (`serverBatteryStatus`, CLI:100), a choice.
* The members the constructor leaves alone start as any literal of
  `InitialStates` and `InitialInfos`.
* The announcement reads the five members in one step (`ReadMembers`) and sends
  later. The code reads them one after the other; an event that mixes old and
  new members is one that no longer matches when it is sent.
* History variables: `reported`, the last mapped mode the MCU notified;
  `woken`, whether `LC_Wakeup` stored after the last mode; `outdated`, whether
  the last event differed from the members when it was sent.

`AtomicPowerMode` is what the MCU is promised. Its `inbox` holds the
notifications that have not taken effect, its `window` is open from the store of
`NAD_STAY_ALIVE_SERVICES` to the end of `startTCUOnlyTimer`, and `owing` says
which announcements are due or under way. `Apply`, `Ignore`, `StoreSource` and
`StoreSupply` each take one notification, and none while an announcement of the
receive thread is owed or a window is open; besides them only `WakeUp`
(`LC_Wakeup`) and `StoreSilently` (the lpm thread, the network manager) change a
member. `PowerMode` implements it (`PowerModeIsAtomic`): a mode the receive
thread has in hand is still in the inbox (`Inbox`) until
`evaluateAndBroadcastPowerMode` stores it, and the steps before that store, the
branches of `setPowerMode` and its requests to the MCU, stutter.

Left out: `bBuBMode` (only dead code reads it), `LC_GetPowerState_plus` (a pure
read), `SERVICE_PROVIDER_CONNECTION_STATUS` and `CONNECTION_UNLOCK_STATUS`
(constants). The Legato report after the D-Bus event is added by `Announcements`.

### LegatoServer

A thread that announces goes on to `ReportLcStateEvent_plus`, which converts its
arguments one after the other into the static cache and raises an event:

    idle -> enter -> state -> wakeup -> can -> batt -> vtm -> send -> idle

The main loop runs one thing at a time. For an event, `OnLifeCycleEvent` reads
the cache field by field (`loop` goes from `state` to `vtm`) and calls the
handler: it delivers what the cache holds by then, not what was reported.
A registration reads the NAD state, waits for the registry (`register`), and
converts its answer with `capiLcStateToLeLcState`, which writes the cache as well.

| action | code |
|---|---|
| `StoreMembers`, `StoreSilently` | the environment: a member changes, and is announced or not |
| `ReportLcStateEvent_plus`, `DropReport` | LEG:143, with and without an event id |
| `Convert` | one of the five conversions |
| `Raise` | `le_event_Report` |
| `AdvertiseEvents` | `le_event_CreateId`, the first thing the loop runs |
| `lifecycle_AddELifeCycleHandler`, `lifecycle_RemoveELifeCycleHandler` | the handlers of the Legato interface |
| `OnLifeCycleEvent`, `ReadField`, `CallHandler` | the event's way to a handler |
| `lifecycle_RegisterClient`, `AnswerRegister` | the request, and the conversion of its answer |

The queue of `le_event` is not in the repository and is modelled from how LEG
uses it: an event is queued for every handler there is, a handler's events are
served in order, and removing a handler discards what waits for it. History
variables: `stale`, the announced fields whose last writer was behind the
members when it wrote; `patched`, whether the cached state was last written by
a registration. The handlers that only pass a request on to the registry or to
the emergency call are in those modules.

### Announcements

`DaemonNext` runs both modules side by side on the same threads: the members of
`PowerMode` are `nad` of `LegatoServer`, its threads the writers. A step of the
power mode that stores an announced member (`StoresOnReceive`,
`StoresOnDispatch`) also sends its thread towards a report (`WillReport`).
The report runs after the event on D-Bus (`Report` needs `~ Announcing`), and
the thread does nothing else until it is over (`Free`): the stay-alive window,
the next notification and the next request wait for it, as the call in
`NotifyAllRegisteredClientsNadStateInfo` makes them.

### WakeupSocket

Each time the proxy becomes available an lpm thread is started:

    none -> open -> allocate -> receive -> lock -> store -> acquire -> settle
         -> [send ->] unlock -> receive

and to `ended` when the socket cannot be created or bound, or the buffer not
allocated. All threads bind the same netlink port, `getpid()`, so the second
bind fails, and a thread that gives up after its bind leaves the port taken.
`receive` to `unlock` is the endless loop: `recvmsg`, then `ql_lpm_handler` under
`g_mutex`: the wakeup source, the wake lock, four seconds, and for some
reasons the event to the MCU. A message without a known prefix keeps the reason
of the message before it (`Garbage`, before the first one).

The kernel is external. A full buffer loses the message and makes the next
`recvmsg` fail once (`KernelDrops`, `ReceiveFails`); the code does not look at
what `recvmsg` returns and handles the cleared buffer like a message without
prefix. `WakeupChannel` is what remains to be promised: `Serve` takes the next
message, `ServeAgain` stands for such a failed read, `Store` stores the wakeup
source of what is being served, and only then may `Tell` send it and `Done` go
on to the next. Another thread may store another source meanwhile; that is in
`PowerMode`, and here `source` is what the handler stored.

### EmergencyCall

`triggerLC_Emergency`, from either thread, and `LC_SetRTC` make a synchronous
call: `idle -> call -> wait -> evaluate -> idle`. The service may be away
(`CallUnavailable`), a request may be lost (`Lose`), and a call that timed out
(`TimesOut`) may leave its request on the wire, to be taken later. The wire is
in order. A state without a case in `triggerLC_Emergency` goes from `idle` to
`evaluate`, with whatever the stack held for `_internalCallStatus`. History
variables: `accepted`, whether the MCU has taken the caller's current request;
`latest`, whose emergency request it took last. CommonAPI's calls and the MCU's
side of them are external.

## What the runs show

| run | specification | checks | states |
|---|---|---|---|
| `registry_safety` | `Spec` | `TypeOK`, `MutexOwned`, `IteratorsValid`, `UniqueNames`, `McuHeardLastDecision`, `VerdictMatchesWindow`, `Strengthening` | 2,122,245 |
| `registry_calls` | `FairSpec` | `RegistryIsAtomic`, that is `AtomicRegistry!Spec` under the mapping `Table`, `Request`, `Result`; `CallsAnswered` | 139,926 |
| `powermode_safety` | `Spec` | `TypeOK`, `NoUnassignedBroadcast`, `AppliesWhatWasReported`, `EventCurrent`, `WindowMeetsServices`, `SettleIsBlind`; `PowerModeIsAtomic`, that is `AtomicPowerMode!Spec` under the mapping `Inbox`, `Members`, `Window`, `Owing` | 1,765,296 |
| `powermode_liveness` | `FairSpec` | `ModeTakesEffect`, `ModeIsAnnounced`, `PowerModeIsAtomic` | 109,776 |
| `legato_cache` | `FairSpec` | `TypeOK`, `HandlersUpToDate`, `CacheCurrent`, `StateIsTold` | 399,679 |
| `announcements` | `DaemonSpec` | `ClientsAgree`, `LegatoHearsLastMode`, `LegatoIsServed` (which is `LegatoServer!Spec`) | 1,678,708 |
| `wakeup_socket` | `FairSpec` | `TypeOK`, `OneReader`, `ServedInOrder` (which is `WakeupChannel!Spec`), `HeadIsServed` | 56,358 |
| `emergency_answers` | `Spec` | `TypeOK`, `OkMeansAccepted`, `OkStands`, `TimerStands` | 2,093,292 |
| `registry_release` | `Spec` | `InactiveMeansUnlocked` is violated | |
| `registry_unregister` | `Spec` | `ActiveMeansLocked` is violated | |
| `powermode_wakeup` | `Spec` | `WakeupFollowsTable` is violated | |
| `legato_can` | `Spec` | `SameCanStatus` is violated | |

The last four are disagreements between the code and what its comments, its
log messages or XLSX say:

* **registry_release.** One client holds LC_LOCK; another one releases, or asks
  for something it is refused (SRV:1109, SRV:1132). The MCU hears STAY_INACTIVE,
  which the code logs as "No more Pending TCU actions trigerred" (SRV:1114).
  `PENDING_TCU_ACTION` is one value for all clients, and nobody looks at the
  others: the `isStayActive` the comment at SRV:1139 would have called is gone.
* **registry_unregister.** A client locks and unregisters. Its entry is erased
  (SRV:626) and the MCU is told nothing: "When Lifecycle can switch off
  (StayActive false), then we send ACK to VuC" (SRV:630) stands above code that
  is commented out.
* **powermode_wakeup.** `LC_Wakeup` finds the NAD in LISTEN_3 (SRV:679-682) and
  calls the MCU; the power button switches the NAD off meanwhile; SRV:701
  stores NAD_STAY_ALIVE_SERVICES over NAD_OFF and announces it. XLSX:35 lets
  every state be switched off and has no row out of NAD_OFF.
* **legato_can.** `capiLCCanStatusToLeCanStatus` turns ON into OFF and OFF into ON
  (LEG:99-111), where the other conversions keep the name. The log prints the
  argument and the result as one and the same status, "Dbus CAN Status"
  (LEG:147) and "LE CAN Status" (LEG:164). A Legato client is told that the
  network sleeps when the D-Bus clients are told that it is awake.

What the passing runs do not say is as telling. A hazard in `PROJECT.json` that
no property catches is listed with an empty list of properties and a note: most
of them are answers and values the code chooses in a case for which no document
says what they should be.

* `McuHeardLastDecision` gives up a decision whose call was lost: the client is
  answered OK all the same, and nothing contradicts that. It does cover a call that times
  out: the mutex is released then, the next decision is sent, and the
  first one arrives late but before it.
* `CallsAnswered` exempts the unregistering of a blank name, which the code
  answers with nothing (SRV:601).
* `PowerModeIsAtomic` keeps the wakeup source the code leaves in place, after a
  window (SRV:479) and for an unknown reason (SRV:196), and so does not judge it.
* `LegatoHearsLastMode` speaks of the last mode only.
* `OkStands` ends with the next emergency request of another caller.

* `EventCurrent` needs its excuse. Two announcements race, and the stale one
  may arrive last: clients then believe in a state the NAD has left, until the
  next notification.
* `VerdictMatchesWindow` is as strong as the code is: a NAD on its way from
  STAY_ALIVE_CONNECTED to STAY_ALIVE_SERVICES between the two comparisons is
  in a stay-alive state all the time, and its client is refused.
* `SettleIsBlind` is not a merit. The two seconds before the test for an IMU
  wakeup are slept by the thread that would store the wakeup, so they cannot
  help a reason that is notified after the mode.
* `WindowMeetsServices` and `PowerModeIsAtomic` hold because the windows are slept
  on the receive thread: a mode that comes during a window of 200 seconds waits for its end. `LC_Wakeup` is
  the exception. It stores whatever is under way, and the wakeup of the low-power emergency
  mode may be completed in a window another mode has opened.
* `CacheCurrent`, `ClientsAgree` and `LegatoHearsLastMode` need `stale` and
  `patched`. Two reports may write the cache in the opposite order of their
  stores, and a registration writes a state it read before it waited for the
  registry: Legato clients then keep the old value until the next report.
* `ServedInOrder` allows a reason to be served once more, for a message nobody
  knows or for a read that failed.
* `OkMeansAccepted` says nothing of `LC_SetRTC`, which answers OK whatever
  became of its call, nor of a state without a case, which is answered by what
  the stack held. `TimerStands` speaks of the status `LC_SetRTC` logs, not of
  its answer: where that is not SUCCESS the client is told OK and no timer need be set.

### Bounds, and why they are enough

* One dispatcher and one Legato loop: that is how many threads the daemon has
  that touch the registry. With the fair mutex, further threads would only
  repeat them; the theorems hold for any number.
* Names: `registry_safety` has a name, its spelling with a blank before it and
  the empty name, so that trimming, looking up untrimmed, and a second
  registration of the same client all happen; `registry_calls` has the same
  ones. `registry_release` has two clients, `app` and `ecall`, because its
  property relates one client to another one. That the registry is atomic is
  proved for any number of names.
* `LateBound` = 1 in `registry_safety`: one call is on its way late while the next
  decisions are taken and lost, or wait for it. The other three registry runs have no late
  calls: the properties of `registry_calls` do not see them, and the two violations need none. The theorems hold for any bound.
* Conditions: stay-alive for services on backup supply, stay-alive connected on
  CAN and main battery, and ON: LOCK, BUB and their refusals all occur, and the
  state moves between any two. Where only the table matters, two conditions in
  which LOCK is granted, and BUB in one of them.
* `QueueBound` = 1 in `PowerMode`: one notification may wait while another one is
  handled, which is enough for two in sequence to race with the dispatcher. The
  theorems hold for any bound.
* `MCNotifications`: a mode with a window, a listen mode, the low-power
  emergency mode (both of which `LC_Wakeup` leaves), both kinds of mode that
  assign no state, the IMU, the temperature and the parameter that leaves
  `serverBatteryStatus` unassigned. The lpm thread and the CAN status are in
  the liveness run.
* `PowerModeIsAtomic` is checked in both runs: `powermode_safety` has every kind of
  notification, `powermode_liveness` the lpm thread's timer, whose source
  depends on the state in effect at that instant, and the network manager, which
  may store between any two steps. A mode in hand and one that waits are two in the
  inbox of `AtomicPowerMode`.
* `legato_cache`: two writers, which is how many threads announce, and one
  handler, since handlers do not see each other. `EventBound` = 2: an event may
  wait while a second report is written. Two states and a CAN status that
  changes silently, so that a report may carry an old value of either kind of field.
* `announcements`: the MCU goes to listen mode 3 again and again, `LC_Wakeup`
  leaves it, one handler listens; `QueueBound` = 1, `EventBound` = 2. That makes the
  two threads race in every way that matters to the cache. The windows, the other
  modes and the batteries are in the `PowerMode` runs, and the theorems of the
  composition hold for all of them.
* `wakeup_socket`: two lpm threads, the first one and one after the proxy came
  back; a message the MCU is told of, one that is only stored and one without a
  known prefix; `QueueBound` = 2, so that a message can wait behind
  another one and the buffer can overrun with both in it.
* `emergency_answers`: two states with a case and one without, two timers, so
  that a late one differs from the one that was set (they are symmetric),
  `WireBound` = 2, so that a late request and a fresh one are on their way together.

The bounds on counters are `LateBound`, `QueueBound` (of `PowerMode` and of
`WakeupSocket`), `EventBound` and `WireBound`; the proofs assume of them that they are natural
numbers, `WakeupSocket`'s a positive one. Nothing stops in these models: all runs check for deadlock.

### Fairness

`CallsAnswered` assumes that a thread that can step does (`WF` on `Proceed`):
the dispatcher and the loop are scheduled, and CommonAPI's synchronous call
returns, with an answer or with a time-out. For the mutex it assumes more, `SF`
on `TakeMutex`: a thread that waits while the mutex is free again and again gets
it. POSIX does not promise that of `std::mutex`; it is what a kernel's futex
queue amounts to here, where every holder leaves the mutex to run a whole
callback before it comes back. Nobody is forced to call.

`ModeTakesEffect` and `ModeIsAnnounced` assume weak fairness of the receive
thread and of a handler that has begun on the dispatcher: sleeps end and calls
return. The MCU need not notify, and nobody need call `LC_Wakeup`.

`StateIsTold` assumes weak fairness of each writer's report and of what the main
loop has begun, and strong fairness of `OnLifeCycleEvent`, for each handler: the
loop takes its events in the order they came, so one that waits has its turn,
whatever the clients ask for between two of them.

`HeadIsServed` assumes weak fairness of each lpm thread: it is scheduled and its
four seconds end. The kernel need not send and the proxy need not come back.
`announcements` and `emergency_answers` check safety only and assume no fairness.

## What is proved

TLAPS checks the eight `*_proofs` modules, for all values of the constants that
satisfy the modules' assumptions:

* `ThreadsAssumption`: the two kinds of threads are disjoint, and `NoThread` is
  none of them.
* `NamesAssumption`: `Trim` maps names to names, leaves the blank name blank and
  is idempotent, as the two loops at SRV:988-1012 are.
* `DefaultAssumption`: `LC_Status{}` is not ALREADY_REGISTERED. With it a
  registration from Legato would never insert (SRV:1046 tests the status it was
  handed). The generated enumeration is not in the repository.
* `SocketAssumption`: the buffer holds a message at least, and `Nobody` is
  neither a thread nor a reason.
* `ConditionsAssumption`, `LateAssumption`, `ParametersAssumption`, `ReportAssumption`,
  `HandlersAssumption`, `CallAssumption`: typing, bounds that are natural
  numbers, and markers that are not values. `ReportAssumption` is not assumed of
  the composition but follows there (lemma `ServedAssumption`).

| module | theorem | statement |
|---|---|---|
| `ClientRegistry_proofs` | `Invariance` | `Spec => []IInv` |
| | `TypeCorrect`, `MutualExclusion`, `IteratorSafety`, `Uniqueness`, `DecisionsInOrder`, `FairVerdicts`, `LooksAreBounded` | `Spec => []P` for `TypeOK`, `MutexOwned`, `IteratorsValid`, `UniqueNames`, `McuHeardLastDecision`, `VerdictMatchesWindow`, `Strengthening` |
| `AtomicRegistry_proofs` | `HandlersAreAtomic` | `Spec => RegistryIsAtomic`: the registry implements the atomic one |
| `PowerMode_proofs` | `Invariance` | `Spec => []IInv` |
| | `TypeCorrect`, `AssignedBeforeUse`, `LastModeWins`, `StoresAreAnnounced` | `Spec => []P` for `TypeOK`, `NoUnassignedBroadcast`, `AppliesWhatWasReported`, `EventCurrent` |
| | `NoImuWhileSettling` | `Spec => SettleIsBlind`, an action property |
| | `WindowsAreMet` | `Spec => []WindowMeetsServices` |
| `AtomicPowerMode_proofs` | `NotificationsAreAtomic` | `Spec => PowerModeIsAtomic`: the power mode implements the atomic one |
| `LegatoServer_proofs` | `Invariance` | `Spec => []IInv` |
| | `TypeCorrect`, `HandlersAreUpToDate`, `CacheIsCurrent` | `Spec => []P` for `TypeOK`, `HandlersUpToDate`, `CacheCurrent` |
| `Announcements_proofs` | `PowerModeIsKept` | `DaemonSpec` implements `PowerMode`'s `Spec` |
| | `LegatoServerIsKept` | `DaemonSpec => LegatoIsServed`: it implements `LegatoServer`'s |
| | `DaemonIsAtomic` | `DaemonSpec => PowerModeIsAtomic`, from the first and `NotificationsAreAtomic` |
| | `ClientsEndUpAlike`, `LegatoIsUpToDate` | `DaemonSpec => []P` for `ClientsAgree`, `LegatoHearsLastMode` |
| `WakeupSocket_proofs` | `Invariance` | `Spec => []IInv` |
| | `TypeCorrect`, `ReadsAlone` | `Spec => []P` for `TypeOK`, `OneReader` |
| | `ServesInOrder` | `Spec => ServedInOrder`: the lpm threads implement the channel |
| `EmergencyCall_proofs` | `Invariance` | `Spec => []IInv` |
| | `TypeCorrect`, `OkIsAccepted`, `OkRemains`, `TimerRemains` | `Spec => []P` for `TypeOK`, `OkMeansAccepted`, `OkStands`, `TimerStands` |

**Registry.** The invariants are proved together, because they lean on each
other. Mutual exclusion gives the lemma `Alone`: two threads in the critical
section are one. So an erase or a push_back cannot happen under another
thread's iterator (`IteratorsValid`), a name that was searched for in vain is
still absent when it is pushed (`UniqueNames`), and only one thread can be
about to send (`McuHeardLastDecision`, where a call that times out becomes the
last of `late`, and one that is carried out leaves `Heard` as it is). `Strengthening` adds what a handler
knows on its way: that it registers a trimmed name, that the action it will
send is the one owed, and what its first look at the NAD state tells about the
states seen since. `TypeOK` needs `IteratorsValid` in turn: an erase or a
record at a position outside of the table would not be one.

**The registry is atomic.** A handler maps to a request that is made, takes
effect in one step inside its critical section (the insertion, the erasure, the
record or the refusal) and is answered; every other step stutters. `CallFacts`, kept
by the lemmas on `Calling`, says what a thread's locals are at each place, so that
the answer under way can be mapped to the abstract result. The lemmas about the
table (an `Append` adds one client, a removal or a record takes or changes the
one with that name) rest on `UniqueNames` and `IteratorsValid`.

**Power mode.** `AppliesWhatWasReported` only speaks of a receive thread at
rest. `LastReported` extends it to every place: the last mapped mode is the
last one in the queue, or else the one in hand, or else in effect.
`HandlerFacts` ties the locals to the program counter; in particular,
`noTCUPowerMode` is cleared from the switch to the branches after it and
nowhere else, which is why it swallows one mode and no more. `EventPromised`
extends `EventCurrent`: the last event is current, outdated, or an announcement
is under way. The supporting lemma `MappingType` says that the switch maps to
literals of `LC_State` only. `WindowFacts` says where `timer` may be set: from
the announcement of the store to the end of the sleep. With it a step that
changes the state under an open window can only be one of the dispatcher
(`WindowMeetsServices`).

**Notifications are atomic.** One lemma per action of `PowerMode` says which step of
`AtomicPowerMode` it is, or that it is none. The mapping follows the receive
thread: `Inbox` puts the mode in its hand in front of the queue, so that
`Take` of a mode stutters, `EvaluateOther` and `EvaluateWakeup` are `Apply`, and
a mode that ends at `tail` without a case is `Ignore`; the invariant is needed to
know that what `evaluate` stores is the mapping of the mode in hand
(`NoUnassignedBroadcast`) and that a window is not yet open there
(`WindowFacts`). The composition with the Legato server implements it as well
(`DaemonIsAtomic`), because it implements `PowerMode`.

**Legato server.** `Delivery` carries `HandlersUpToDate` through the steps: what
a handler was called with, or is about to be called with, is the cache as far as it has been
read, or another event is to come, from the queue or from a report under way.
`Refresh` does the same for `CacheCurrent`: a field is as the member, or a
writer still has it before it, or it is stale. `LocalFacts` types the locals.

**Announcements.** Two refinements. A step of the composition is a step of
`PowerMode` or leaves it alone, which makes all of that module's theorems hold
here. It is also a step of `LegatoServer` or leaves that alone: every store is of one
announced member (`ReceiveStores`, `DispatchStores`), and what is not followed
by a report changes at most one silent member (`QuietStores`). The properties
follow from the two modules' invariants: at rest the last event is current
(`EventCurrent`), the cache is too (`CacheCurrent`), and a handler that will
not be called again has the cache (`HandlersUpToDate`).

**Wakeup socket.** `ReaderFacts` says that a bound port belongs to a thread that
has begun to read or that gave up after its bind, never to one that may bind
again. So the reason of the thread with the port is the channel's, a step of
any other thread is a stutter, and `g_mutex`, which no second reader waits for,
is held exactly while a reason is served. `Stored` follows the reader's place, so
that the store of the source falls into the round of its own message.

**Emergency call.** `WireFacts` says that a live request on the wire is its caller's
current one and its last, and that a caller whose request was accepted has
none left on the wire; an answer then belongs to the request it is taken for
(`CallFacts`), and nothing of the same caller follows it. `TimerFacts`, an
invariant relative to `IInv` (lemma `TimerInvariance`), adds that only the
dispatcher sends timers and that an accepted one is the one that is set; an
emergency call of the Legato loop touches neither.

Only model-checked: `CallsAnswered`, `ModeTakesEffect`, `ModeIsAnnounced`,
`StateIsTold` and `HeadIsServed`, because liveness under fairness is out of the
prover's reach. Every other property of a passing run is proved as well.

## Simplifications

Steps of the code that are one step here, and what the environment is assumed
to do. No property tells the difference, except where one is named.

* `EvaluateWakeup` and `EvaluateSettle` test and store in one step. A store of
  another thread between the test (SRV:461-464, SRV:474) and what follows it could
  only choose another length of the window, and windows have no length.
* `Permitted` reads state, CAN status and battery for BUB (SRV:1116-1118) in one
  step after the first look. `VerdictMatchesWindow` speaks of LOCK.
* `ReadMembers` reads the five members of an announcement in one step.
* `ReceiveFails` stands for a `recvmsg` that fails after an overrun. One that fails
  for another reason (EINTR) acts the same way, with nothing lost.
* Requests to the MCU arrive in the order they were sent (`Accept`, `Send`):
  `McuHeardLastDecision`, `OkStands` and `TimerStands` rest on it.
* A client of `EmergencyCall` is the thread its calls run on: `OkStands` speaks of the
  dispatcher's requests or the Legato loop's, not of two D-Bus clients apart.

## Not modelled

* `evaluateLC_Emergency`, `setAndroidState`, `run_Modem`: not called;
  `C_LEGATO_PROXY_le_appCtrl.cpp`: not built.
* `main`, `C_APP_IMP`, the controller's `init`: sequential; the build files.
* `LC_GetPowerState_plus`, `lifecycle_GetLifeCycleState_plus`: they read, on the
  dispatcher and on the main loop, and change nothing.
* The subscriptions of `ProxyAvailable`: a proxy that comes back is subscribed
  again, and a notification may then arrive twice, which is one notification more
  for `PowerMode`.
* The registry and the power mode in one module. What the registry needs of the
  power mode is a NAD state that changes at any time (`PublishState`), and the
  power mode needs nothing of the registry. They share `PENDING_TCU_ACTION`: the
  window's STAY_INACTIVE (SRV:450) and the one of `LC_JumpToListen2` may withdraw
  a LOCK, as a second client may in `registry_release`. No document says what
  should happen then.
* Durations. A window of 120 s under a comment that says 100 (SRV:478) is a
  window; the clocks are not modelled.
* A torn read of one enumeration. They are 32-bit words and aligned; a data
  race on them shows an older or a newer value, which the interleavings do.

## What could come next

* Two clients in `registry_calls`, and an MCU that answers the actions with the
  modes it goes to: `PENDING_TCU_ACTION` would close the loop between the
  registry and the power mode.
* The subscriptions, if the behaviour of the CommonAPI binding were pinned down.
