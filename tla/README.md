# Vetera Bridge in TLA+

Specifications, model-checking configurations and proofs for the firmware in
this repository: an ESP32 that a phone dials over Bluetooth RFCOMM, that
terminates the phone's PPP with lwIP and shares a WiFi connection with it
through NAPT.

Paths below are relative to the repository (`src/main/...` is where the
firmware's own code is). All commands run in this directory:

    tlc -config MCPppLink.cfg MCPppLink      # the other runs: see "Runs"
    tlapm PppLinkProofs.tla                  # the other proofs: *Proofs.tla

## 1. The system

### Tasks and shared state

| task | runs | touches |
|---|---|---|
| BTstack run loop | `rfcomm_packet_handler`, HCI handlers, timers, trampolines | the claim, the pcb, the pre-PPP script, sending |
| lwIP tcpip task | a FIFO mailbox: PPP input, API calls, `update_nat_lwip_ctx`; `ppp_output_cb`, `ppp_status_cb` | the pcb, the output stream, `ppp_up_flag`, `app_state`, NAPT |
| event task | `wifi_event_handler` | the candidate cycle, `wifi_connected`, `app_state` |
| httpd task | `web_ui.c` handlers | the saved list, NVS, kicks |
| retry, kick, recovery tasks | one-shot tasks, each behind a `*_running` flag | `wifi_connect_begin`, `wifi_soft_reset` |
| watchdog task | heartbeat | asks for recoveries and restarts |
| dns, proxy relay, button tasks | their own loops | their own state |

Flags shared by tasks are read and written in short critical sections under
`state_mux`. What makes the program hard is what happens *between* two such
sections: almost every handler reads a flag in one and acts on it in another.
The BTstack task calls the tcpip task synchronously (`pppapi_*`); the tcpip task
answers only through trampolines (`tx_cb_reg`) and timers. Everything external
(BTstack, lwIP, the WiFi driver) is modelled from how this code uses it and is
marked `external` in PROJECT.json.

### Components

| component | state | operations | talks to | correct when | modelled |
|---|---|---|---|---|---|
| `ppp_link.c` | claim (`session_active`, `active_cid`), auto mode (`auto_*`), `ppp`, `ppp_teardown`, `ppp_up_flag`, stream, `tx_notify_pending`, script | RFCOMM events, HCI answers, PPP output and status, `update_nat` | BTstack, lwIP, gateway | one phone at a time; a pcb belongs to the session served and is freed once; data stays in its session; every wakeup arrives | PppLink, PppData |
| `gateway.c` | `app_state`, `bt_connected`, `wifi_kick_running`, reopen timer | the `gw_on_*` hooks, kick task, heartbeat | ppp_link, wifi_multi | the state shown is the state; visible exactly when nobody is connected | Bridge, PppLink |
| `wifi_multi.c` | saved list, `wifi_connected`, `scan_in_progress`, candidates, retries | connect cycle, event handler, retry, soft reset, list API | driver, gateway, web | a cycle always ends and another always follows while one is due | WifiMulti |
| `http_proxy.c` | flow table, sessions with deadlines, settings | input and output hooks (tcpip), relay task | lwIP, web | a connection of the phone keeps its flow and reaches the site it dialled; bytes keep their order; checksums stay right; every session ends | Proxy, ProxySession, RelayHeader, Settings |
| `dns_fwd.c` | two sockets, restart flag, cache | server task, watchdog check | lwIP, wifi_multi | an answer goes to its question; a task that hangs is replaced | DnsFwd |
| `bookmarks.c` | count and entries, in NVS and RAM | set, remove, init | NVS, web | the list is what was asked for; a power cut costs at most one entry | Bookmarks |
| `bt_bootstrap.c` | state machine, `done_addrs` | pairing trigger, SDP, RFCOMM out, timers | BTstack, gateway | it always ends, leaves no link behind and does not take down the phone's own session | BtBootstrap |
| `bt_name.c`, `debug_log.c` | value and queued flag | set, trampoline | BTstack, NVS | the last value set is the one applied, and kept | Settings |
| `sec_button.c` | saved and effective mode | long press | NVS | one change per press, in effect after the reboot | Settings |
| `web_ui.c` | none of its own | handlers | all | a page shows what is, a form changes what it says | Bridge (networks), Bookmarks, Settings |
| VHCI transport | byte ring, callbacks | receive, deliver | controller, BTstack | packets come out as they went in, and none waits | VhciRing |
| `sdp_lap.c`, `main.c`, port, TLV, uart, stdio, audio | static or boot-time, or not compiled in | | | | no: nothing interleaves |

The hazards of each are listed with their lines in PROJECT.json.

## 2. The modules

```
LinkService            abstract: who has the link, is PPP offered or up
   ^ implemented by        ^ used as the link by
PppLink                PppData        Bridge --extends--> WifiMulti
   ^                      ^              ^
PppLinkProofs          PppDataProofs  BridgeProofs
MCPppLink              MCPppData      MCBridge

Proxy   ProxySession   RelayHeader     BtBootstrap  VhciRing  Bookmarks
   ^          ^             ^          Settings  DnsFwd
   +----- ProxyProofs ------+              ^
   +------- MCProxy --------+          MCDevice extends the five;
                                       BtBootstrapProofs: BtBootstrap, VhciRing;
                                       BookmarksProofs, SettingsProofs and
                                       DnsFwdProofs one each
```

**LinkService** is what the link promises: an owner is claimed and released,
service is offered to an owner, comes up and goes down, and is withdrawn only
after the owner is gone, so nobody can claim the link while the PPP of the last
owner exists.

**PppLink** (`ppp_link.c`, visibility from `gateway.c`) follows the BTstack task
(`bt_pc`), the tcpip task (`tc`), its mailbox (`mbox`) and the synchronous call
(`api`). RFCOMM events are one action per case of the handler
(`IncomingBusy/Hold/Accept`, `OpenFailed`, `Opened`, `ClosedOther/Held/Session`,
`DataPacket`); `ppp_session_start` is split at its two blocking calls
(`Created`, `CreateFailed`, `Listening`, `ListenFailed`, `Aborted`) and
`ppp_session_stop` likewise (`StopClose`, `Stopped`). `ppp_status_cb` is split
between what it sets and what it does after reading `ppp_teardown`
(`StatusDown`, `StatusEnd`). A pcb has a `phase`; touching a freed one sets
`fault`, freeing one outside its close sets `early`. The refinement is
`ImplementsService`: the owner is `active_cid`, service is read off the pcb and
`ppp_up_flag`.

**PppData** (`ppp_link.c`, the bytes) is written over LinkService: the script's
questions and answers, `ppp_output_cb` in its four steps against the sending
side. A unit in the stream is the number of the session it was produced in,
which is all that "no data crosses into the next session" needs.

**WifiMulti** (`wifi_multi.c`): the handler is split where it calls
`update_nat()` and between reading and setting `app_state` (`Disconnected` /
`GotIp`, `EvRead`, then `CandidateLost`, `NetworkLost`, `BridgeLost`,
`NothingToDo` or `EvShow`). `handle_scan_done` is four steps: `ScanDone` clears
the flag (342), `CandidatesFound` raises `cand_count` (369-386),
`wifi_try_candidate` shows WIFI_CONNECTING (335) and `TryConnects` connects (337),
so other tasks run in every gap. `wifi_connect_begin`, which has no lock, is three:
`BeginChecks` (260 and `wifi_connected` of 264), `CycleChecks` (the rest of 264 and
266) and `BeginScan`; `checking` and `begins` count the tasks before and after the
second. The end of a cycle (`cand_count` cleared, then the retry or the failure) is
one step of the event task: a task that passes in between is one that passes
just after it. The list calls are a critical section and `Leave`. The soft reset has three
steps. The retry delay has no value: a delay ends when it ends. Two history
variables name what two of the properties exclude: `emptied` (a change has left
the list empty) and `races` (how often a task passed the checks while a cycle was
under way that they do not see, `CycleUnseen`).

**Bridge** adds `gateway.c`'s hooks, the NAPT message and the web handlers, with
the link as LinkService, and has the Next of the whole.

**Proxy** (`http_proxy.c`, connections). The flow table is a sequence, oldest
stamp first, so `flow_slot` and the idle rule are about positions and no clock is
needed: `TimeIdles` makes a prefix idle. `HookSyn` is the whole input hook for a
SYN, `Packet` the two hooks for any other packet, each under `flow_mux` in one
step. The relay task is one pass of its loop in steps (`Select`, sessions,
`Accept` on each listener, `Deadlines`): between `select` finding two waiting
connections and the second `accept`, everything else may happen. A connection
is known by the phone and by lwIP separately ("left": the phone dropped it and
lwIP has not heard), because that is how a port comes to be used again while the
old session is still open. Two ghosts name the ways the code itself takes a flow
from a living connection: `crossed` (sess_close() of an older connection of the
port) and `evicted` (idle in a full table).

**ProxySession** is one `sess_t` from accept to close: the four stages, the partial
reads and writes of `splice()`, half-closes, the rewritten head and the CONNECT
reply, deadlines. A byte is a unit of a sequence; what parsing yields is part of
the request, and `ReplyEnd` is the first "ok" or "no" of the answer, where the
head of the proxy's reply ends. **RelayHeader** is the checksum update on words of any base.

**BtBootstrap** (`bt_bootstrap.c`, with the pairing, session and RSSI cases of
`gateway.c`'s HCI handler). Each BTstack event is an action with its status as a
choice. `link` says who brought up a baseband link: "bridge" if the bootstrap
paged the phone and nobody else uses it.

**VhciRing** (`hci_transport_esp32_vhci.c`) keeps the ring byte by byte, tags and
packets, since the space check is about bytes; `framed` turns false when the code
reads something that is not the packet of its tag.

**Bookmarks** (`bookmarks.c` and its pages): each NVS call is a step, `WriteFails`
and `bookmarks_init` may come between any two. The browser keeps the page it was
given, old or not, so an index may be stale. `bm_render_links` leaves out entries
it cannot read: entry `k` is shown behind the readable ones before it
(`Readable`, `LinksBefore`).

**Settings** (`bt_name.c`, `debug_log.c`, `sec_button.c`, the settings part of
`http_proxy.c` and `ppp_link.c`, and their pages): one flash, four settings, the
httpd, BTstack and button tasks, reboots and power cuts. `doubt` holds the
settings whose last choice NVS need not have: it was not written yet, writing
failed, or the security page dropped it.

**DnsFwd** (`dns_fwd.c`): every task ever started keeps its own program counter and
query; the two sockets, the flag and the handle are shared as in the code. A
socket has the number of the task that opened it and `bound` says which of them
lwIP gave port 53. `Hang` may stop a task in any socket call and `Resume` let it
go on.

Names follow the source (`auto_begin`, `wifi_try_candidate`,
`scan_in_progress`, ...). An operator `X_something` next to `X`, marked
"Mutant", is a plausible mistake in `X`; no specification uses it. It is there
to show that the property it is listed with in PROJECT.json notices it.

## 3. Runs

| run | what it asks | result |
|---|---|---|
| `link` (MCPppLink.cfg) | two phones, two channels, two pcb addresses, a mailbox of one; invariants, liveness and refinement | holds, 141 584 states |
| `link_free` (MCPppLinkFree.cfg) | is the pcb only freed inside the close? | no: finding 1 |
| `data` (MCPppData.cfg) | three sessions, two owners, a stream of 3 units, frames up to 2, chunks of 2 | holds, 22 650 states |
| `data_redial` (MCPppDataRedial.cfg) | is a redial on the same channel answered? | no: finding 2 |
| `bridge` (MCBridge.cfg) | the whole bridge, one network, one list change or one unseen cycle | holds, 7 987 425 states |
| `wifi` (MCWifi.cfg) | liveness of the connect cycle, two networks, two list changes or unseen cycles, no phone | holds, 22 528 states |
| `bridge_state` (MCBridgeState.cfg) | is APP_BRIDGE shown exactly while both links are up? | no: finding 3 |
| `bridge_cycle` (MCBridgeCycle.cfg) | is a candidate cycle never left behind? | no: finding 4 |
| `proxy` (MCProxy.cfg) | three phone ports, four sites, two flow slots, one session slot; one relay session; checksums in base 4 | holds, 249 327 states |
| `device` (MCDevice.cfg) | bootstrap, HCI ring, bookmarks, settings and DNS, each on its own | holds, 608 474 states |
| `boot_session` (MCBootSession.cfg) | does a bootstrap leave the phone's own session alone? | no: finding 5 |
| `dns_hang` (MCDnsHang.cfg) | is a DNS task that hangs replaced? | no: finding 6 |

`proxy` and `device` put modules that share no variable side by side: a variable
`unit` says which of them moves, so the run explores the sum of their states.

### What the properties say

* `ClaimMatchesChannel` the claim names exactly the channel RFCOMM holds, on all
  the ways in and out (busy, held, given up, failed open, failed start).
* `AutoModeDecision`, `HeldAcceptIsDecided` a phone is let in on its own answers
  only, and one that is held is always decided or gone.
* `PcbOwnership` every pcb in use belongs to the session being served and every
  queued message is for it: no leak, no use after free, except after the early
  free of finding 1, which `early` marks.
* `RedialArmed` PPP that died on an open channel listens again.
* `HandlerReturns` the BTstack task always comes back from its calls into tcpip.
* `HiddenExactlyWhenConnected`, `ShownAgain` visibility against the reopen timer.
* `ImplementsService` PppLink implements LinkService.
* `SentInOwnSession` an RFCOMM packet carries only output of its own session.
  `ScriptAnswered` a script that asks is answered.
* `WakeupChain` waiting output has a turn coming, with one exception, which is the
  code's: the CAN_SEND_NOW handler that sends the script's answer returns (582-591)
  without asking for another turn, and output that had asked for this one waits
  until PPP writes its next frame. `turn_taken` marks that wait and nothing else:
  it ends with the next frame written. TLC reaches it in eleven steps (a phone
  that starts PPP while its answer is still owed). So the property is about the
  hand-over through `tx_notify_pending`; it does not rule this stall out.
* `NatFollows` NAPT is on iff both links are up, or an update is on its way.
* `ConnectedIsReal` with all events handled `wifi_connected` is what the driver
  has, except when a soft reset took down an address obtained after the watchdog
  looked (`reset_raced`: the code then leaves `wifi_connected` set with the
  radio off, until the next disconnect, and the property does not rule that out).
* `CycleAlive` candidates always have an attempt, an event or a handler pending, with
  an unchanged list and while no task passed the checks of `wifi_connect_begin()`
  with a cycle under way that they do not see (three ways, below). `CycleEnds`,
  `Settles` the same as liveness. `Settles` bounds nothing from below: giving up
  a cycle too early would not break it.
* `ReconnectingForever` in APP_BRIDGE_NO_WIFI somebody is always on the way to
  the next attempt, over eight hand-overs between tasks, as long as no change has
  left the list empty.
* `OneFlowPerPort`, `FlowServesConnection`, `SessionKnowsItsSite` the flow table
  against the phone's connections: its answers get the address it dialled, and
  the relay connects to that site, whatever used the port before. A connection whose
  flow an older one's close took (`crossed`) or that lost it idle in a full table
  (`evicted`) is excepted: in the code both happen.
* `ClosedOnlyForWant`, `BacklogServed` the relay closes a connection unserved only
  for want of a slot or memory (or of its flow, in the two named ways), and no
  connection waits for ever. The second connection of one pass *can* be closed
  for want of a slot (`room` is found once, 923-927, 950-951): the property
  says so.
* `RelayedInOrder`, `SessionEnds` each end receives exactly the other's bytes behind
  the rewritten head, and "done" means all of them; every session ends.
* `ChecksumsStayRight` a receiver finds both sums right after any rewrites.
* `NoLinkLeftBehind`, `BootstrapEnds`, `RssiOfThisSession` a bootstrap ends, with no
  link the bridge paged; an RSSI shown is of the session shown.
* `PassedUpInOrder`, `RingIsEmptied` packets come out whole, in order, once, as long
  as every tag has its packet; none is left until the next comes. The ring *can*
  lose its framing: the check at 145 leaves out the two bytes of the tag. From then
  on (`framed` is false) the property says nothing.
* `ListAsAsked`, `InterruptedChange` the bookmarks shown are those asked for and those
  on flash; a power cut loses no entry but the changed one, or the last during
  a delete, and never counts an entry that is not there. After a write that fails
  the list asked for is the one then shown: what is compared is the requests since.
* `LastChoiceApplied`, `KeptAcrossReboot` the settings in effect are the last chosen,
  now and after a reboot, but for the choices in `doubt`: a power cut between the
  keys of the proxy's settings, or a choice the security page drops, is
  excepted, since in the code it is lost.
* `TellsOwnAnswer`, `SlowServerReplaced` the phone gets the answer to its own question,
  also from the cache; a task that still sees the flag is replaced by one that
  serves.

`ReconnectingForever` and `CycleAlive` each have a condition that the proofs of
section 6 turned out to need, and TLC shows that it is needed:

* with two list changes, the list can be emptied, the retry task find nothing to
  do and end, and a network be saved again (which kicks only when PPP is up):
  nobody is then on the way. So `~emptied`.
* `wifi_connect_begin()` reads `wifi_connected`, `scan_in_progress` and `cand_count` one
  after the other (264), acts on them later (273-278) and holds no lock, so a task
  can go on to its scan with a cycle under way. There are three ways (`CycleUnseen`):
  another task has passed the checks and has not set the flag yet (277); the
  event task has cleared the flag (342) and not raised `cand_count` yet (369-386);
  or WiFi has connected between the reading of `wifi_connected` and that of
  `cand_count` (571-575). Two tasks are not needed: with the second way, a single
  retry or kick task passes, shows WIFI_SCANNING (274) after the handler's
  WIFI_CONNECTING (335) and has its scan refused; the candidate's disconnect then
  finds nothing to do in that state (552) and the candidates stay. TLC shows this
  without any list change (19 steps) when `races = 0` is left out of `CycleAlive`.
  The comment at 64-65 counts on the flags. The runs let a task pass in the second and
  third way, so all other properties are checked through it.

### Findings

1. **`link_free`**: `ppp_teardown` is set (ppp_link.c:432) before the close is
   posted. If the peer's own termination is in the middle of `ppp_status_cb`,
   it reads the flag as set and frees the pcb; the posted `pppapi_close` then
   works on freed memory. The comment at 57-58 says it is freed during the close.
2. **`data_redial`**: the comment at 375-376 re-arms PPP "so a redial on the same
   channel works", but `ppp_frame_seen` is only reset at CHANNEL_OPENED (560),
   so the redial's script gets no answer.
3. **`bridge_state`**: GOT_IP reads `ppp_link_up()` as false, PPP comes up and
   sets APP_BRIDGE, GOT_IP then sets APP_WAIT_BT (wifi_multi.c:580-583). The
   state stays wrong while both links are up.
4. **`bridge_cycle`**: clearing the list during an attempt makes the handler
   ignore the disconnect that would have ended the cycle; `cand_count` stays
   above zero and `wifi_connect_begin` returns at 264 from then on.
5. **`boot_session`**: boot_reset's comment (bt_bootstrap.c:77-81) keeps the ACL of
   "the phone's own live session", but only the start timer asks whether there is
   one (254). A phone that dials in while it is probed, queried or held loses its
   session at the end of the bootstrap.
6. **`dns_hang`**: the watchdog is to "restart the DNS task if it hung"
   (dns_fwd.c:396). The hung task keeps port 53; the new one has taken over the
   socket variables, fails to bind, sets them to -1 and leaves without a handle;
   the watchdog ignores a NULL handle (406). DNS stays off until a reboot, even if
   the old task comes back.

## 4. Bounds

* Two phones, channels and pcbs are enough for one session to meet the next and
  for a third event of the first to arrive late; a mailbox of 1 makes every
  poster wait. Pcb addresses are reused after they are freed.
* `StreamSize` 3 with frames of 2 overflows in the second frame; `ChunkSize` 2
  leaves a rest. `MaxSessions` 3 lets an answer or a chunk survive two changes.
* `MaxRetries` and `MaxAttempts` 2 or 3 (7 and 2 in the code): the counts are only
  compared with the limit, so the model saturates at it. The networks of a run
  are fewer than `WIFI_LIST_MAX`: a full list is not modelled.
* `MaxUpsets`: changes of the list, and passes with a cycle unseen, in one behaviour
  (their sum). One is enough for each kind to meet every state of the cycle.
* `MaxBegins` = 1: one task at a time inside `wifi_connect_begin` (`checking` and
  `begins` together), so of the three ways above the first is not in the runs. The
  code does not ensure this (hazard at wifi_multi.c:264); it bounds the runs only:
  the theorems about Bridge hold for any number.
* The watchdog acts whenever it sees APP_BRIDGE_NO_WIFI, at any time, which
  includes every behaviour with its count of ten heartbeats.

* `proxy`: three ports and two flow slots make the table full with one connection
  waiting; `SessMax` 1 makes the second accept of a pass find no slot;
  `MaxDials` 3 uses a port again while its old connection is open, also across a
  new PPP session. `UP_SZ` 2 and `DOWN_SZ` 3 are smaller than some heads, bodies and
  answers, so every overflow and every cut occurs. Base 4 has all carries and both
  zeros of one's complement; the code's is 65536.
* `device`: `BOOTSTRAP_MAX_DONE` 1 fills the table of addresses with the first of two
  phones (a full table only means that an address is tried again). `RingSize` 8
  holds one packet of 3 and one of 1 with their tags and leaves 0 bytes, or is
  left with fewer than two. `BM_MAX` 3 lets a delete shift two entries, with two
  faults. One name and one switch beside "none", three changes, one boot and one
  failing write meet every pair of tasks. Two queries, one hang and two tasks
  are what it takes to confuse two answers or two tasks; `DNS_WATCHDOG_TICKS` is 2.

The cfgs say CHECK_DEADLOCK FALSE: the bounds on sessions and edits end a
behaviour, and with no phone and nothing to do the program rests. That
nobody waits on anybody is `HandlerReturns`. No symmetry is used, as most runs
check liveness.

## 5. Fairness and assumptions

Weak fairness is assumed of each task as a task: FreeRTOS schedules all of them,
at fixed priorities none of which spins. Delays and timers end. Phones are never
assumed to do anything, list changes, watchdog and link losses neither. Of the
outside it is assumed that:

* lwIP serves its mailbox in order, and `pppapi_close` runs the status callback
  before it returns, on a pcb in any phase;
* BTstack answers a name request with success or failure and a security request
  with a level, or reports the link gone;
* a phone that waits for data gives credits and `rfcomm_send` does not fail for
  ever (`Answer`, `SendChunk` are fair); CAN_SEND_NOW comes only for an open channel;
* a scan ends, and a connection attempt ends with an address or a disconnect
  (the code has no timer for a DHCP server that never answers);
* a phone's first frame precedes any output of PPP, which is set silent;
* BTstack answers every SDP query and RFCOMM request of the bootstrap, with success
  or failure, and disconnects a channel it is asked to;
* lwIP answers a SYN at the port of a connection it still has with a reset, gives
  a UDP port to one socket, and closes what it is told to close;
* for `BacklogServed`, sessions end and memory is found again and again (strong
  fairness: the relay's own deadlines end every session, `SessionEnds`);
* for `SlowServerReplaced`, a DNS task that does not hang runs; heartbeats, hangs and
  queries need not come.

`HandlerReturns` also assumes room in the mailbox for the `update_nat` that
`ppp_status_cb` posts from the tcpip task itself; with the mailbox full that post
would wait for its own task (hazard at ppp_link.c:296).

## 6. Proofs

The theorems hold for all values of the constants, under the assumptions named in
the modules and nothing else: null values are no members, sizes are positive,
the networks, inputs, requests and answers are of the shape their fields have,
`Body` and `Answers` are sequences of strings, `Base` is at least 2. What a run bounds
in a guard (dials, faults, edits, hangs) is bounded by any number. Every invariant
and action property of the passing runs has its theorem, and so has the
refinement. Each proof is by an inductive invariant: the property itself is
hardly ever one.

| theorem | statement | argument |
|---|---|---|
| `PppLinkProofs!TypeCorrect` | `Spec => []TypeOK` | step by step, `TypeStep` |
| `PppLinkProofs!ClaimIsReal` | `Spec => []ClaimMatchesChannel` | `ClaimInv`: inductive with the type; one case per RFCOMM action |
| `PppLinkProofs!AutoModeIsSafe` | `Spec => []AutoModeDecision` | the held phone is the one asked: strengthened with what the auto state says of the held channel |
| `PppLinkProofs!PcbIsTheSessions` | `Spec => []PcbOwnership` | `PcbInv`, below |
| `PppLinkProofs!RedialIsArmed` | `Spec => []RedialArmed` | read off `InLoop` of `PcbInv` |
| `PppLinkProofs!HiddenOnlyWhileBusy` | `Spec => []HiddenExactlyWhenConnected` | inductive with the type: opening, closing and the timer |
| `PppLinkProofs!LinkIsTheService` | `Spec => ImplementsService` | every action of PppLink is a step of LinkService or a stutter (`ServiceStep`), by the cases of `PcbInv` |
| `PppDataProofs!DataTypeCorrect` | `Spec => []TypeOK` | with `Numbered`: a session that is served has a number within the bound |
| `PppDataProofs!NoWakeupLost` | `Spec => []WakeupChain` | with the exception of section 3, an answer that used the turn. `WakeInv`: a pending flag means the callback is queued or about to be, and an open channel has an owner (`OpenIsOwned`, `NotifyComes`) |
| `PppDataProofs!SentToItsSession` | `Spec => []SentInOwnSession` | `DataInv`: output under way, the stream of an open channel and the script's answer are of the current session; a session served has its channel open |
| `BridgeProofs!BridgeTypes` | `Spec => []TypeOK` | part by part (gateway, list, cycle, radio, counts), with `Places`: a candidate is tried only if there is one |
| `BridgeProofs!NatIsRight` | `Spec => []NatFollows` | `NatInv`: steps that change a link are followed by a post in the same task, and only the last message served needs to be right |
| `BridgeProofs!ConnectedIsKnown` | `Spec => []ConnectedIsReal` | `DriverInv`: the last link event queued (or else `wifi_connected`) is what the radio is |
| `BridgeProofs!ReconnectsForever` | `Spec => []ReconnectingForever` | `HandlerInv`, `LostInv`: below |
| `BridgeProofs!CycleStaysAlive` | `Spec => []CycleAlive` | with its two conditions, no list change and no cycle unseen. `CycleInv`: below |
| `BtBootstrapProofs!LinkAlwaysDropped` | `BtSpec => []NoLinkLeftBehind` | `LinkInv`: a link the bridge brought up is `boot_addr`'s, in a state every way out of which drops it |
| `BtBootstrapProofs!RssiIsCurrent` | `BtSpec => []RssiOfThisSession` | inductive: one case per step that opens or closes a session or answers a poll |
| `BtBootstrapProofs!PassedRight` | `VhciSpec => []PassedUpInOrder` | `VhciInv`: below |
| `ProxyProofs!FlowTableRight` | `ProxySpec => []OneFlowPerPort` | `ProxyInv`: below |
| `ProxyProofs!FlowServes` | `ProxySpec => []FlowServesConnection` | the same |
| `ProxyProofs!SessionsKnow` | `ProxySpec => []SessionKnowsItsSite` | the same |
| `ProxyProofs!RefusedOnlyForWant` | `ProxySpec => ClosedOnlyForWant` | an action property: the accepting steps under `ProxyInv` |
| `ProxyProofs!RelayedRight` | `SessionSpec => []RelayedInOrder` | `SessionOK`: below |
| `ProxyProofs!ChecksumsRight` | `HeaderSpec => []ChecksumsStayRight` | `HeaderInv`: both sums are one's complement sums of words, and a rewrite changes sum and words alike modulo `Base - 1` |
| `SettingsProofs!ChoiceSurvives` | `SetSpec => KeptAcrossReboot` | `SavedInv`: flash has every choice not in `doubt` (`Written`), and a choice being written is in `doubt` to its last key (`InFlight`) |
| `SettingsProofs!LastChoiceHolds` | `SetSpec => []LastChoiceApplied` | `ToldInv`: a setting no callback is owed for was told to BTstack, or its task is about to tell the last value |
| `DnsFwdProofs!TellsItsOwn` | `DnsSpec => []TellsOwnAnswer` | `DnsInv`: an id in flight anywhere is one query's (`OnePerId`), so what bears it is about its name; the cache's entries are about their names |
| `BookmarksProofs!ListShown` | `BmSpec => []ListAsAsked` | `BmInv`: what RAM, flash and the slots are at each program point of a set (`SetUnderWay`) and a remove (`RemoveUnderWay`) |
| `BookmarksProofs!PowerCutLosesOne` | `BmSpec => []InterruptedChange` | the same |

`BtSpec`, `VhciSpec`, `ProxySpec`, `SessionSpec`, `HeaderSpec`, `SetSpec`, `DnsSpec` and
`BmSpec` are the `Init /\ [][Next]_vars` of their modules, the behaviours MCProxy and
MCDevice run as one of their units.

The longer arguments:

* **The pcb** (`PcbInv`). What the mailbox, the call in progress, the callback and
  the phases of all pcbs can be is a function of where the BTstack task is: one
  predicate for each `bt_pc` (`InLoop`, `InCreate`, `InListen`, `InStop`, `InClosing`).
  A blocking call is the last message of the mailbox and what is before it is
  input (`CallLast`, `InputsBefore`), which is why the close frees a pcb nobody
  else still names. An early free (finding 1) leaves exactly one way to go on
  (`FreedEarly`); `TeardownMarked` says when `ppp_status_cb` may do it. Ownership,
  the redial and the refinement are read off this one invariant.
* **Wakeups and NAPT.** `WakeupChain` alone is not inductive: a set
  `tx_notify_pending` makes `ppp_output_cb` rely on a callback somebody else
  queued, which `NotifyComes` states. Likewise for NAPT: the message count must be a
  number for "a message is queued" to survive another post.
* **Reconnecting.** `LostInv` adds to the property that candidates left have an
  attempt pending, and `HandlerInv` what the event task still knows when it acts on
  the state it read: while it handles a disconnect nobody else connects, and if
  the state is APP_BRIDGE_NO_WIFI so was the one it read, since no other task
  enters that state meanwhile. A flag `scan_in_progress` always has its scan, its event or
  its reset to come. A list that was never emptied ignores no disconnect.
* **The cycle.** While nobody changes the list and no task passes the checks with a
  cycle unseen, at most one looks for candidates: a task past the checks, a scan, or
  the handler that has cleared the flag, and then there are no candidates and no
  WiFi (`BeginPart`). The outcome queued is that of the one attempt (`OutcomePart`,
  with the order of the queue), and the state shown is one the handler goes on in
  (`CandPart`).
* **The flow table** (`ProxyInv`). An active flow of a living connection names that
  connection's site (`ActiveIsSame`); each connection is at one place of the
  relay, backlog or session (`LiveOnce`), and known there by its site
  (`BacklogKnows`); no port the phone has a connection on has an older one lwIP
  still holds open (`NoneHeld`), because lwIP answers its SYN with a reset. `SlotInv`
  and `AskedWaits` carry what `select` found to the accepts.
* **The relayed bytes** (`SessionOK`). In each direction, what was passed on followed
  by what is still to come (the buffer from its offset, and what was not read
  yet) is what is to be sent, in each stage for its own reason: before the head
  is rewritten that is the phone's stream, after it the one for the proxy
  (`UpRight`, `DownRight`). The property is that a prefix was passed on.
* **The ring of packets** (`VhciInv`). While `framed` holds, the ring is a row of whole
  frames, those of the packets stored and not yet read (`Frames`), and behind them
  it either ends or stands something no read can take for a packet (`Stray`): a byte
  that is no tag, a tag followed by another tag, or a tag alone with too little
  room for its packet ever to be completed. That last case is the delicate one: a
  packet of one byte still goes in when its tag does not (the check at 145 leaves
  out the tag), and would complete a lone tag of length 1, but then the lone tag
  was stored with no byte left. `Passing` says that what was passed up, with the
  packet in the buffer, is a prefix of what was kept.
* `NoLinkLeftBehind` needs to know that nothing has been paged in `WAIT_START`, which
  `Skip` leaves without dropping the link.

Model-checked only:

* the temporal properties, since fairness and ENABLED are outside the prover's
  reach: `HeldAcceptIsDecided`, `HandlerReturns`, `ShownAgain`, `ScriptAnswered`,
  `CycleEnds`, `Settles`, `BacklogServed`, `SessionEnds`, `BootstrapEnds`, `RingIsEmptied`,
  `SlowServerReplaced`;
* the violations of section 3, which are about single behaviours.

## 7. Plan

1. `Bridge` with packets in the mailbox (update_nat from tcpip) and `MaxBegins` 2.
2. The WiFi list's blob in NVS, with the crash model of Bookmarks.
3. More lemmas: that LinkService is all Bridge and PppData need of the link, and the
   step simulation of the connect cycle by an abstract "attempt, then outcome".

## 8. Not modelled

* Formatting: pages, log lines, escaping and form decoding, how a request line, a
  TLS hello or a DNS name is parsed (the outcomes of parsing are). The captive
  redirect and the page of networks.
* The NVS blob of the WiFi list; `nvs_flash_erase` at boot; the low-heap reboot.
* A DNS packet too short to have a header, and fragments in the proxy's hooks, which
  the code lets pass untouched.
* Clocks that wrap: `now - stamp` is modular arithmetic of 32 bits, right for ages
  below 49 days.
* Sending in the VHCI transport (one call into the controller) and its start-up.
* `sdp_lap.c` (static records), `main.c`, the BTstack port's run loop, the TLV store
  (one NVS call per link key), and the uart, stdio and audio files, which are
  third-party and not part of this firmware.
