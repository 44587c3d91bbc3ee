# LocalSend base protocol (Go) in TLA+

TLA+ models of the program under `src/`, the TLC configurations that check them on
small instances, and theorems checked by TLAPS. The program is a LocalSend peer: it
announces itself and scans for other peers, receives files from them and sends files to
them, and offers files for download. It has no tests; the models are read off the code.

## 1. The system

One process, many goroutines: one for each HTTP request (gin), the auto scan loops, the
multicast listeners, and short-lived goroutines that send notifications. They share
in-memory caches, and there is no state on disk except the received files and the
configuration file.

| Component | State | Operations |
|---|---|---|
| Receive session, protocol v2 (`api/controllers/upload_controller.go`, `cancel_controller.go`, `api/defaults`, `api/models/session_model.go`, `tool/ttl.go`) | `SessionCache`, `uploadSessions`, `uploadValidated`, `sessionContexts`, `uploadStats`, `fileSavePaths` (caches of one hour, one lock held for one function at a time), the upload folder | prepare-upload, upload, cancel, end of a session |
| Receive session, protocol v1 (same files) | `v1Sessions`: sender's IP to session | send-request, send, cancel |
| Confirmation (`defaults.go`, `confirm_controller.go`) | `confirmRecvChans`, `textReceivedDismissChans` | the user accepts, declines or dismisses; 30 s timeout |
| Share sessions (`download_controller.go`, `share_session_controller.go`, `share_session_model.go`) | share sessions, confirmed sessions, confirmation channels | create, close, prepare-download, download, confirm |
| Send session (`user_upload_controller.go`, `transfer/`) | user upload contexts, sessions of the remote peer | prepare-upload, upload, batch, cancel |
| Scan pause counter (`boardcast/config.go`) | `scanPauseCount` | `PauseScan`, `ResumeScan`, `IsScanPaused` |
| Auto scan and scan-now (`boardcast/scan_config.go`, `udp.go`, `http_scan.go`) | running flags, one restart channel of capacity 1, loop timers | loops, `RestartAutoScan`, `ScanNow`, background retry |
| Scan targets (`tool/net.go`, `boardcast/http_scan.go`) | the cached address ranges and their key | `getCachedNetworkIPs`, `GenerateNetworkIPs`, the workers of `ScanOnceHTTP` |
| Discovery and device registry (`boardcast/`, `register_controller.go`, `share/devices.go`) | devices seen in the last minutes | announce, answer, register, list, clear |
| Favorites and configuration (`tool/favorites.go`, `tool/config.go`) | the configuration in memory and its file | add, remove, list |
| Notifications (`notify/`) | none | one write to a socket each |

How they interact: a receive session raises the scan pause counter when it is accepted and
lowers it at its last upload; the scan loops read it at every tick. The sending side does
the same around its own transfers. A prepare-upload request waits for the confirmation
channel. Discovery fills the device registry that the sending side and scan-now read.

What is hard in it: handlers are sequences of short critical sections and interleave with
each other, with cancel and with the goroutine that ends a session; contexts are cancelled
from other requests; every cache entry expires on its own; senders retry and repeat; a
reference counter is raised and lowered by different requests. `PROJECT.json` lists these
hazards with the line where each bites.

## 2. Modules

| Module | Models |
|---|---|
| `ReceiveSession` | the receive session v2 |
| `ReceiveSessionProofs` | its theorems |
| `MCReceiveSession` | its instances for TLC |
| `UploadPromise` | abstract: what becomes of a session a sender was given |
| `V1Session` | the map from addresses to sessions of protocol v1, on top of `ReceiveSession` |
| `V1SessionProofs` | its theorems |
| `MCV1Session` | its instance for TLC |
| `ScanLoops` | the auto scan loops, the restart channel, scan-now, the pause counter |
| `ScanLoopsProofs` | its theorems |
| `MCScanLoops` | its instances for TLC |
| `ScanTargets` | which addresses an HTTP scan probes: ranges, their cache, the workers |
| `ScanTargetsProofs` | its theorems, and those about the ranges |
| `MCScanTargets` | its instance for TLC, and the ranges against a reference |
| `Discovery` | announcements, register calls, probes, and the list of devices |
| `DiscoveryProofs` | its theorems |
| `MCDiscovery` | its instance for TLC |
| `Consent` | abstract: what a confirmation dialog promises |
| `ShareDownload` | share sessions, prepare-download with its confirmation, confirm-download, download |
| `ShareDownloadProofs` | its theorems, one of them that it implements `Consent` |
| `MCShareDownload` | its instance for TLC |
| `PrepareUpload` | prepare-upload and send-request up to the reply, the user's answers, the favorites |
| `PrepareUploadProofs` | its theorems, one of them that it implements `Consent` |
| `MCPrepareUpload` | its instance for TLC |
| `SendSession` | the sending side: prepare-upload, upload, upload-batch and cancel-upload of the user |
| `SendSessionProofs` | its theorems |
| `MCSendSession` | its instances for TLC |

### ReceiveSession

A request is a record (`req[u]`, `cancel[c]`) whose `pc` names the next call of the handler
that takes a lock, touches the disk or the counter; the other fields are the handler's
local variables. `ending[u]` is the goroutine that upload `u` starts when it was the last.
The caches are functions or sets of sessions under the names they have in the code.

| Code | Action |
|---|---|
| end of `DefaultOnPrepareUpload`; end of `HandlePrepareUpload` | `PrepareAccept`, `PrepareRespond` |
| `HandleUpload` up to `DefaultOnUpload` | `UploadArrive`, `UploadQuery`, `UploadValidate`, `UploadLookup` |
| `DefaultOnUpload` | `UploadCheck`, `UploadGetContext`, `UploadFileInfo`, `UploadChoosePath`, `UploadCreate`, `UploadCopied` / `UploadBroken`, `UploadFinish`, `UploadSave` |
| the rest of `HandleUpload` | `UploadMark` (`MarkFile` or `MarkUnknown`), `UploadResume` |
| the goroutine of upload_end | `EndNotify`, `EndCleanup`, `EndRemove` |
| `HandleCancel`, `DefaultOnCancel` | `CancelArrive`, `CancelRemove`, `CancelDestroy`, `CancelRemove` again |
| the TTL caches (external) | `Expire` |

Steps that nobody else can see are merged: before prepare-upload is answered nobody knows
the session id, so its three cache functions are one step, and so are `PauseScan`,
`InitSessionStats` and the reply. `IsSessionCancelled` gets the context and looks at it in
two steps in the code; as `RemoveUploadSession` cancels and deletes under one lock, its
result is that of one of the two moments. With `DoNotMakeSessionFolder` all sessions
share the upload folder, and `UploadChoosePath` is `NextAvailablePath`: it takes the first of the file's names that is free
(`IsNextAvailable`), and `UploadCreate` makes the file in a later step. The names are those of the code, `a.txt`, `a-2.txt`, ...:
`Numbered` gives the name of each copy of each file, and a copy of one file may have the name of another file, or of a copy of it. Otherwise the path is `Target(u, 1)` in the
session's own folder, and no free one is looked for. A failed write, a size or hash that does not match, a broken
connection are choices. The data is abstract: a file is its id with its names, a body is whole or
not. `late`, `whole` and `offer` record history for the properties.

`Repeats`, `Strays` and `Expiry` say what the environment may do: a sender may send a file
twice, may send what it did not offer or offer nothing, and entries may reach their time to
live. With all of them FALSE the sender is as disciplined as `UserUploadBatch` of this very program, which
sends each accepted file once.

`UploadPromise` is what a sender may count on, whatever its other requests, cancels and the times to live do: the files of a session leave it once, one upload completes
it, its end is told once, and a session that was removed is never told to have ended. `ImplementsPromise` maps the state to it: `Life`, `Left` and `Last` of each session.

Faulty variants of some definitions stand before them (`StatsAfterSuccessOnly`,
`EntryKept`, ...). No run uses them as they stand: each is a plausible mistake, and `PROJECT.json` names the
property that notices it.

### V1Session

EXTENDS `ReceiveSession`: the sessions, uploads and cancels are those, and their steps are taken over as they are,
with the steps of the v1 handlers before and between them. Requests of protocol v1 carry no session id; `v1Sessions`
maps the sender's address to its session, and whatever the map says when a request arrives is the session it works on.
`sender` is the address that asked for a session, `meant` (history) the session an upload was sent for, and `displaced` (history) the
sessions whose mapping the goroutine ending another session has deleted.

| Code | Action |
|---|---|
| `HandlePrepareV1Upload`: the end of `DefaultOnPrepareUpload`; `PauseScan` and `StoreV1Session`; `InitSessionStats` and the reply | `V1Accept`; `V1Store`; `V1Respond` |
| `HandleUploadV1Upload`: `GetV1Session`; the rest | `V1UploadArrive`; `UploadStep` of `ReceiveSession` |
| the goroutine of its end: `RemoveV1Session` after a failed last file; the rest | `V1EndUnmap`; `V1EndStep` |
| `HandleCancelV1Cancel`: `GetV1Session`; `DefaultOnCancel` and `RemoveUploadSession`; `RemoveV1Session` | `V1CancelArrive`; `V1CancelStep`; `V1CancelUnmap` |
| the TTL cache of the map (external) | `V1Expire` |

A session whose last file was saved stays in the map: only a failed last file, a cancel or an hour takes it out. Sessions of
protocol v2 share no cache entry with those of v1 and are left out. Entries of the other caches expire in `ReceiveSession` only.
`Overlap` FALSE says that a sender asks for its next session when the last one is over as far as it can tell (`Over`): each file was
answered with 200 or 500, or a cancel with 200, and none of its requests waits for a reply. The goroutine that ends a session after a failed last file may
still be at work then, and takes away the mapping of the next session (`upload_controller.go:257`), whose
files are refused: `V1UploadReachesItsSession` says that nothing else has that effect. With `Overlap` TRUE a cancel
of the old session can do it, too. `V1StaysWithItsSender` holds, and is proved, for both. So is what `ReceiveSession` keeps of a single session,
`UploadPromise` included (`V1Safety`, `V1PromiseKept`).

### ScanLoops

`loop[l]` is a goroutine of `SendMulticastUsingUDPWithTimeout` (kind UDP) or
`ListenMulticastUsingHTTPWithTimeout` (kind HTTP), `request[r]` a call of `ScanNow` followed by the
goroutine it starts (`scanNowRestartAutoScan` or `scanNowBackgroundLoop`), `running` the two flags under
`autoScanControlMu`, `restartPending` the one slot of `autoScanRestartCh`.

| Code | Action |
|---|---|
| start of a loop: flag, connection, timer | `LoopStart`, `LoopDial` |
| its `select`: timeout, restart, tick | `LoopTimeout`, `LoopRestart`, `LoopTick` (then `LoopScanned`) |
| its deferred functions | `LoopLeave` |
| `ScanNow`, `scanNowBackgroundLoop` | `ScanNow`, `ScanNowScanned`; `BackgroundTick`, `BackgroundScanned`, `BackgroundTimeout` |
| `scanNowRestartAutoScan`: the question, then the act | `CheckRunning`, then `RestartAutoScan` or `RestartLoops` |
| `time.Timer` (external) | `TimerFires` |

Timers fire at any time, and what a scan finds is a choice. `main.go` configures the mixed mode with both messages,
so the branch of `ScanNow` without `SelfHTTP`, and with it `RestartAutoScan(false)`, is unreachable and left out. A UDP announcement
changes no shared state. The UDP loop may fail to resolve or dial (`DialFails`). A loop
identity is used again after its goroutine returned. Requests come at any time, also before the first loops have registered and while
the goroutine of another one is at work. `PauseScan` and `ResumeScan` are the unconditional additions of the code: the counter may go below zero, as
a repeated upload (section 3) takes it; `MaxPauses` and `MaxSurplus` bound it in the instances. `owed` is
history: the live loops that a signal should have reached.

### ScanTargets

`scan[s]` is a call of `ScanOnceHTTP` (a loop's, scan-now's or its background loop's), with the addresses it has read, its
list and what its workers do; `networkIPsCacheKey` and `networkIPsCache` are the cache under `networkIPsCacheMu`.

| Code | Action |
|---|---|
| `getCachedNetworkIPs`: the interfaces and their addresses; the lookup; the list and its store | `ScanStart`; `ScanLookup`; `ScanGenerate` |
| the own addresses, as they are now, taken out of the list | `ScanFilter` |
| a worker: `sem`, the limiter; the return of `scanOneIPHTTP`; `wg.Wait` | `ProbeStart`; `ProbeEnd`; `ScanReturn` |
| `GenerateNetworkIPs` | the operator of that name, with `Network`, `MaxHosts`, `Host` |
| links that change (external) | `NetworkChanges` |

`Host` adds to the octets in bytes, as the code does. `RangesAreRight` in `MCScanTargets` compares the ranges with a reference for
every prefix length and several last octets: up to 256 addresses every host of the network and nothing else, above that hosts .1 to .254
of the network's first 256 addresses, wherever in it the own address is (172.16.255.77/16 gives 172.16.0.1 to .254); `SmallNetworkHosts` and `LargeNetworkHosts` prove it for every address. An interface has one address at most. A list that came out empty is no hit and is made anew.

### Discovery

Several devices that all run this program. `UserScanCurrent[d]` is the list of device `d` (a cache of five minutes), `net` the multicast
packets under way, `task[t]` a listener, a register handler or a worker, with the call it is in. `SetUserScanCurrent` reads
the entry, writes it and notifies, in three steps: two tasks with one entry overlap. Which device has an address may
change (`Move`) at any time, also between a packet and the call that answers it.

| Code | Action |
|---|---|
| `sendOnce` | `Announce` |
| `listenOnInterface`: `ShouldRespond`; `SetUserScanCurrent`, then the callback | `Hear` or `Ignore`; `SetGet`, `SetSet`, `SetNotify` |
| `sendRegisterRequest`, `scanOneIPHTTP`: no answer; `HandleRegister`, or 403 for the own fingerprint; the reply | `PostFails`; `Register`; `Reply`, `ReplyFails` |
| `CallbackMulticastMessageUsingUDP` after a failed call | `Fallback` |
| a worker of `ScanOnceHTTP`; `useFastSender` | `AutoProbe`; `NameDevice` |
| `UserScanNow`: `ClearUserScanCurrent`; `ScanOnceHTTP`; the list | `ScanNowStart`, `ScanNowClear`; `ScanNowScan`, `ScanNowProbe`; `ScanNowAnswer` |
| loss of packets, the TTL cache (external) | `Lose`, `Expire` |

Of an entry only the address is told apart. `Tasks` is any number of listeners, handlers and workers of all devices. Left out:
packets that arrive twice, messages without a fingerprint, their parsing, ICMP, the second attempt over HTTP (part of a call that may fail).
`notified`, `removed` and `askedSelf` are history.

### ShareDownload, and Consent

`prepare[p]`, `confirm[c]`, `download[d]` are the requests, `answer[p]` the channel of capacity 1 that prepare-download
`p` made, `confirmDownloadChans[s]` the one place the cache has for the channel of a session, named by
the request that put it there.

| Code | Action |
|---|---|
| `UserCreateShareSession` | `Create` |
| `UserCloseShareSession` looks the session up; `RemoveShareSession` | `CloseArrive`; `RemoveShareSession` |
| `HandlePrepareDownload`: session and PIN; `IsDownloadConfirmed`; `SetConfirmDownloadChannel`; notification | `PrepareArrive`, `PrepareQuery`, `PrepareRegister`, `PrepareNotify` |
| its `select`: answer, timer | `PrepareHear`, `PrepareTimeout` |
| `MarkDownloadConfirmed`; the reply; the deferred deletion | `PrepareMark`, `PrepareAnswer`, `PrepareLeave` |
| `UserConfirmDownload`: the lookup; the send that does not block; the deletion | `ConfirmArrive`, `ConfirmSend`, `ConfirmDelete` |
| `HandleDownload` | `DownloadArrive`, `DownloadPause`, `DownloadServed` |
| the TTL caches (external) | `Expire` |

Abstract: the files of a session; PINs (any request may be refused for one). Ids are lower-case hex digits and
given out once. The local device is set before the server starts. The entry of a channel lives an hour and its
request at most 30 s, so it does not expire. The debug session id changes no state.

`Consent` has askers in groups, the user's first answer to each (`heard`), a waiver (`exempt`) and a `verdict`.
`ShareDownload` implements it with the prepare-downloads as askers, their session as group, `autoAccept` as waiver.
A yes may be given to a request that has timed out: then it grants nothing. A yes to one request
serves the others of its session, by `confirmedDownloadSess`.

### PrepareUpload

`prepare[p]` is a request to send, in protocol v1 or v2, `answer[p]` what its channel of capacity 1 holds, `reply[a]` an
answer of the user. The ids under which channels and sessions are kept are random and new for each request, so
the caches are sets of requests here.

| Code | Action |
|---|---|
| `DefaultOnPrepareUpload`: the PIN | `PrepareArrive` |
| its text-only branch: `SetTextReceivedDismissChannel` and the notification; its `select` | `TextShow`; `TextDismissed`, `TextTimeout` |
| configuration and favorites, or `SetConfirmRecvChannel`; its `select` | `PrepareCheck`; `PrepareHear`, `PrepareTimeout` |
| `JoinSession`, `CreateSessionContext`, `CacheUploadSession` | `PrepareAccept` |
| the deferred deletion; `PauseScan`, `StoreV1Session`; the switch over the error and the reply | `PrepareRespond`, `Status` |
| `UserConfirmRecv`, `UserTextReceivedDismiss`: the lookup; the send that does not block; the deletion | `AnswerArrive`, `AnswerSend`, `AnswerDelete` |
| `AddFavorite`, `RemoveFavorite`, `IsFavorite` | the same names |

The configuration is fixed before the server starts. The favorites are kept in memory and in the file, and a read of the
file wins when it parses. A failed write leaves the old content, fewer favorites or a file that does not parse
(`WriteFails`). `asked` is history: the devices the user made favorites and has not been told are removed; a
device whose removal could not be written counts as asked for, since the user got an error. A notification of a confirmation that
fails is logged and the request waits; one of a text message that fails drops the text and the reply is
the same.

`Status` follows the two switches: the text of a wrong PIN matches no case, so it gets 500, where a
comment of the sending side (`transfer/ask.go:18`) expects 401; protocol v1 knows no PIN case. What
becomes of an accepted session is `ReceiveSession`; restarts of the program are not modelled.
`Consent` is implemented with each request a group of its own and `waived` as the waiver: the
requests accepted by configuration or for a device in `asked`.


### SendSession

`prepare[s]` is a request of the user for a session; as its id is new and nobody knows it before the reply, the
request stands for the session. `call[b]` is an upload of one file (kind single) or a batch with the handler's local
variables, `cancel[c]` a cancel-upload. `accepted` and `kept` are the receiver's.

| Code | Action |
|---|---|
| `UserPrepareUpload` up to the call of `ReadyToUploadTo`; its failures; what follows its success | `PrepareAsk`; `PrepareFail`; `PrepareOpen` |
| `UserUpload`, `UserUploadBatch`: `IsUserUploadSessionCancelled`; the session and the token; the context | `CallArrive` (`FirstChecks`); `CallSession`; `CallContext` |
| the loop over the files, up to the upload | `CallNext` |
| `UploadFileWithContext`: the check of the context; the reply | `CallSend`; `CallReply` |
| the status, and `ResumeScan` of a batch | `CallFinish` (`Result`) |
| `UserCancelUpload`: the lookup; `CancelUserUploadSession`; `ResumeScan`; `CancelSession` | `CancelArrive`; `CancelDestroy`; `CancelResume`; `CancelTell` |
| the receiver (external) | `Accept`, `Receive` |
| the TTL caches (external) | `Expire` |

The receiver is any peer: it may refuse anything at any time, whether or not it was told of a cancel; it answers success
only after it has kept the file. Requests and replies get lost, and the client gives up after 30 s
(`tool/http.go:12`). `CallReply` fails a file for any of these reasons. The files of a batch come in any order, each once, and any of them may
fail for its URL or content.

The model keeps what the code does with the counter: each batch calls `ResumeScan`, a cancel too, an upload of one file
never. Which sessions have given their pause back is read off the calls and cancels that ended (`GivenBack`, `Owing`): `PauseIsGivenBack` bounds the counter by the
others from above. From below nothing bounds it, as section 3 says. The model also keeps the second lookup of the context (`CallContext`): an upload whose session was cancelled since
the first goes on under `context.Background()`, which no cancel stops.
## 3. Runs

Deadlock is not checked: the instances have finitely many requests, after which a server
is idle.

| Run | Instance | Shows |
|---|---|---|
| `ReceiveDisciplined` | 2 sessions, 2 files, 3 uploads, disciplined sender, under `FairSpec` | `ScanPauseBalanced`: the counter is exactly the number of sessions with pending files plus the uploads about to call `ResumeScan`, from which what `IsScanPaused` promises follows; `EndAccountsForFiles`: success + failed = total, and one path for each success; `UploadEndIsSent`, `ScanResumes`: both happen |
| `ReceiveAnySender` | 1 session, 2 files, 2 uploads, 1 cancel; repeats, strays, expiry, in the upload folder, and a file that has the name of the other's second copy | `ImplementsPromise`: refinement of `UploadPromise`; `OneUploadEnd`, `CancelledStaysClosed`, `SavedFileWasKnown`, `LateUploadWritesNothing`, `FailedWholeUploadIsRemoved`, `SavedFileOnDisk` |
| `V1Senders` | 2 addresses with 2 and 1 files, 2 sessions, 3 uploads, 1 cancel | `V1StaysWithItsSender`: the map leads every request into a session of its own sender; `V1UploadReachesItsSession`: a file that is still expected is not taken for another session, and refused only if the end of an earlier session of its sender has deleted the mapping |
| `ScanNowOverlaps` | first loops, 2 scan-now that may overlap, one more pair of loop identities, dialling that may fail, the counter from -1 to 1, under `FairSpec` | `RunningMeansALoop`: a raised flag has a loop behind it; `DeniedOnlyAfterReturn`: a running loop is denied only after another of its kind has returned; `BackgroundEnds`: the background loop ends however long scanning is paused; `AutoScanEnds`: the auto scan loops end, restarts notwithstanding |
| `ScanOverlap` | 3 scans, 2 interfaces, one of them a tunnel, 4 addresses, 2 changes | `ScanProbesItsNetworks`: a scan that returns has probed all the hosts of the networks it read and nothing else; `CacheMatchesKey` |
| `Discovery` | 2 devices, 3 addresses, 2 tasks, one announcement, one probe, one scan-now, one move, expiry, under `FairSpec` | `SelfListedOnlyOnRequest`: nobody lists itself; `ListedWasNotified`: list and notifications agree; `ScanNowTellsWhatItFound`; `EchoesEnd`: answers do not call for answers |
| `ShareConsent` | 1 session, 2 prepare-downloads of it, 2 confirm-downloads, 1 download, close and expiry, under `FairSpec` | `ImplementsConsent`: refinement of `Consent`; `RegisteredChannelHasReader`: no channel is left behind by overlapping requests; `PendingIsFound`: the user's answer finds a request that waits, unless another request of the session took its place away; `AgreedSessionStaysConfirmed`, `PausedForDownloads`, `TypeOK`; `PrepareIsAnswered` |
| `PrepareConsent` | 2 requests of one device, 2 answers, with and without PIN, favorites that change and whose file fails, under `FairSpec` | `ImplementsConsent`: refinement of `Consent`; `ReplyTellsSession`: a reply of 200 has a session, its pause and its mapping, any other none of them; `ChannelWhileWaiting`, `TypeOK`; `PrepareIsAnswered` |
| `SendCalls` | 1 session of up to 2 files, 2 uploads or batches, 1 cancel, expiry, under `FairSpec` | `PauseIsGivenBack`: a session that ended in a batch or a cancel keeps no pause, whatever failed; `ResultIsHonest`: 200, 207 and 500 and the counts agree with what the receiver has kept; `TypeOK`; `CallIsAnswered` |

The following runs find a state in which the code does not do what its own comments or
messages say (`findings` in `PROJECT.json` quotes the line).

| Run | What TLC finds |
|---|---|
| `BadCancelKeepsPause` | A cancelled session with no upload under way never calls `ResumeScan`: scanning stays paused for ever. |
| `BadSignalReachesOne` | Both loops receive from one channel of capacity 1: a restart signal reaches one of them. |
| `BadSamePath` | Two uploads of one file name into the upload folder both find a path free before either creates its file: both write to it, and both are reported as saved there. |

What the models show besides, in states that TLC reaches; the properties of the runs leave room for these, and say that nothing else goes wrong:

- An upload past its last context check (`defaults.go:250`) is saved after the cancel was answered.
- A text-only message over protocol v1: the handler goes on with the response that is not there
  (`upload_controller.go:211`), panics, and replies 500 to a message the user has read.
- Two prepare-downloads of one session share one place for their channels: when one ends, or a late answer to it is delivered, the
  user's answer to the other, which still waits, gets "Session not found or expired" (`Displaced`).
- Two batches of one session, as after a retry, and a cancel beside its batch call `ResumeScan` twice for one `PauseScan`
  (`user_upload_controller.go:541` and `:565`): files are then sent with the counter at zero. An upload of one file, and a session that expires
  before its batch, never do.
- A sender that sends the last file of its session twice lowers the counter twice (`upload_controller.go:374`), so that scanning goes on while a
  file of another session is being copied.
- Two scan-now requests may start loops of one kind twice, and the first that returns lowers the flag of both, although
  `scan_config.go:69` speaks of "any auto scan loop". When the last loop returns between the answer of `IsAutoScanRunning` and
  `RestartAutoScan`, nobody takes the signal and nothing is restarted. When only the HTTP loop has timed out, scan-now sees the UDP loop
  running and does not bring HTTP scanning back.
- Protocol v1: a sender whose last file failed and that asks again at once may have its new session deleted from the map by the goroutine
  that ends the old one (`upload_controller.go:257`); its files are answered 409 "No active session" (`displaced`). With `Overlap` TRUE
  a cancel does the same, and an upload of the old session goes into the new one.

Why the preconditions of some runs are there: with `Repeats` TRUE the counter is not exact, because
an upload that is repeated after its session ended calls `ResumeScan` a second time, which takes away the
pause of another session, and a file sent twice counts twice in upload_end. With a repeated upload
of a file in a session folder, or two uploads that overlap in the upload folder, a saved file can be overwritten or removed by the other upload of
its path, which is why `SavedFileOnDisk` speaks of a path that no other upload has.

### Bounds

Two files are enough for "last" and "not last"; two sessions for the shared counter, and three uploads
then leave one session with both its files sent; two uploads of one session for one
that ends it and one that overlaps with it, repeats it or comes late; one cancel, as
a second finds an unknown session or repeats the same removals. Uploads are
interchangeable: `ReceiveAnySender` uses symmetry, the run with liveness does not.
Two prepare-downloads of one session overlap in every order, or ask one after the other; two confirm-downloads
are one that fills the channel and one that finds it full or comes late; each download raises and lowers the
counter by itself, and closing or expiry of a second session would touch other entries.
`SendCalls` has one session, so that two batches, a batch and a cancel, or an upload of one file meet in it in every order;
sessions share the counter only, and `PausesGivenBack` proves it for any number. `V1Senders` has a sender whose session ends with its second
file, one that comes between, and a second session of either. `ScanNowOverlaps` has two requests, so that what one finds may be undone by the other, and two loops of each
kind, which is enough for one that speaks for another; when all four are active a third pair is not started, a bound of the instance. `MaxPauses` and `MaxSurplus` cap the
counter: one raise above zero pauses, one below zero outweighs the next raise; the theorems have any value of them, and `TypeOK` any integer. Three scans are one that fills the cache, one that uses it and one that replaces it meanwhile; networks of two
hosts are enough for a worker that has begun and one that has not, and `RangesAreRight` does the sizes. In `Discovery` the device that scans
and the one that announces may swap addresses by way of the third, and two tasks are two setters of one entry; `DiscoveryProofs` covers the rest.

### Fairness

`FairSpec` assumes weak fairness of every step of a handler or goroutine that has started:
the Go scheduler runs them on, the locks are held for a map operation only, and a
connection either delivers the body or breaks, so `CopyWithContext` returns. Nothing forces a
request to arrive, a cancel to come or an entry to expire.

`ScanLoops` assumes weak fairness of the steps that a loop or a request takes by itself (scans have
HTTP timeouts and return) and of timers, and strong fairness of the cases `LoopTimeout`
and `BackgroundTimeout` of a `select`: Go picks among the ready cases at random, so a case that is ready at
every turn is taken, although the loop leaves its `select` for other cases in between. Ticks and transfers
are not forced.

`ShareDownload` assumes weak fairness of a prepare-download that has arrived: it runs on and its timer fires.
`PrepareUpload` assumes the same of a request to send; the user need not answer, nor write a favorite.

`SendSession` assumes it of the steps of an upload or batch that has arrived: the client's timer ends the wait for a
receiver. Nothing is assumed of the receiver.

`Discovery` assumes weak fairness of every task's next step (calls have a timeout), of the steps of a scan-now, and that of the packets
under way some one is received or lost. Nobody has to announce, scan or expire. `V1Session` and `ScanTargets` state safety only.

## 4. Proofs

`ReceiveSessionProofs` proves for any finite set of sessions, files and uploads, any set of cancels, every sender (`Repeats`, `Strays`) and with or without expiry, either kind of folder, from
`ConstantsAssumption` and `NilAssumption` only (the null values are no members of the sets they stand beside):

- `TypeCorrect`: `TypeOK` is invariant.
- `UploadEndOnce` (`OneUploadEnd`). `LastInv`: an upload that holds a tally found itself last, and then the
  entry of its session was removed; `SessionsShrink` shows that an entry never comes back, so no
  other upload of that session can be last with a tally. Without the clause that the entry is gone
  the property is not inductive.
- `SavedIsMarked` (`SavedFileWasKnown`). `KnownInv`: pending files only disappear, so what the second lookup
  finds the first had found.
- `RemovalIsFinal` (`CancelledStaysClosed`) and `LateUploadsRefused` (`LateUploadWritesNothing`). `SessionsInv` and
  `LateInv`: a removed session has neither entry nor context, nothing creates them again for an id that was
  given out, and `UploadCheck` turns a late upload away before it creates a file.

- `TurnedDownIsRemoved` (`FailedWholeUploadIsRemoved`) and `SavedStays` (`SavedFileOnDisk`). `DiskInv`: a path is chosen once and before
  the file is created, and what is on disk there was created by an upload with that path; while no other has it, only the
  upload itself can take it away, which it does when it fails.

`Invariance` is the invariance of the conjunction `IInv` of these parts.
`UploadFrame`, `SessionsShrink`, `StepKinds` and `RequestCases` keep the case analysis
small: they say which step changes which record and in which direction the caches move.

`PromiseKept` is `Spec => ImplementsPromise` (`UploadPromise`), from `IInv`. `Life` reads the state of a session off its entry, the uploads that hold its
tally (`Last`) and the notifications sent. Only four kinds of steps are seen: the offer, `MarkFile`, `EndNotify`, and a removal of an entry by a cancel or its time
to live (`AcceptImplements`, `MarkImplements`, `NotifyImplements`, `RemovalImplements`); `NotSeen` says what all the others have in common. `LastInv` is what it takes: an entry that is
there has no last upload, and of a session without one a single upload has its end told.

The last part of the module is about `Disciplined` senders (no cancel, no expiry, every offered file sent once at most), any numbers of
sessions, files and uploads, and the two properties that count:

- `PauseIsExact` (`ScanPauseBalanced`) and `EndNumbersFit` (`EndAccountsForFiles`). `CountsInv`: an upload is the only one of its file
  (`OnceInv`), a file is pending until its upload is marked (`KeptInv`), the recorded paths are those of saved files (`SavedInv`), and a tally
  plus the pending files make up the offer (`TallyInv`). Without `KeptInv` a session could end before all its files were marked, and the
  successes of upload_end would not be all the paths. `MarkCounts` is the step that moves a session from one set of the pause count to the other.

`V1SessionProofs` proves, for any senders, from the assumptions of both modules:

- `V1TypeCorrect`, and `V1KeepsSendersApart` (`V1StaysWithItsSender`), `Overlap` or not. `AnsweredInv` says that what was sent was sent for a session that was answered, so that
  `sender` of an upload's session never changes.
- `V1Safety` and `V1PromiseKept`, `Overlap` or not: the six invariants of `ReceiveAnySender` and `ImplementsPromise` hold of sessions of v1. Most steps are steps of `ReceiveSession` (`BehindIsNext`);
  the others are an arrival, which the map may send to a session or turn away, and the two halves of a reply. `MapReady`, that the map leads to sessions past their `PauseScan`, is all `IInv` lacks
  to be inductive there (`V1BehindInvariance`).
- `V1UploadsArrive` (`V1UploadReachesItsSession`). `OpenInv`: of the sessions of an address at most one is `Open`, that is, has files expected, a reply that is not out, or a cancel that has not been through the map (`OneOpen`);
  while one is, the map leads to it or to none (`MapOpen`), and while its files are expected and nobody cancels it, to it, unless the goroutine ending another session has deleted the mapping (`Mapping`); and an upload of
  a session that expects files is in it, or was turned away for that reason (`Led`). `Led` carries the property past the moment of arrival; goroutines of finished sessions are not part of `Open`, because a sender cannot see them.

`ScanTargetsProofs` proves, for any interfaces, networks, scans and workers, from `ConstantsAssumption`:

- `SmallNetworkHosts` and `LargeNetworkHosts`: what `GenerateNetworkIPs` makes of any address and prefix length, against the hosts of the network. The
  powers of two are unfolded by the 33 prefix lengths, the additions in bytes by the remainder.
- `CacheKept` (`CacheMatchesKey`) and `ScansComplete` (`ScanProbesItsNetworks`). `ScanInv` says of each scan that every target is to be probed, being probed or
  probed, and that its targets are those of the addresses it read, less its own, whatever became of the cache meanwhile.
- `TypeCorrect`.

`DiscoveryProofs` proves, for any devices, addresses, tasks and bounds, from `ConstantsAssumption`:

- `TypeCorrect` and `NoSelfDiscovery` (`SelfListedOnlyOnRequest`). `Sound` says of each task that what it sets is about another device than the one whose list
  it sets, unless that one's user asked for it; the tests that keep it so are in `Hear` and in `Register`.
- `ListsAreNotified` (`ListedWasNotified`). `NotedInv`: an address that a setter has read was notified, or is about to be, so that finding it
  unchanged is reason enough to stay silent, whatever others have set in between.
- `ScanNowComplete` (`ScanNowTellsWhatItFound`). `NowInv` follows a probe of scan-now through both devices: the callee has the entry before it replies, the caller sets its own from the reply, and
  while the request scans, nobody clears what it found. An entry that was made stays made, or is recorded as dropped (`BackedStays`).

`ScanLoopsProofs` proves for any numbers of loops and requests:

- `TypeCorrect` and `RunningIsTrue` (`RunningMeansALoop`): with overlapping loops too, a raised flag
  has a loop, because the step that registers a loop raises its flag and every loop that returns lowers it (`FlagInvariance`).
- `DeniedByAnother` (`DeniedOnlyAfterReturn`): a loop that lowers its flag becomes itself the witness for every other of its kind, and a witness that is
  started anew raises the flag again (`LoopKeepsDenied`). Requests may overlap in any way.

`ShareDownloadProofs` proves, for any sessions, requests and answers, from `ConstantsAssumption`:

- `TypeCorrect`, `DownloadPausesBalanced` (`PausedForDownloads`): together, as the counter is a natural
  number because it counts the downloads being served.
- `NoChannelLeft` (`RegisteredChannelHasReader`). `AskInv` ties the program counter, the deferred deletion and the
  registered channel together.
- `ConsentKept`: `Spec => ImplementsConsent`. `ConsentInv` says that what sits in a channel was heard first, that a request
  at "mark" heard yes, and that a confirmed session has a request that was agreed to; with it every step is a step of
  `Consent` or a stutter (`StepImplements`).
- `WaitingIsFound` (`PendingIsFound`). `FoundInv` adds that who waits asked for an id that was given out and is not given out again. A request that leaves, and one that a
  confirm-download deletes the channel for, are witnesses of `Displaced` for the others, and stay so (`DisplacedStays`).
- `AgreedOnce` (`AgreedSessionStaysConfirmed`) from `AgreedInv`.

`PrepareUploadProofs` proves, for any requests, answers, devices and configurations, from `ConstantsAssumption`:

- `TypeCorrect`, and `AnswersArrive` (`ChannelWhileWaiting`) from `AskInv`: where a request may be while one of its
  channels is registered, an answer is under way to it, or its channel holds one.
- `ConsentKept`: `Spec => ImplementsConsent`. `ConsentInv`: no favorite in memory or in the file that the user has not asked
  for, however writes fail; and a request about to be accepted has heard yes, or needed no answer and can no longer get one.
- `RepliesHonest` (`ReplyTellsSession`) from `ReplyInv`, with the cardinality lemmas of the library for the counter.


`SendSessionProofs` proves, for any finite set of sessions and any files, calls and cancels, from `ConstantsAssumption`:

- `TypeCorrect`. `CallTurns` says what any step of a call does to its record, `CallEffects` what it does to the rest.
- `PausesGivenBack` (`PauseIsGivenBack`). `PauseInv`: whoever uploads or cancels has a session that was opened. A step after which a session has
  given its pause back is one in which the counter went down (`CallGivesBack`, `CancelKeepsPauseInv`), and at most one session does so at a time (`GivingBack`).
- `ResultsHonest` (`ResultIsHonest`). `Accounted`: sent and failed files are disjoint, and the file in hand is neither;
  `Kept`: a success on its way is that of the file in hand; `Told`: a call that finishes has accounted for every file or
  met a cancel. `ResultTurn` is the call that steps, `ResultFrame` every other.
Only model-checked: liveness (`UploadEndIsSent`, `ScanResumes`, `BackgroundEnds`, `AutoScanEnds`, `PrepareIsAnswered`, `CallIsAnswered`,
`EchoesEnd`), since fairness and ENABLED are out of the prover's reach. Every other property of a passing run is a theorem. `TypeOK` of `ReceiveSession`, `V1Session`, `ScanLoops`, `Discovery` and
`ScanTargets` is proved and not in a run.

## 5. Not modelled, and the plan

Not modelled: UDP sockets, TLS certificates, notifications, file walking and hashing, routing, QR codes and screenshots,
which keep no state that interacts or only ask the operating system. A restart loses every cache, so only the configuration with the favorites
survives it; `PrepareUpload` starts with what such a start may read. `PROJECT.json` gives the reason of each component, and names
the hazards that no property covers.

What is left, in this order:

1. `SendSession` composed with `ReceiveSession`: a reply to prepare-upload that is lost leaves the receiver with a session
   and a raised counter that the sender cannot cancel.
2. A restart that reads the favorites again, in the middle of a run.
3. The counts of `ReceiveSession` for senders of v1 that do not cancel: the tally is made by `V1Respond` only, when uploads may not yet come but the
   session already counts as being received, so `TallyInv` has to allow for it.
4. Abstract specifications of `SendSession` (what the user is told of a batch) and of `ScanTargets` (a scan that probes a set of addresses, without cache and
   workers), and the proofs that the modules implement them.
